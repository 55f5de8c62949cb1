----------------------------- MODULE BitcoinWallet -----------------------------
(*****************************************************************************)
(* web3utils/bitcoin: TransferCoin and TransferAll of one address, called by *)
(* several goroutines, through one or several BTCWallet objects.  The coins  *)
(* of the address are chosen by the wallet from what an Esplora index says,  *)
(* and that index may be behind the node that takes the transactions.        *)
(* A step is one request, with the computation that follows it.              *)
(*****************************************************************************)
EXTENDS Integers, FiniteSets, FiniteSetsExt

CONSTANTS Transfers,
          Wallet,      \* Wallet[t]: the object it is called on; one mutex each
          NoTransfer,
          Sweep,       \* the calls of TransferAll
          Amount,      \* Amount[t]: what a call of TransferCoin pays
          Unconfirmed, \* those with IncludeUnconfirmed
          Verifying,   \* those with VerifyUTXOs
          Legacy,      \* those that sign no input value (addresses of before segwit)
          Waiting,     \* those with WaitForConfirmation
          Value,       \* Value[c]: the coins of the address at the start
          Misread,     \* what else the index may say a coin is worth
          Rates,       \* fee rates
          MaxInputs, Dust,
          Overhead,    \* the size of a transaction without inputs
          FirstSize,   \* and of one with a P2WPKH input: others have inputs of
                       \*   a different size, which is the unit here
          Growth       \* what an input of an uncompressed key has beyond it

Coins == DOMAIN Value

WalletAssumption ==
  /\ IsFiniteSet(Transfers) /\ NoTransfer \notin Transfers /\ IsFiniteSet(Coins)
  /\ Transfers \cap Coins = {}
  /\ Sweep \cup Unconfirmed \cup Verifying \cup Legacy \cup Waiting \subseteq Transfers
  /\ Amount \in [Transfers -> Nat] /\ Value \in [Coins -> Nat \ {0}]
  /\ Rates \subseteq Nat \ {0} /\ MaxInputs \in Nat \ {0} /\ Dust \in Nat
  /\ Overhead \in Nat /\ FirstSize \in Nat /\ Growth \in Nat
  /\ \A m \in Misread : m.value \in Int

VARIABLES
  pc,
  holder,     \* holder[w]: who holds transferMu of w
  list,       \* list[t]: what listUnspent gave, as [coin, value]
  rate,
  tx,         \* tx[t]: the transaction made, see NoTx
  told,       \* told[t]: what the call returned (see Payment)
  (* outside *)
  handed,     \* handed[t]: what became of the transaction
  late,       \* broadcasts that may still come to the node
  indexed,    \* whose transactions the index takes into account
  (* history *)
  blind,      \* blind[t]: the broadcast failed, whatever the node did
  unseen      \* unseen[t]: transactions the index did not have when t listed

callVars == <<pc, holder, list, rate, tx, told>>
netVars  == <<handed, late, indexed>>
vars     == <<callVars, netVars, blind, unseen>>

(* The coins spent, what they are said to be worth, the change that comes    *)
(* back (as the coin named t) and the signed size.                           *)
NoTx == [in |-> {}, total |-> 0, pays |-> 0, change |-> 0, size |-> 0]

Init == /\ pc = [t \in Transfers |-> "start"]
        /\ holder = [w \in {Wallet[t] : t \in Transfers} |-> NoTransfer]
        /\ list = [t \in Transfers |-> {}]
        /\ rate = [t \in Transfers |-> 0]
        /\ tx = [t \in Transfers |-> NoTx]
        /\ told = [t \in Transfers |-> "nothing"]
        /\ handed = [t \in Transfers |-> "no"]
        /\ late = {} /\ indexed = {}
        /\ blind = [t \in Transfers |-> FALSE]
        /\ unseen = [t \in Transfers |-> {}]

-------------------------------------------------------------------------------
(* Coins and fees.                                                           *)
Worth(c) == IF c \in Coins THEN Value[c] ELSE tx[c].change

Total(utxos) == MapThenSumSet(LAMBDA u : u.value, utxos)

Largest(utxos, k) ==
  CHOOSE s \in kSubset(k, utxos) : \A x \in s, y \in utxos \ s : x.value >= y.value

(* The smallest coin that will do, or else the largest ones, at most         *)
(* MaxInputs, until they do.                                                 *)
SelectUTXOs(utxos, target) ==
  LET single == {u \in utxos : u.value >= target}
      limit  == Min({MaxInputs, Cardinality(utxos)})
      enough == {k \in 1 .. limit : Total(Largest(utxos, k)) >= target}
  IN IF single # {} THEN {CHOOSE u \in single : \A v \in single : u.value <= v.value}
     ELSE Largest(utxos, IF enough = {} THEN limit ELSE Min(enough))

(* The estimate of txsizes, and what it may be once it is signed: txsizes    *)
(* knows no uncompressed keys.  A transaction that turns out smaller is      *)
(* treated like one of the estimated size.                                   *)
Size(inputs) == Overhead + inputs
SizeLimit(t, inputs) == Size(inputs) + IF t \in Legacy THEN Growth * inputs ELSE 0
SignedSizes(t, inputs) == Size(inputs) .. SizeLimit(t, inputs)

(* NewUnsignedTransaction asks for coins that pay the fee of one P2WPKH      *)
(* input, whatever the address is, and until those it got pay the fee of     *)
(* their own number; {} stands for insufficientUTXOError.                    *)
Fund(utxos, amount, r) ==
  LET try[fee \in Nat] ==
        LET s    == SelectUTXOs(utxos, amount + fee)
            need == r * Size(Cardinality(s))
        IN IF Total(s) < amount + fee THEN {}
           ELSE IF Total(s) - amount < need THEN try[need] ELSE s
  IN try[r * FirstSize]

(* What is left is change, unless it is dust, which goes to the fee.         *)
Change(rest) == IF rest < Dust THEN 0 ELSE rest

Fee(t) == tx[t].total - tx[t].pays - tx[t].change

(* What the coins are really worth, against what the transaction gives.      *)
TrueFee(t) == MapThenSumSet(Worth, tx[t].in) - tx[t].pays - tx[t].change

-------------------------------------------------------------------------------
(* The mutex is let go when the transaction has been broadcast, or not.      *)
Unlock(t) == holder' = [holder EXCEPT ![Wallet[t]] = NoTransfer]

GoTo(t, step) == pc' = [pc EXCEPT ![t] = step]

Tell(t, r) == GoTo(t, "done") /\ told' = [told EXCEPT ![t] = r]

(* An error under the mutex: a request fails, or its answer will not do.     *)
Fail(t, step) ==
  /\ pc[t] = step
  /\ Tell(t, "error") /\ Unlock(t)
  /\ list' = [list EXCEPT ![t] = {}] /\ tx' = [tx EXCEPT ![t] = NoTx]
  /\ unseen' = [unseen EXCEPT ![t] = {}]
  /\ UNCHANGED <<rate, netVars, blind>>

(* Options, addresses and amount, before the mutex.                          *)
Start(t) ==
  /\ pc[t] = "start"
  /\ \/ GoTo(t, "lock") /\ UNCHANGED told
     \/ Tell(t, "error")
  /\ UNCHANGED <<holder, list, rate, tx, netVars, blind, unseen>>

(* A mutant: no mutex. *)
LockNothing(t) ==
  /\ pc[t] = "lock"
  /\ GoTo(t, "list")
  /\ UNCHANGED <<holder, list, rate, tx, told, netVars, blind, unseen>>

Lock(t) ==
  /\ pc[t] = "lock" /\ holder[Wallet[t]] = NoTransfer
  /\ holder' = [holder EXCEPT ![Wallet[t]] = t]
  /\ GoTo(t, "list")
  /\ UNCHANGED <<list, rate, tx, told, netVars, blind, unseen>>

(* What the index holds for unspent.  A change is confirmed once its         *)
(* transaction is carried out.                                               *)
Spent(by) == UNION {tx[u].in : u \in by}

Unspent(t) ==
  (Coins \cup {u \in indexed : tx[u].change > 0
                               /\ (handed[u] = "done" \/ t \in Unconfirmed)})
  \ Spent(indexed)

(* listUnspent.  The index may misread one coin.                             *)
Readings(t) ==
  LET true == {[coin |-> c, value |-> Worth(c)] : c \in Unspent(t)}
  IN {true} \cup {{IF u.coin = m.coin THEN m ELSE u : u \in true} : m \in Misread}

ListUnspent(t) ==
  \/ Fail(t, "list")
  \/ /\ pc[t] = "list"
     /\ \E utxos \in Readings(t) :
          /\ utxos # {}
          /\ t \in Sweep => Cardinality(utxos) <= MaxInputs
          /\ list' = [list EXCEPT ![t] = utxos]
     /\ unseen' = [unseen EXCEPT ![t] = {u \in Transfers : handed[u] = "taken"} \ indexed]
     /\ GoTo(t, "author")
     /\ UNCHANGED <<holder, rate, tx, told, netVars, blind>>

(* resolveFeeRate, and what is made of it: t is to spend the coins s.        *)
Made(t, r, s, pays, change, size) ==
  /\ pc[t] = "author"
  /\ rate' = [rate EXCEPT ![t] = r]
  /\ tx' = [tx EXCEPT ![t] = [in |-> {u.coin : u \in s}, total |-> Total(s), pays |-> pays,
                              change |-> change, size |-> size]]
  /\ GoTo(t, IF t \in Verifying THEN "verify" ELSE "post")
  /\ UNCHANGED <<holder, list, told, netVars, blind, unseen>>

(* prepareTransaction: it spends coins of the list.                          *)
Author(t) == \E r \in Rates, s \in SUBSET list[t] :
  LET rest == Total(s) - Amount[t] - r * Size(Cardinality(s))
  IN /\ t \notin Sweep /\ s # {} /\ s = Fund(list[t], Amount[t], r)
     /\ \E size \in SignedSizes(t, Cardinality(s)) :
          Made(t, r, s, Amount[t], Change(rest), size)

(* TransferAll spends the whole list without change.  It signs again with a  *)
(* higher fee while the signed size is more than the fee was for: the fee    *)
(* may be that of an earlier signature.                                      *)
AuthorSweep(t) == \E r \in Rates, paid, size \in SignedSizes(t, Cardinality(list[t])) :
  LET pays == Total(list[t]) - r * paid
  IN /\ t \in Sweep /\ size <= paid /\ pays > 0 /\ pays >= Dust
     /\ Made(t, r, list[t], pays, 0, size)

(* No fee rate, or coins that do not suffice.                                *)
AuthorFails(t) == Fail(t, "author")

(* A mutant: the transactions that made the coins are fetched, but not what  *)
(* they made the coins worth.                                                *)
VerifyExistence(t) ==
  /\ pc[t] = "verify"
  /\ GoTo(t, "post")
  /\ UNCHANGED <<holder, list, rate, tx, told, netVars, blind, unseen>>

(* verifySelectedPrevOutputs: every coin is worth what the index said.       *)
Verify(t) ==
  \/ Fail(t, "verify")
  \/ /\ pc[t] = "verify"
     /\ \A u \in list[t] : u.coin \in tx[t].in => u.value = Worth(u.coin)
     /\ GoTo(t, "post")
     /\ UNCHANGED <<holder, list, rate, tx, told, netVars, blind, unseen>>

(* The check of the fee, once the transaction is signed.                     *)
SignedWell(t) == Fee(t) >= rate[t] * tx[t].size

-------------------------------------------------------------------------------
(* The node.                                                                 *)
InPool == {u \in Transfers : handed[u] = "taken"}
Chain  == {u \in Transfers : handed[u] = "done"}

Descendants(s) ==
  {u \in Transfers : \A closed \in SUBSET Transfers :
     (s \subseteq closed /\ {v \in InPool : tx[v].in \cap closed # {}} \subseteq closed)
     => u \in closed}

Conflicts(t) == Descendants({u \in InPool : tx[u].in \cap tx[t].in # {}})

(* It takes what spends coins that are there, and replaces transactions that *)
(* pay less.  A signature of segwit covers what the coins are worth.         *)
Acceptable(t) ==
  /\ tx[t].in \subseteq Coins \cup Chain \cup (InPool \ Conflicts(t))
  /\ tx[t].in \cap Spent(Chain) = {}
  /\ t \notin Legacy => TrueFee(t) = Fee(t)
  /\ TrueFee(t) >= 0
  /\ Conflicts(t) # {} => TrueFee(t) > MapThenSumSet(TrueFee, Conflicts(t))

NodeTakes(t) ==
  /\ Acceptable(t)
  /\ handed' = [u \in Transfers |-> IF u = t THEN "taken"
                                    ELSE IF u \in Conflicts(t) THEN "dropped"
                                    ELSE handed[u]]
  /\ UNCHANGED indexed

AfterPost(t, step) ==
  /\ pc[t] = "post" /\ SignedWell(t)
  /\ GoTo(t, step)
  /\ list' = [list EXCEPT ![t] = {}] /\ unseen' = [unseen EXCEPT ![t] = {}]
  /\ UNCHANGED <<rate, tx, told>>

PostRefused(t) == Fail(t, "post")

PostAccepted(t) == /\ AfterPost(t, "sent") /\ Unlock(t)
                   /\ NodeTakes(t)
                   /\ UNCHANGED <<late, blind>>

(* The answer is lost, or names another transaction; or the request takes    *)
(* longer than its 15 seconds, and reaches the node later or never.          *)
PostLost(t) ==
  /\ AfterPost(t, "lost") /\ UNCHANGED holder
  /\ \/ NodeTakes(t) /\ UNCHANGED late
     \/ late' = late \cup {t} /\ UNCHANGED <<handed, indexed>>
  /\ blind' = [blind EXCEPT ![t] = TRUE]

TellLost(t) == /\ pc[t] = "lost"
               /\ Tell(t, "error") /\ Unlock(t)
               /\ UNCHANGED <<list, rate, tx, netVars, blind, unseen>>

Sent(t) == /\ pc[t] = "sent"
           /\ IF t \in Waiting THEN GoTo(t, "wait") /\ UNCHANGED told ELSE Tell(t, "sent")
           /\ UNCHANGED <<holder, list, rate, tx, netVars, blind, unseen>>

(* waitForTransactionReceipt polls, whatever errors it meets, until the      *)
(* transaction is confirmed or the time is over, which is no failure.        *)
Wait(t) == /\ pc[t] = "wait"
           /\ Tell(t, "sent") \/ (handed[t] = "done" /\ Tell(t, "confirmed"))
           /\ UNCHANGED <<holder, list, rate, tx, netVars, blind, unseen>>

-------------------------------------------------------------------------------
LateArrives(t) == /\ t \in late
                  /\ late' = late \ {t}
                  /\ NodeTakes(t)
                  /\ UNCHANGED <<callVars, blind, unseen>>

Confirm(t) == /\ t \in InPool /\ tx[t].in \subseteq Coins \cup Chain
              /\ handed' = [handed EXCEPT ![t] = "done"]
              /\ UNCHANGED <<callVars, late, indexed, blind, unseen>>

Evict(t) == /\ t \in InPool
            /\ handed' = [u \in Transfers |-> IF u \in Descendants({t}) THEN "dropped"
                                              ELSE handed[u]]
            /\ UNCHANGED <<callVars, late, indexed, blind, unseen>>

(* The index follows the node, one transaction after the other.              *)
Index(t) == /\ \/ /\ t \in (InPool \cup Chain) \ indexed
                  /\ tx[t].in \subseteq Coins \cup indexed
                  /\ indexed' = indexed \cup {t}
               \/ /\ t \in indexed /\ handed[t] = "dropped"
                  /\ indexed' = indexed \ {t}
            /\ UNCHANGED <<callVars, handed, late, blind, unseen>>

Next == \E t \in Transfers :
  \/ Start(t) \/ Lock(t) \/ ListUnspent(t)
  \/ Author(t) \/ AuthorSweep(t) \/ AuthorFails(t) \/ Verify(t)
  \/ PostRefused(t) \/ PostAccepted(t) \/ PostLost(t) \/ TellLost(t)
  \/ Sent(t) \/ Wait(t)
  \/ LateArrives(t) \/ Confirm(t) \/ Evict(t) \/ Index(t)

Spec == Init /\ [][Next]_vars

-------------------------------------------------------------------------------
InMutex == {"list", "author", "verify", "post", "lost"}

TypeOK ==
  /\ \A t \in Transfers :
       /\ pc[t] \in InMutex \cup {"start", "lock", "sent", "wait", "done"}
       /\ pc[t] \in InMutex <=> holder[Wallet[t]] = t
       /\ handed[t] # "no" => tx[t].in # {}
  /\ \A t, u \in InPool \cup Chain : t # u => tx[t].in \cap tx[u].in = {}

(* "Insufficient balance" is said only if no coins of the list, as many as a *)
(* transaction may have, pay the amount and both the fee of their number and *)
(* that of one P2WPKH input.                                                 *)
InsufficientIsTrue ==
  \A t \in Transfers \ Sweep, r \in Rates :
    pc[t] = "author" /\ Fund(list[t], Amount[t], r) = {} =>
      \A s \in SUBSET list[t] : Cardinality(s) \in 1 .. MaxInputs =>
        \/ Total(s) < Amount[t] + r * Size(Cardinality(s))
        \/ Total(s) < Amount[t] + r * FirstSize

(* A transaction whose coins were verified pays for its size, and less than  *)
(* dust beyond the fee for the size that was estimated; a sweep, no more     *)
(* than the fee for the size it may have had when it was signed.             *)
FeeLimit(t, r, inputs) ==
  IF t \in Sweep THEN r * SizeLimit(t, inputs) + 1 ELSE r * Size(inputs) + Max({Dust, 1})

FeesAreBounded ==
  \A t \in Transfers : handed[t] # "no" /\ t \in Verifying =>
    /\ TrueFee(t) >= rate[t] * tx[t].size
    /\ TrueFee(t) < FeeLimit(t, rate[t], Cardinality(tx[t].in))

(* A transaction is replaced by that of another call on the same wallet only *)
(* if the index did not have it yet: the mutex keeps the calls apart, but    *)
(* not their transactions.  A broadcast that failed may come after others.   *)
ReplacedOnlyIfUnseen ==
  [][\A t, u \in Transfers :
       /\ handed[t] = "taken" /\ handed'[t] = "dropped"
       /\ handed[u] = "no" /\ handed'[u] = "taken"
       /\ Wallet[t] = Wallet[u] /\ ~blind'[t] /\ ~blind'[u]
       => t \in unseen[u]]_vars

Promise == INSTANCE Payment

(* TransferCoin and TransferAll promise what Payment says.                   *)
KeepsPromise == Promise!Spec
===============================================================================
