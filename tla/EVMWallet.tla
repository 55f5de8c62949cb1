------------------------------ MODULE EVMWallet -------------------------------
(*****************************************************************************)
(* web3utils/evm: TransferCoin and TransferToken, called by several          *)
(* goroutines for one account.  A call asks the node one thing after the     *)
(* other, with no lock: what it was told may be out of date when it is used, *)
(* the pending nonce above all.  A step is one request to the node; the      *)
(* checks and the signing between two requests belong to the first of them.  *)
(* Amounts, balances and gas are abstracted to whether they suffice.         *)
(*****************************************************************************)
EXTENDS Integers, FiniteSets

CONSTANTS Transfers,  \* the calls, all of one sending account
          Token,      \* those of TransferToken, the others of TransferCoin
          Waiting,    \* those with WaitForConfirmation
          Price,      \* Price[t]: the gas price the call comes to offer
          NoTransfer

SubsetsAssumption == /\ IsFiniteSet(Transfers) /\ NoTransfer \notin Transfers
                     /\ Token \subseteq Transfers
                     /\ Waiting \subseteq Transfers
                     /\ Price \in [Transfers -> Nat]

VARIABLES
  pc, nonce,
  told,        \* told[t]: what the call returned (see Payment)
  (* the node *)
  mined,       \* the number of transactions carried out: the account's nonce
  pool,        \* pool[n]: whose transaction it holds for nonce n
  handed,      \* handed[t]: what became of the call's transaction
  (* history *)
  blind,       \* blind[t]: SendTransaction failed, whatever the node did
  since        \* since[t]: transactions the node took since t read its nonce,
               \* until t sends its own

nodeVars == <<mined, pool, handed>>
vars == <<pc, nonce, told, blind, since, nodeVars>>

Nonces == 0 .. Cardinality(Transfers)

Init == /\ pc = [t \in Transfers |-> "prepare"]
        /\ nonce = [t \in Transfers |-> 0]
        /\ told = [t \in Transfers |-> "nothing"]
        /\ mined = 0
        /\ pool = [n \in Nonces |-> NoTransfer]
        /\ handed = [t \in Transfers |-> "no"]
        /\ blind = [t \in Transfers |-> FALSE]
        /\ since = [t \in Transfers |-> {}]

-------------------------------------------------------------------------------
GoTo(t, step) == pc' = [pc EXCEPT ![t] = step]

Tell(t, r) == GoTo(t, "done") /\ told' = [told EXCEPT ![t] = r]

(* The request of the step fails, or its answer refuses the transfer.        *)
Fail(t, step) == /\ pc[t] = step
                 /\ Tell(t, "error")
                 /\ since' = [since EXCEPT ![t] = {}]
                 /\ UNCHANGED <<nonce, blind, nodeVars>>

Pass(t, step, next) == /\ pc[t] = step
                       /\ GoTo(t, next)
                       /\ UNCHANGED <<nonce, told, blind, since, nodeVars>>

(* What comes before the nonce reaches nothing but whether the call goes on. *)
(* TransferCoin: options, addresses, key, amount, then the balance.          *)
PrepareCoin(t) == /\ t \notin Token
                  /\ Fail(t, "prepare") \/ Pass(t, "prepare", "nonce")

(* TransferToken also asks for the token's decimals (18 when that fails) and *)
(* for what the account holds of the token.                                  *)
PrepareToken(t) == /\ t \in Token
                   /\ Fail(t, "prepare") \/ Pass(t, "prepare", "nonce")

(* PendingNonceAt: the first nonce neither carried out nor in the pool.      *)
PendingNonce == CHOOSE n \in Nonces :
                  /\ n >= mined
                  /\ n = Cardinality(Transfers) \/ pool[n] = NoTransfer
                  /\ \A m \in mined .. n - 1 : pool[m] # NoTransfer

(* A mutant: NonceAt, which does not count what is in the pool. *)
ReadMinedNonce(t) ==
  \/ Fail(t, "nonce")
  \/ /\ pc[t] = "nonce"
     /\ nonce' = [nonce EXCEPT ![t] = mined]
     /\ since' = [since EXCEPT ![t] = {}]
     /\ GoTo(t, "quote")
     /\ UNCHANGED <<told, blind, nodeVars>>

ReadNonce(t) ==
  \/ Fail(t, "nonce")
  \/ /\ pc[t] = "nonce"
     /\ nonce' = [nonce EXCEPT ![t] = PendingNonce]
     /\ since' = [since EXCEPT ![t] = {}]
     /\ GoTo(t, "quote")
     /\ UNCHANGED <<told, blind, nodeVars>>

(* The gas price, with a fallback, then the gas limit and the cost against   *)
(* the balance read before.  A failed estimate has a default, except for a   *)
(* contract call.                                                            *)
Quote(t) == Fail(t, "quote") \/ Pass(t, "quote", "send")

-------------------------------------------------------------------------------
(* SendTransaction at the node.  A nonce is free, or its transaction is      *)
(* replaced by one that offers more.                                         *)
Takes(t) == LET n == nonce[t] IN
  /\ n >= mined
  /\ pool[n] # NoTransfer => Price[pool[n]] < Price[t]

NodeTakes(t) ==
  LET old == pool[nonce[t]] IN
  /\ pool' = [pool EXCEPT ![nonce[t]] = t]
  /\ handed' = IF old = NoTransfer THEN [handed EXCEPT ![t] = "taken"]
               ELSE [handed EXCEPT ![t] = "taken", ![old] = "dropped"]
  /\ since' = [u \in Transfers |->
                IF u # t /\ pc[u] \in {"quote", "send"} THEN since[u] \cup {t} ELSE {}]
  /\ UNCHANGED mined

(* Signing fails, or the node refuses.                                       *)
SendRefused(t) == Fail(t, "send")

SendAccepted(t) == /\ pc[t] = "send" /\ Takes(t)
                   /\ NodeTakes(t)
                   /\ GoTo(t, "sent")
                   /\ UNCHANGED <<nonce, told, blind>>

(* The node takes the transaction and its answer is lost.                    *)
SendLost(t) == /\ pc[t] = "send" /\ Takes(t)
               /\ NodeTakes(t)
               /\ blind' = [blind EXCEPT ![t] = TRUE]
               /\ GoTo(t, "lost")
               /\ UNCHANGED <<nonce, told>>

TellLost(t) == Fail(t, "lost")

Sent(t) == \/ /\ t \in Waiting
              /\ Pass(t, "sent", "wait")
           \/ /\ t \notin Waiting /\ pc[t] = "sent"
              /\ Tell(t, "sent")
              /\ UNCHANGED <<nonce, blind, since, nodeVars>>

(* A mutant: the status in the receipt is not looked at. *)
ReceiptUnread(t) ==
  /\ pc[t] = "wait" /\ handed[t] \in {"done", "reverted"}
  /\ Tell(t, "confirmed")
  /\ UNCHANGED <<nonce, blind, since, nodeVars>>

(* waitReceipt finds the receipt; its status says whether the transaction    *)
(* had an effect.                                                            *)
Receipt(t) ==
  /\ pc[t] = "wait" /\ handed[t] \in {"done", "reverted"}
  /\ Tell(t, IF handed[t] = "done" THEN "confirmed" ELSE "failed")
  /\ UNCHANGED <<nonce, blind, since, nodeVars>>

(* waitReceipt gives up: the deadline, or an error other than "not found".   *)
GiveUp(t) == /\ pc[t] = "wait"
             /\ Tell(t, "sent")
             /\ UNCHANGED <<nonce, blind, since, nodeVars>>

-------------------------------------------------------------------------------
(* The node carries out the next transaction of the account.                 *)
Mine == /\ pool[mined] # NoTransfer
        /\ \E fate \in {"done", "reverted"} :
             handed' = [handed EXCEPT ![pool[mined]] = fate]
        /\ pool' = [pool EXCEPT ![mined] = NoTransfer]
        /\ mined' = mined + 1
        /\ UNCHANGED <<pc, nonce, told, blind, since>>

(* The node drops a transaction it cannot or will not keep.                  *)
Evict == \E n \in Nonces :
           /\ pool[n] # NoTransfer
           /\ handed' = [handed EXCEPT ![pool[n]] = "dropped"]
           /\ pool' = [pool EXCEPT ![n] = NoTransfer]
           /\ UNCHANGED <<pc, nonce, told, blind, since, mined>>

(* From the nonce on the two do the same.                                    *)
Transfer(t) ==
  \/ ReadNonce(t) \/ Quote(t) \/ SendRefused(t) \/ SendAccepted(t) \/ SendLost(t)
  \/ TellLost(t) \/ Sent(t) \/ Receipt(t) \/ GiveUp(t)

TransferCoin(t)  == PrepareCoin(t) \/ (t \notin Token /\ Transfer(t))
TransferToken(t) == PrepareToken(t) \/ (t \in Token /\ Transfer(t))

Next == Mine \/ Evict \/ \E t \in Transfers : TransferCoin(t) \/ TransferToken(t)

Spec == Init /\ [][Next]_vars

-------------------------------------------------------------------------------
TypeOK ==
  /\ pc \in [Transfers -> {"prepare", "nonce", "quote", "send", "sent", "lost",
                           "wait", "done"}]
  /\ nonce \in [Transfers -> Nonces]
  /\ mined \in Nonces
  /\ pool \in [Nonces -> Transfers \cup {NoTransfer}]
  /\ \A n \in Nonces : pool[n] # NoTransfer =>
       handed[pool[n]] = "taken" /\ nonce[pool[n]] = n

(* A transaction that was handed over is replaced only by that of a call     *)
(* which had read its nonce before: calls made one after the other never     *)
(* get into each other's way, since the pending nonce counts the pool.       *)
ReplacedOnlyIfOverlapping ==
  [][\A n \in Nonces : pool[n] # NoTransfer /\ pool'[n] \notin {NoTransfer, pool[n]}
                         => pool[n] \in since[pool'[n]]]_vars

Promise == INSTANCE Payment

(* TransferCoin and TransferToken promise what Payment says.                 *)
KeepsPromise == Promise!Spec
===============================================================================
