------------------------------ MODULE TronWallet ------------------------------
(*****************************************************************************)
(* web3utils/tron: TransferCoin and TransferToken.  The node makes the       *)
(* transaction, the call signs and broadcasts it, then polls for what became *)
(* of it.  A step is one request; amounts, balances and fees are abstracted  *)
(* to whether they suffice.                                                  *)
(*****************************************************************************)
EXTENDS FiniteSets

CONSTANTS Transfers,
          Token,      \* the calls of TransferToken, the others of TransferCoin
          Waiting     \* those with WaitForConfirmation

CallsAssumption == IsFiniteSet(Transfers) /\ Token \cup Waiting \subseteq Transfers

VARIABLES
  pc,
  told,       \* told[t]: what the call returned (see Payment)
  handed,     \* handed[t]: what became of its transaction
  blind       \* history: Broadcast failed, whatever the node did

vars == <<pc, told, handed, blind>>

Init == /\ pc = [t \in Transfers |-> "balance"]
        /\ told = [t \in Transfers |-> "nothing"]
        /\ handed = [t \in Transfers |-> "no"]
        /\ blind = [t \in Transfers |-> FALSE]

-------------------------------------------------------------------------------
Go(t, from, to) == pc[t] = from /\ pc' = [pc EXCEPT ![t] = to]

Step(t, from, to) == Go(t, from, to) /\ UNCHANGED <<told, handed, blind>>

Tell(t, from, r) == /\ Go(t, from, "done")
                    /\ told' = [told EXCEPT ![t] = r]
                    /\ UNCHANGED <<handed, blind>>

(* The arguments, and the balance or, for a token, its decimals and balance. *)
Balance(t) ==
  \/ Tell(t, "balance", "error")
  \/ Step(t, "balance", IF t \in Token THEN "feelimit" ELSE "build")

(* AutoFeeLimit: an estimate that fails leaves the limit as it was.          *)
FeeLimit(t) == Step(t, "feelimit", "build")

(* Transfer or TRC20Send: the node makes the transaction; then it is signed. *)
Build(t) == Tell(t, "build", "error") \/ Step(t, "build", "broadcast")

Broadcast(t) ==
  \/ Tell(t, "broadcast", "error")
  \/ /\ Go(t, "broadcast", "sent")
     /\ handed' = [handed EXCEPT ![t] = "taken"]
     /\ UNCHANGED <<told, blind>>
  \/ /\ Go(t, "broadcast", "lost")       \* the node takes it, the answer is lost
     /\ handed' = [handed EXCEPT ![t] = "taken"]
     /\ blind' = [blind EXCEPT ![t] = TRUE]
     /\ UNCHANGED told

TellLost(t) == Tell(t, "lost", "error")

Sent(t) == IF t \in Waiting THEN Step(t, "sent", "wait") ELSE Tell(t, "sent", "sent")

(* transactionInfoSucceeded.                                                 *)
TransactionInfoSucceeded(t) == handed[t] = "done"

(* WaitForTransactionReceipt finds the transaction in a block, or, whatever  *)
(* errors it met, gives up at its deadline.                                  *)
WaitForTransactionReceipt(t) ==
  \/ /\ handed[t] \in {"done", "reverted"}
     /\ Tell(t, "wait", IF TransactionInfoSucceeded(t) THEN "confirmed" ELSE "failed")
  \/ Tell(t, "wait", "sent")

TransferCoin(t) == t \notin Token /\ Balance(t)

TransferToken(t) == (t \in Token /\ Balance(t)) \/ FeeLimit(t)

Finish(t) == Build(t) \/ Broadcast(t) \/ TellLost(t) \/ Sent(t)
             \/ WaitForTransactionReceipt(t)

(* The chain carries the transaction out, in vain or not, or lets it expire. *)
Settle(t) == /\ handed[t] = "taken"
             /\ \E fate \in {"done", "reverted", "dropped"} :
                  handed' = [handed EXCEPT ![t] = fate]
             /\ UNCHANGED <<pc, told, blind>>

Next == \E t \in Transfers :
          TransferCoin(t) \/ TransferToken(t) \/ Finish(t) \/ Settle(t)

Spec == Init /\ [][Next]_vars

-------------------------------------------------------------------------------
TypeOK == /\ pc \in [Transfers -> {"balance", "feelimit", "build", "broadcast", "sent",
                                   "lost", "wait", "done"}]
          /\ \A t \in Transfers : pc[t] = "done" <=> told[t] # "nothing"

Promise == INSTANCE Payment

(* TransferCoin and TransferToken promise what Payment says.                 *)
KeepsPromise == Promise!Spec
===============================================================================
