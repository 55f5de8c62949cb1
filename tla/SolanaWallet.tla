----------------------------- MODULE SolanaWallet -----------------------------
(*****************************************************************************)
(* web3utils/solana: TransferCoin and TransferToken of one account.  A       *)
(* transaction is known by its signature, which is made of what it pays and  *)
(* of the blockhash it was made with, so that two calls that pay the same in *)
(* the same block make one transaction.  A blockhash expires, and with it    *)
(* the transaction if it has not been carried out.                           *)
(*****************************************************************************)
EXTENDS Naturals, FiniteSets

CONSTANTS Transfers,
          Token,      \* the calls of TransferToken, the others of TransferCoin
          Waiting,    \* those with WaitForConfirmation
          Pays,       \* Pays[t]: what the call pays, and to whom
          Valid,      \* for how many blocks a blockhash is good
          MaxBlock    \* bound on the blocks

CallsAssumption == /\ IsFiniteSet(Transfers) /\ Token \cup Waiting \subseteq Transfers
                   /\ Valid \in Nat /\ MaxBlock \in Nat
                   /\ \A t, u \in Transfers :
                        Pays[t] = Pays[u] => (t \in Token <=> u \in Token)

VARIABLES
  pc,
  blockhash,   \* blockhash[t]: the block it is made with
  told,        \* told[t]: what the call returned (see Payment)
  sent,        \* the calls whose transaction the cluster has taken
  block,       \* the latest block
  fate,        \* fate[s]: what became of the transaction with signature s
  blind        \* history: the request to send failed, whatever came of it

vars == <<pc, blockhash, told, sent, block, fate, blind>>

Blocks     == 0 .. MaxBlock
Signatures == {Pays[t] : t \in Transfers} \X Blocks
Signature(t) == <<Pays[t], blockhash[t]>>

Init == /\ pc = [t \in Transfers |-> "mint"]
        /\ blockhash = [t \in Transfers |-> 0]
        /\ told = [t \in Transfers |-> "nothing"]
        /\ sent = {}
        /\ block = 0
        /\ fate = [s \in Signatures |-> "no"]
        /\ blind = [t \in Transfers |-> FALSE]

-------------------------------------------------------------------------------
Go(t, from, to) == pc[t] = from /\ pc' = [pc EXCEPT ![t] = to]

Step(t, from, to) == Go(t, from, to) /\ UNCHANGED <<blockhash, told, sent, block, fate, blind>>

Tell(t, from, r) == /\ Go(t, from, "done")
                    /\ told' = [told EXCEPT ![t] = r]
                    /\ UNCHANGED <<blockhash, sent, block, fate, blind>>

(* The arguments, and for a token its program, decimals and balance.         *)
Mint(t) == Tell(t, "mint", "error") \/ Step(t, "mint", "fee")

(* estimateFeeForInstructions: the latest blockhash, and the fee.            *)
EstimateFee(t) ==
  \/ Tell(t, "fee", "error")
  \/ /\ Go(t, "fee", "balance")
     /\ blockhash' = [blockhash EXCEPT ![t] = block]
     /\ UNCHANGED <<told, sent, block, fate, blind>>

Balance(t) == Tell(t, "balance", "error") \/ Step(t, "balance", "send")

(* The cluster takes what is not expired, and the same transaction again.    *)
Takes(t) ==
  /\ block <= blockhash[t] + Valid
  /\ sent' = sent \cup {t}
  /\ fate' = IF fate[Signature(t)] = "no" THEN [fate EXCEPT ![Signature(t)] = "taken"]
             ELSE fate
  /\ UNCHANGED <<blockhash, told, block>>

Send(t) == \/ Tell(t, "send", "error")
           \/ Go(t, "send", "sent") /\ Takes(t) /\ UNCHANGED blind
           \/ /\ Go(t, "send", "lost") /\ Takes(t)    \* the answer is lost
              /\ blind' = [blind EXCEPT ![t] = TRUE]

TellLost(t) == Tell(t, "lost", "error")

Sent(t) == IF t \in Waiting THEN Step(t, "sent", "wait") ELSE Tell(t, "sent", "sent")

(* WaitForTransactionReceipt: a status with an error, looked at before the   *)
(* commitment and so perhaps of a block that is dropped; a confirmed one; or *)
(* an error of the node or the deadline.                                     *)
WaitForTransactionReceipt(t) ==
  \/ fate[Signature(t)] \in {"failing", "reverted"} /\ Tell(t, "wait", "failed")
  \/ fate[Signature(t)] = "done" /\ Tell(t, "wait", "confirmed")
  \/ Tell(t, "wait", "sent")

Call(t) == Mint(t) \/ EstimateFee(t) \/ Balance(t) \/ Send(t) \/ TellLost(t)
           \/ Sent(t) \/ WaitForTransactionReceipt(t)

TransferCoin(t)  == t \notin Token /\ Call(t)
TransferToken(t) == t \in Token /\ Call(t)

NewBlock == /\ block < MaxBlock
            /\ block' = block + 1
            /\ UNCHANGED <<pc, blockhash, told, sent, fate, blind>>

(* The cluster runs a transaction, without effect at first in a block that   *)
(* is not confirmed and may be dropped; or its blockhash expires.            *)
Settle(s) ==
  /\ \/ /\ fate[s] = "taken"
        /\ \E f \in {"done", "failing"} : fate' = [fate EXCEPT ![s] = f]
     \/ /\ fate[s] = "failing"
        /\ \E f \in {"taken", "reverted"} : fate' = [fate EXCEPT ![s] = f]
     \/ /\ fate[s] = "taken" /\ block > s[2] + Valid
        /\ fate' = [fate EXCEPT ![s] = "dropped"]
  /\ UNCHANGED <<pc, blockhash, told, sent, block, blind>>

Next == \/ \E t \in Transfers : TransferCoin(t) \/ TransferToken(t)
        \/ NewBlock
        \/ \E s \in Signatures : Settle(s)

Spec == Init /\ [][Next]_vars

-------------------------------------------------------------------------------
TypeOK == /\ pc \in [Transfers -> {"mint", "fee", "balance", "send", "sent", "lost",
                                   "wait", "done"}]
          /\ blockhash \in [Transfers -> Blocks]
          /\ \A s \in Signatures : fate[s] # "no" <=> \E t \in sent : Signature(t) = s

Handed == [t \in Transfers |-> IF t \in sent THEN fate[Signature(t)] ELSE "no"]

Promise == INSTANCE Payment WITH handed <- Handed

(* TransferCoin and TransferToken promise what Payment says, each for the    *)
(* transaction with its signature.                                           *)
KeepsPromise == Promise!Spec
===============================================================================
