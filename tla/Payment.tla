------------------------------- MODULE Payment --------------------------------
(*****************************************************************************)
(* What the transfers of every wallet of web3utils promise.  A call hands at *)
(* most one transaction to its network.  What it tells its caller is         *)
(*   "error"     no transaction identifier: nothing was handed over, unless  *)
(*               the call never learned what became of its own broadcast,    *)
(*   "sent"      an identifier: the transaction was handed over,             *)
(*   "confirmed" an identifier: it was carried out,                          *)
(*   "failed"    an identifier: the network ran it without effect, be it in  *)
(*               a block that may still be dropped, and it with it.          *)
(* A call tells one thing, and hands nothing over once it has told it,       *)
(* except a broadcast it lost sight of.                                      *)
(*****************************************************************************)
CONSTANT Transfers

VARIABLES handed,  \* handed[t]: what became of the call's transaction
          blind,   \* blind[t]: the call did not learn what its broadcast did
          told     \* told[t]: what the call told its caller

paymentVars == <<handed, blind, told>>

Fates == {"no", "taken", "failing", "done", "reverted", "dropped"}

Init == /\ handed = [t \in Transfers |-> "no"]
        /\ blind = [t \in Transfers |-> FALSE]
        /\ told = [t \in Transfers |-> "nothing"]

(* What one step of the network may do to the transaction of t: take it,     *)
(* carry it out, run it without effect, for good or in a block that may be   *)
(* dropped ("failing"), or drop it for another.                              *)
MayBecome(t, fate) ==
  \/ fate = handed[t]
  \/ handed[t] = "no" /\ (told[t] = "nothing" \/ blind[t])
  \/ handed[t] \in {"taken", "failing"} /\ fate # "no"

Network ==
  /\ handed' \in [Transfers -> Fates]
  /\ blind' \in [Transfers -> BOOLEAN]
  /\ \A t \in Transfers : /\ MayBecome(t, handed'[t])
                          /\ blind[t] => blind'[t]
                          /\ told[t] # "nothing" => blind'[t] = blind[t]
  /\ UNCHANGED told

Tell(t, r) ==
  /\ told[t] = "nothing"
  /\ \/ r = "error" /\ (handed[t] = "no" \/ blind[t])
     \/ r = "sent" /\ handed[t] # "no"
     \/ r = "confirmed" /\ handed[t] = "done"
     \/ r = "failed" /\ handed[t] \in {"failing", "reverted"}
  /\ told' = [told EXCEPT ![t] = r]
  /\ UNCHANGED <<handed, blind>>

Next == \/ Network
        \/ \E t \in Transfers, r \in {"error", "sent", "confirmed", "failed"} : Tell(t, r)

Spec == Init /\ [][Next]_paymentVars
===============================================================================
