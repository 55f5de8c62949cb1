------------------------------- MODULE HTTPPolicy ------------------------------
(*****************************************************************************)
(* What both HTTP clients promise about the proxy: a request goes the way    *)
(* the last call of ConfigureProxy asked for, or it is refused.  After a     *)
(* call that failed every request is refused until another one succeeds, so  *)
(* that no setting ever turns a bad proxy into a direct connection.          *)
(*****************************************************************************)

CONSTANTS Ways,      \* the proxies and "direct"
          Requests

VARIABLES asked,     \* what was asked for last, or "invalid"
          verify,    \* whether certificates are to be verified
          route      \* route[r]: how request r goes, if it goes

policyVars == <<asked, verify, route>>

Routes == [way : Ways, verify : BOOLEAN]
Parked == {"idle", "refused"}

Init == /\ asked \in Ways \cup {"invalid"}
        /\ verify \in BOOLEAN
        /\ route = [r \in Requests |-> [state |-> "idle"]]

Ask ==
  /\ asked' \in Ways \cup {"invalid"}
  /\ UNCHANGED <<verify, route>>

SetVerify ==
  /\ verify' \in BOOLEAN
  /\ UNCHANGED <<asked, route>>

Go(r) ==
  /\ route[r].state = "idle"
  /\ asked # "invalid"
  /\ route' = [route EXCEPT ![r] = [state |-> "sent", way |-> asked, verify |-> verify]]
  /\ UNCHANGED <<asked, verify>>

Refuse(r) ==
  /\ route[r].state = "idle"
  /\ route' = [route EXCEPT ![r] = [state |-> "refused"]]
  /\ UNCHANGED <<asked, verify>>

End(r) ==
  /\ route[r].state # "idle"
  /\ route' = [route EXCEPT ![r] = [state |-> "idle"]]
  /\ UNCHANGED <<asked, verify>>

Next == Ask \/ SetVerify \/ \E r \in Requests : Go(r) \/ Refuse(r) \/ End(r)

Spec == Init /\ [][Next]_policyVars
===============================================================================
