------------------------------- MODULE MCLibrary -------------------------------
(* An instance of Library for TLC: chains of redirects over two domains, one *)
(* with a subdomain, for the cookies of httpclient and, with another scheme  *)
(* and this machine, for the headers of httpclienttls; and one GetProxy of   *)
(* each kind.                                                                *)
EXTENDS Library, Integers, TLC

CONSTANTS o1, m1, x1

MCHosts  == {"a", "sub.a", "b", "::1"}
MCWithin == {<<h, h>> : h \in MCHosts} \cup {<<"a", "sub.a">>}
MCLimits == {-1, 0, 2}
MCHttps  == {"https://a", "https://sub.a", "https://b"}
MCTargets == MCHttps \cup {"http://a", "http://localhost"}
MCOrigin == [t \in MCTargets |-> t]
MCSite   == [t \in MCTargets |-> IF t = "https://sub.a" THEN "https://a" ELSE t]
MCKind   == [c \in Gets |-> CASE c = o1 -> "once" [] c = m1 -> "must" [] c = x1 -> "invalid"]
===============================================================================
