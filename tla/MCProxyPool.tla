------------------------------ MODULE MCProxyPool ------------------------------
(* An instance of ProxyPool for TLC: an API that answers with one address.   *)
EXTENDS ProxyPool

CONSTANT a

Single == {<<a>>}
===============================================================================
