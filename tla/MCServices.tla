------------------------------ MODULE MCServices -------------------------------
(* An instance of Services for TLC.  Bitcoin: t1 pays 8 and t2 pays 5 from   *)
(* one wallet object, t3 sweeps through another; one coin may be misread,    *)
(* and an input is half as large as the P2WPKH input asked for first.        *)
(* EVM: two coin transfers and one of a token, which offers less gas.        *)
EXTENDS Services, TLC

CONSTANTS m1, m2, c1, c2, w1, w2, t1, t2, t3, p

MCMail    == <<m1, m2>>
MCWallet  == (t1 :> w1) @@ (t2 :> w1) @@ (t3 :> w2)
MCAmount  == (t1 :> 8) @@ (t2 :> 5) @@ (t3 :> 0)
MCValue   == (c1 :> 8) @@ (c2 :> 9)
MCMisread == {[coin |-> c1, value |-> 7]}
MCPrice   == (t1 :> 2) @@ (t2 :> 1) @@ (t3 :> 2)
MCPays    == (t1 :> p) @@ (t2 :> t2) @@ (t3 :> p)
===============================================================================
