------------------------------ MODULE ProxyManager -----------------------------
(*****************************************************************************)
(* proxypool.Proxy: chooses between no proxy, made-up headers, one fixed     *)
(* proxy and a pool it makes when it is first needed.  In pool mode GetProxy *)
(* either tries once or goes on until it has a proxy or finds the stop flag  *)
(* up, as its caller says.  mu guards the mode, the settings and the pool;   *)
(* the flag is atomic.                                                       *)
(*                                                                           *)
(* What the pool answers is ProxyPool's business: here a Get of it succeeds  *)
(* or fails.  Modes other than the pool answer at once and are one mode.     *)
(*****************************************************************************)
EXTENDS Naturals

CONSTANTS Calls,    \* the calls of GetProxy
          Kind,     \* Kind[c]: "once", "must" or "invalid", GetProxy's parameter
          URLs,     \* the values of poolAPIURL
          Counts,   \* the values of poolMaxUseCount, and likewise of the
                    \*   expiry and of the least size
          Default,  \* what New takes for a count that is not positive
          None      \* nil

KindAssumption == Kind \in [Calls -> {"once", "must", "invalid"}]
CountsAssumption == Counts \subseteq Nat /\ Default \in Counts \ {0}
NoneAssumption == None \notin [url : URLs, count : Counts]

Settings == [url : URLs, count : Counts]

VARIABLES usesPool,  \* the mode
          settings,  \* what the manager has been told of the pool
          pool,      \* the settings of the pool, or None
          getStop,   \* the stop flag
          get        \* get[c]: where GetProxy is, or its result

poolVars == <<settings, pool>>
vars == <<usesPool, poolVars, getStop, get>>

Init == /\ usesPool = FALSE
        /\ settings \in [url : URLs, count : {Default}]
        /\ pool = None
        /\ getStop = FALSE
        /\ get = [c \in Calls |-> "new"]

-------------------------------------------------------------------------------
SetMode(m) ==
  /\ usesPool' = m
  /\ UNCHANGED <<poolVars, getStop, get>>

SetPoolAPI(u) ==
  /\ settings' = [settings EXCEPT !.url = u]
  /\ pool' = IF pool = None THEN None ELSE [pool EXCEPT !.url = u]
  /\ UNCHANGED <<usesPool, getStop, get>>

(* SetPoolMaxUseCount, SetPoolExpireSeconds and SetPoolMinSize.              *)
SetPoolCount(n) ==
  /\ settings' = [settings EXCEPT !.count = n]
  /\ pool' = IF pool = None THEN None ELSE [pool EXCEPT !.count = n]
  /\ UNCHANGED <<usesPool, getStop, get>>

(* New puts defaults in place of counts that are not positive.               *)
Normalised(n) == IF n = 0 THEN Default ELSE n

InitPool ==
  pool' = IF pool # None THEN pool
          ELSE [settings EXCEPT !.count = Normalised(@)]

GetPool == InitPool /\ UNCHANGED <<usesPool, settings, getStop, get>>

(* StopGetProxy and ResumeGetProxy.                                          *)
SetGetProxyStop(stop) ==
  /\ getStop' = stop
  /\ UNCHANGED <<usesPool, poolVars, get>>

-------------------------------------------------------------------------------
Goto(c, pc) == get' = [get EXCEPT ![c] = pc]

(* GetProxy: the mode is read once; pool mode knows two kinds of call, and   *)
(* returns ErrInvalidGetProxyMode for any other.                             *)
ReadMode(c) ==
  /\ get[c] = "new"
  /\ Goto(c, CASE ~ usesPool -> "direct"
                [] usesPool /\ Kind[c] = "once" -> "try"
                [] usesPool /\ Kind[c] = "must" -> "check"
                [] usesPool /\ Kind[c] = "invalid" -> "invalid")
  /\ UNCHANGED <<usesPool, poolVars, getStop>>

CheckStop(c) ==
  /\ get[c] = "check"
  /\ Goto(c, IF getStop THEN "stopped" ELSE "try")
  /\ UNCHANGED <<usesPool, poolVars, getStop>>

TakePool(c) ==
  /\ get[c] = "try"
  /\ InitPool
  /\ Goto(c, "pool")
  /\ UNCHANGED <<usesPool, settings, getStop>>

PoolGet(c) ==
  /\ get[c] = "pool"
  /\ \/ Goto(c, "got")
     \/ Goto(c, IF Kind[c] = "must" THEN "sleep" ELSE "failed")
  /\ UNCHANGED <<usesPool, poolVars, getStop>>

Wake(c) ==
  /\ get[c] = "sleep"
  /\ Goto(c, "check")
  /\ UNCHANGED <<usesPool, poolVars, getStop>>

Looping(c) == CheckStop(c) \/ TakePool(c) \/ PoolGet(c) \/ Wake(c)

Next == \/ \E m \in BOOLEAN : SetMode(m) \/ SetGetProxyStop(m)
        \/ \E u \in URLs : SetPoolAPI(u)
        \/ \E n \in Counts : SetPoolCount(n)
        \/ GetPool
        \/ \E c \in Calls : ReadMode(c) \/ Looping(c)

Spec == Init /\ [][Next]_vars

-------------------------------------------------------------------------------
Trying == {"check", "try", "pool", "sleep"}

(* Types; a call never asks a pool that has not been made.                   *)
TypeOK == /\ usesPool \in BOOLEAN /\ getStop \in BOOLEAN
          /\ settings \in Settings /\ pool \in Settings \cup {None}
          /\ get \in [Calls -> {"new", "direct", "got", "failed", "stopped", "invalid"} \cup Trying]
          /\ \A c \in Calls : get[c] = "pool" => pool # None

(* The pool works with what the manager was told last, whether that was      *)
(* before the pool existed or after.                                         *)
PoolFollowsSettings ==
  pool # None => /\ pool.url = settings.url
                 /\ pool.count \in {settings.count, Normalised(settings.count)}
===============================================================================
