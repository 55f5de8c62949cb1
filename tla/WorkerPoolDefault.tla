--------------------------- MODULE WorkerPoolDefault ---------------------------
(*****************************************************************************)
(* The package-level pool of workerpool/singleton.go: created on demand,     *)
(* resized by SetDefaultMaxWorkers and dropped by Stop.  defaultMu guards    *)
(* defaultPool and defaultMaxWorkers; what a call then does to the pool it   *)
(* found there happens after the lock is released.  A pool is reduced to its *)
(* limit and its stopped flag (WorkerPool models the rest).                  *)
(*****************************************************************************)
EXTENDS Integers, FiniteSets

CONSTANTS Callers,  \* the goroutines that use the package
          Pools,    \* the pools New can still create (a bound)
          NoPool,   \* nil
          Sizes     \* arguments of SetDefaultMaxWorkers

NoPoolAssumption == NoPool \notin Pools
SizesAssumption  == Sizes \subseteq Int

VARIABLES defaultPool, defaultMaxWorkers,
          maxWorkers,  \* maxWorkers[p] of a created pool, 0 before
          stopped,     \* stopped[p]
          call,        \* call[c]: what caller c is doing, with the pool it has
          overlapped   \* history: two SetDefaultMaxWorkers calls have overlapped

vars == <<defaultPool, defaultMaxWorkers, maxWorkers, stopped, call, overlapped>>

Idle == [op |-> "idle"]

Live(p) == p # NoPool /\ ~stopped[p]

Limit(n) == IF n <= 0 THEN 1 ELSE n

InFlight == {c \in Callers : call[c] # Idle}
Setting  == {c \in Callers : call[c].op = "resize"}

Init == /\ defaultPool = NoPool
        /\ defaultMaxWorkers \in {Limit(n) : n \in Sizes}
        /\ maxWorkers = [p \in Pools |-> 0]
        /\ stopped = [p \in Pools |-> FALSE]
        /\ call = [c \in Callers |-> Idle]
        /\ overlapped = FALSE

(* Default, Submit, WaitIdle, DefaultStats: get the pool, or create it.      *)
Default(c) ==
  /\ call[c] = Idle
  /\ IF Live(defaultPool)
     THEN UNCHANGED <<defaultPool, maxWorkers>>
     ELSE \E p \in Pools : /\ maxWorkers[p] = 0
                           /\ defaultPool' = p
                           /\ maxWorkers' = [maxWorkers EXCEPT ![p] = defaultMaxWorkers]
  /\ call' = [call EXCEPT ![c] = [op |-> "use", pool |-> defaultPool']]
  /\ UNCHANGED <<defaultMaxWorkers, stopped, overlapped>>

(* The caller uses its pool, and may stop it behind the package's back.      *)
Use(c) ==
  /\ call[c].op = "use"
  /\ stopped' \in {stopped, [stopped EXCEPT ![call[c].pool] = TRUE]}
  /\ call' = [call EXCEPT ![c] = Idle]
  /\ UNCHANGED <<defaultPool, defaultMaxWorkers, maxWorkers, overlapped>>

(* SetDefaultMaxWorkers: the new default, then the pool found with it.       *)
SetStore(c) ==
  /\ call[c] = Idle
  /\ \E n \in Sizes :
       /\ defaultMaxWorkers' = Limit(n)
       /\ call' = [call EXCEPT ![c] = [op |-> "resize", pool |-> defaultPool,
                                       size |-> Limit(n)]]
  /\ overlapped' = (overlapped \/ Setting # {})
  /\ UNCHANGED <<defaultPool, maxWorkers, stopped>>

SetResize(c) ==
  /\ call[c].op = "resize"
  /\ maxWorkers' = IF Live(call[c].pool)
                   THEN [maxWorkers EXCEPT ![call[c].pool] = call[c].size]
                   ELSE maxWorkers
  /\ call' = [call EXCEPT ![c] = Idle]
  /\ UNCHANGED <<defaultPool, defaultMaxWorkers, stopped, overlapped>>

(* A mutant: Stop stops whatever pool is the default by then.                *)
StopLatePool(c) ==
  /\ call[c].op = "stop"
  /\ stopped' = IF defaultPool # NoPool THEN [stopped EXCEPT ![defaultPool] = TRUE]
                ELSE stopped
  /\ call' = [call EXCEPT ![c] = Idle]
  /\ UNCHANGED <<defaultPool, defaultMaxWorkers, maxWorkers, overlapped>>

(* Stop: take the pool away, then stop it.                                   *)
StopTake(c) ==
  /\ call[c] = Idle
  /\ defaultPool # NoPool
  /\ defaultPool' = NoPool
  /\ call' = [call EXCEPT ![c] = [op |-> "stop", pool |-> defaultPool]]
  /\ UNCHANGED <<defaultMaxWorkers, maxWorkers, stopped, overlapped>>

StopPool(c) ==
  /\ call[c].op = "stop"
  /\ stopped' = [stopped EXCEPT ![call[c].pool] = TRUE]
  /\ call' = [call EXCEPT ![c] = Idle]
  /\ UNCHANGED <<defaultPool, defaultMaxWorkers, maxWorkers, overlapped>>

Next == \E c \in Callers : \/ Default(c) \/ Use(c) \/ SetStore(c) \/ SetResize(c)
                           \/ StopTake(c) \/ StopPool(c)

Spec == Init /\ [][Next]_vars

-------------------------------------------------------------------------------
Created == {p \in Pools : maxWorkers[p] # 0}

TypeOK ==
  /\ defaultPool \in Created \cup {NoPool}
  /\ defaultMaxWorkers \in Int /\ defaultMaxWorkers >= 1
  /\ maxWorkers \in [Pools -> Nat]
  /\ stopped \in [Pools -> BOOLEAN]
  /\ call \in [Callers -> {Idle} \cup [op : {"use", "stop"}, pool : Created]
       \cup [op : {"resize"}, pool : Created \cup {NoPool}, size : Nat \ {0}]]
  /\ overlapped \in BOOLEAN

(* No pool is forgotten with its dispatcher running: every pool that is not  *)
(* stopped is the default one, or a Stop call is on its way to stop it.      *)
NoPoolLeaks ==
  \A p \in Created : Live(p) =>
    \/ p = defaultPool
    \/ \E c \in Callers : call[c] = [op |-> "stop", pool |-> p]

(* As long as no two SetDefaultMaxWorkers calls overlap, the live default    *)
(* pool has the default limit whenever no such call is under way.            *)
SequentialSetsApply ==
  ~overlapped /\ Setting = {} /\ Live(defaultPool) =>
    maxWorkers[defaultPool] = defaultMaxWorkers

(* The documented claim, also for calls that overlap.                        *)
SetsApply ==
  InFlight = {} /\ Live(defaultPool) => maxWorkers[defaultPool] = defaultMaxWorkers
===============================================================================
