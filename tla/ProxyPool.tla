------------------------------- MODULE ProxyPool -------------------------------
(*****************************************************************************)
(* proxypool.ProxyPool: proxies that may each be handed out a limited number *)
(* of times before they expire, refilled from an API by whichever Get finds  *)
(* too few of them.  poolMu guards the list and the settings; a Get holds it *)
(* while it chooses a proxy and counts the use.  refreshMu lets one refresh  *)
(* fetch at a time.  The count of a proxy is atomic: whoever has got hold of *)
(* a proxy may use, reset or extend it without the lock of the pool.         *)
(*                                                                           *)
(* Time is the set of the proxies that have expired.  The API answers with   *)
(* any of the lists in Answers, or fails.                                    *)
(*****************************************************************************)
EXTENDS Naturals, Sequences, FiniteSets, Functions, SequencesExt

CONSTANTS Items,      \* the proxies in memory at one time: a bound
          Addrs,      \* their addresses, ip:port
          Gets,       \* the calls of Get
          Refreshes,  \* the calls of Refresh from outside
          Holders,    \* the calls of IncrementUseCount from outside
          Answers,    \* what the API may answer: sequences of addresses
          Limits,     \* the values of maxUseCount
          MinSizes,   \* the values of minPoolSize
          None        \* nil

ASSUME AnswersAssumption == Answers \subseteq Seq(Addrs)
ASSUME SettingsAssumption == Limits \subseteq Nat /\ MinSizes \subseteq Nat
ASSUME CallsAssumption == /\ Gets \cap Refreshes = {} /\ Gets \cap Holders = {}
                          /\ None \notin Items \cup Addrs

Users      == Gets \cup Holders     \* whoever counts a use
Refreshers == Gets \cup Refreshes   \* a Get makes at most one refresh

VARIABLES proxies,   \* the list of the pool
          rr,        \* roundRobinIdx
          settings,  \* apiURL (is it set?), maxUseCount and minPoolSize
          addr,      \* addr[i]: the address of a proxy, None before it is made
          used,      \* used[i]: usedCount
          limit,     \* limit[i]: maxUseCount
          expired,   \* the proxies whose expireTime has passed
          get,       \* get[u]: where a Get or a use by a holder is
          picked,    \* picked[u]: the proxy it wants
          seen,      \* seen[u]: the count it has loaded
          refresh,   \* refresh[r]: where a refresh is, or its result
          pending,   \* pending[r]: the addresses it has still to add
          lastErr,   \* the last error of a refresh
          granted,   \* history: how often a proxy was used since its last Reset
          peak       \* history: the highest limit a proxy has had

poolVars    == <<proxies, rr>>
countVars   == <<used, granted>>
itemVars    == <<addr, limit, expired, peak>>
getVars     == <<get, picked, seen>>
refreshVars == <<refresh, pending, lastErr>>
vars == <<poolVars, settings, countVars, itemVars, getVars, refreshVars>>

-------------------------------------------------------------------------------
Made == {i \in Items : addr[i] # None}

(* The memory of a proxy nobody needs any more is used for another one.      *)
InUse == Range(proxies) \cup
         {picked[u] : u \in {v \in Users : get[v] \in {"load", "cas", "callback"}}}
Free  == Items \ InUse

IsAvailable(i) == i \notin expired /\ used[i] < limit[i]

(* What the first n proxies of the list leave when only the available ones   *)
(* are appended.                                                             *)
Kept[n \in 0 .. Len(proxies)] ==
  IF n = 0 THEN <<>>
  ELSE IF IsAvailable(proxies[n]) THEN Append(Kept[n - 1], proxies[n]) ELSE Kept[n - 1]

Valid == Kept[Len(proxies)]

(* A mutant: the callback runs inside the lock.                              *)
HoldsPoolMuLong(g) == get[g] \in {"select", "load", "cas", "callback"}

(* A mutant: the lock is released before the use is counted.                 *)
HoldsPoolMuBriefly(g) == get[g] \in {"select", "load"}

HoldsPoolMu(g)    == get[g] \in {"select", "load", "cas"}
HoldsRefreshMu(r) == refresh[r] \in {"fetch", "add", "notify"}

PoolMuFree    == \A g \in Gets : ~ HoldsPoolMu(g)
RefreshMuFree == \A r \in Refreshers : ~ HoldsRefreshMu(r)

Init == /\ proxies = <<>>
        /\ rr = 0
        /\ settings \in [apiURL : BOOLEAN, maxUseCount : Limits \ {0},
                         minPoolSize : MinSizes \ {0}]
        /\ addr = [i \in Items |-> None]
        /\ used = [i \in Items |-> 0]
        /\ limit = [i \in Items |-> 0]
        /\ expired = {}
        /\ get = [u \in Users |-> "new"]
        /\ picked = [u \in Users |-> None]
        /\ seen = [u \in Users |-> 0]
        /\ refresh = [r \in Refreshers |-> "new"]
        /\ pending = [r \in Refreshers |-> <<>>]
        /\ lastErr = "none"
        /\ granted = [i \in Items |-> 0]
        /\ peak = [i \in Items |-> 0]

-------------------------------------------------------------------------------
(* The list                                                                  *)

(* NewProxyItemWithConfig, appended to the list.                             *)
NewProxy(a) ==
  LET i == CHOOSE j \in Free : TRUE
  IN  /\ Free # {}
      /\ proxies' = Append(proxies, i)
      /\ addr' = [addr EXCEPT ![i] = a]
      /\ used' = [used EXCEPT ![i] = 0]
      /\ granted' = [granted EXCEPT ![i] = 0]
      /\ limit' = [limit EXCEPT ![i] = settings.maxUseCount]
      /\ peak' = [peak EXCEPT ![i] = settings.maxUseCount]
      /\ expired' = expired \ {i}

(* A mutant: an address that is in the list is added again.                  *)
AddUnchecked(a) ==
  /\ PoolMuFree
  /\ NewProxy(a)
  /\ UNCHANGED <<rr, settings>>

(* AddProxy: a new proxy with the settings of now, unless it is there.       *)
AddProxy(a) ==
  /\ PoolMuFree
  /\ IF \E i \in Range(proxies) : addr[i] = a
     THEN UNCHANGED <<proxies, countVars, itemVars>>
     ELSE NewProxy(a)
  /\ UNCHANGED <<rr, settings>>

AddByCaller(a) == AddProxy(a) /\ UNCHANGED <<getVars, refreshVars>>

Cleanup ==
  /\ PoolMuFree
  /\ proxies' = Valid
  /\ UNCHANGED <<rr, settings, countVars, itemVars, getVars, refreshVars>>

Clear ==
  /\ PoolMuFree
  /\ proxies' = <<>>
  /\ UNCHANGED <<rr, settings, countVars, itemVars, getVars, refreshVars>>

(* Remove and RemoveByString.                                                *)
RemoveByString(a) ==
  /\ PoolMuFree
  /\ \E k \in DOMAIN proxies : addr[proxies[k]] = a /\ proxies' = RemoveAt(proxies, k)
  /\ UNCHANGED <<rr, settings, countVars, itemVars, getVars, refreshVars>>

(* SetAPIURL, SetMaxUseCount and SetMinPoolSize.                             *)
Set(s) ==
  /\ PoolMuFree
  /\ settings' = s
  /\ UNCHANGED <<poolVars, countVars, itemVars, getVars, refreshVars>>

-------------------------------------------------------------------------------
(* Refresh                                                                   *)

Goto(r, pc) == refresh' = [refresh EXCEPT ![r] = pc]

(* Called from outside, by an empty Get, or in a goroutine a Get has begun.  *)
Read(r) ==
  /\ \/ refresh[r] = "begun"
     \/ r \in Refreshes /\ refresh[r] = "new"
  /\ PoolMuFree
  /\ Goto(r, IF settings.apiURL THEN "try" ELSE "noURL")
  /\ UNCHANGED <<poolVars, settings, countVars, itemVars, getVars, pending, lastErr>>

NoURL(r) ==
  /\ refresh[r] = "noURL"
  /\ lastErr' = "noURL"
  /\ Goto(r, "failed")
  /\ UNCHANGED <<poolVars, settings, countVars, itemVars, getVars, pending>>

TryLock(r) ==
  /\ refresh[r] = "try"
  /\ Goto(r, IF RefreshMuFree THEN "fetch" ELSE "skipped")
  /\ UNCHANGED <<poolVars, settings, countVars, itemVars, getVars, pending, lastErr>>

Fetch(r) ==
  /\ refresh[r] = "fetch"
  /\ \/ /\ lastErr' = "failed"
        /\ Goto(r, "notify")
        /\ UNCHANGED pending
     \/ /\ lastErr' = "none"
        /\ \E s \in Answers : pending' = [pending EXCEPT ![r] = s]
        /\ Goto(r, "add")
  /\ UNCHANGED <<poolVars, settings, countVars, itemVars, getVars>>

AddNext(r) ==
  /\ refresh[r] = "add"
  /\ IF pending[r] = <<>>
     THEN /\ Goto(r, "notify")
          /\ UNCHANGED <<poolVars, settings, countVars, itemVars, pending>>
     ELSE /\ AddProxy(Head(pending[r]))
          /\ pending' = [pending EXCEPT ![r] = Tail(@)]
          /\ UNCHANGED refresh
  /\ UNCHANGED <<getVars, lastErr>>

(* onRefresh, a callback that looks at the pool, then refreshMu is released. *)
Notify(r) ==
  /\ refresh[r] = "notify"
  /\ PoolMuFree
  /\ Goto(r, "done")
  /\ UNCHANGED <<poolVars, settings, countVars, itemVars, getVars, pending, lastErr>>

-------------------------------------------------------------------------------
(* Get                                                                       *)

(* Clean up, and refresh when there are too few: at once when there is none, *)
(* in a goroutine otherwise.                                                 *)
Enter(g) ==
  /\ get[g] = "new"
  /\ PoolMuFree
  /\ proxies' = Valid
  /\ get' = [get EXCEPT ![g] = IF Valid = <<>> THEN "refreshing" ELSE "select"]
  /\ IF Len(Valid) < settings.minPoolSize \/ Valid = <<>>
     THEN Goto(g, "begun") ELSE UNCHANGED refresh
  /\ UNCHANGED <<rr, settings, countVars, itemVars, picked, seen, pending, lastErr>>

Relock(g) ==
  /\ get[g] = "refreshing"
  /\ refresh[g] \in {"failed", "skipped", "done"}
  /\ PoolMuFree
  /\ get' = [get EXCEPT ![g] = "select"]
  /\ UNCHANGED <<poolVars, settings, countVars, itemVars, picked, seen, refreshVars>>

Select(g) ==
  /\ get[g] = "select"
  /\ IF Valid = <<>>
     THEN /\ get' = [get EXCEPT ![g] = "none"]
          /\ UNCHANGED <<rr, picked>>
     ELSE /\ get' = [get EXCEPT ![g] = "load"]
          /\ picked' = [picked EXCEPT ![g] = Valid[(rr % Len(Valid)) + 1]]
          /\ rr' = rr + 1
  /\ UNCHANGED <<proxies, settings, countVars, itemVars, seen, refreshVars>>

(* IncrementUseCount: load and compare, then compare and swap.               *)
Load(u) ==
  /\ get[u] = "load"
  /\ IF used[picked[u]] >= limit[picked[u]]
     THEN get' = [get EXCEPT ![u] = "none"] /\ UNCHANGED seen
     ELSE /\ get' = [get EXCEPT ![u] = "cas"]
          /\ seen' = [seen EXCEPT ![u] = used[picked[u]]]
  /\ UNCHANGED <<poolVars, settings, countVars, itemVars, picked, refreshVars>>

(* A mutant: the new count is stored without looking again.                  *)
StoreCount(u) ==
  /\ get[u] = "cas"
  /\ used' = [used EXCEPT ![picked[u]] = seen[u] + 1]
  /\ granted' = [granted EXCEPT ![picked[u]] = @ + 1]
  /\ get' = [get EXCEPT ![u] = "callback"]
  /\ UNCHANGED <<poolVars, settings, itemVars, picked, seen, refreshVars>>

CompareAndSwap(u) ==
  /\ get[u] = "cas"
  /\ IF used[picked[u]] = seen[u]
     THEN /\ used' = [used EXCEPT ![picked[u]] = @ + 1]
          /\ granted' = [granted EXCEPT ![picked[u]] = @ + 1]
          /\ get' = [get EXCEPT ![u] = "callback"]
     ELSE /\ get' = [get EXCEPT ![u] = "load"]
          /\ UNCHANGED countVars
  /\ UNCHANGED <<poolVars, settings, itemVars, picked, seen, refreshVars>>

(* onProxyGet, a callback that looks at the pool.                            *)
Callback(u) ==
  /\ get[u] = "callback"
  /\ PoolMuFree
  /\ get' = [get EXCEPT ![u] = "got"]
  /\ UNCHANGED <<poolVars, settings, countVars, itemVars, picked, seen, refreshVars>>

-------------------------------------------------------------------------------
(* A proxy in the hands of a caller, who may have had it before it left the  *)
(* pool; and time.                                                           *)

Hold(u) ==
  /\ u \in Holders /\ get[u] = "new"
  /\ \E i \in Made : picked' = [picked EXCEPT ![u] = i]
  /\ get' = [get EXCEPT ![u] = "load"]
  /\ UNCHANGED <<poolVars, settings, countVars, itemVars, seen, refreshVars>>

Reset(i) ==
  /\ i \in Made
  /\ used' = [used EXCEPT ![i] = 0]
  /\ granted' = [granted EXCEPT ![i] = 0]
  /\ expired' = expired \ {i}
  /\ UNCHANGED <<poolVars, settings, addr, limit, peak, getVars, refreshVars>>

(* SetExpireTime and ExtendExpireTime.                                       *)
Extend(i) ==
  /\ i \in expired
  /\ expired' = expired \ {i}
  /\ UNCHANGED <<poolVars, settings, countVars, addr, limit, peak, getVars, refreshVars>>

(* SetMaxUseCount of a proxy.                                                *)
SetLimit(i, n) ==
  /\ i \in Made
  /\ limit' = [limit EXCEPT ![i] = n]
  /\ peak' = [peak EXCEPT ![i] = IF n > @ THEN n ELSE @]
  /\ UNCHANGED <<poolVars, settings, countVars, addr, expired, getVars, refreshVars>>

Expire(i) ==
  /\ i \in Made \ expired
  /\ expired' = expired \cup {i}
  /\ UNCHANGED <<poolVars, settings, countVars, addr, limit, peak, getVars, refreshVars>>

-------------------------------------------------------------------------------
Refreshing(r) == Read(r) \/ NoURL(r) \/ TryLock(r) \/ Fetch(r) \/ AddNext(r) \/ Notify(r)
Using(u)      == Load(u) \/ CompareAndSwap(u) \/ Callback(u)
Getting(g)    == Relock(g) \/ Select(g) \/ Using(g)

Next == \/ \E a \in Addrs : AddByCaller(a) \/ RemoveByString(a)
        \/ Cleanup \/ Clear
        \/ \E s \in [apiURL : BOOLEAN, maxUseCount : Limits, minPoolSize : MinSizes] : Set(s)
        \/ \E r \in Refreshers : Refreshing(r)
        \/ \E g \in Gets : Enter(g) \/ Getting(g)
        \/ \E u \in Holders : Hold(u) \/ Using(u)
        \/ \E i \in Items : Reset(i) \/ Extend(i) \/ Expire(i)
        \/ \E i \in Items, n \in Limits : SetLimit(i, n)

Spec == Init /\ [][Next]_vars

(* Goroutines run.  With finitely many Gets the mutex is free from some time *)
(* on, so weak fairness gives it to whoever waits; nobody has to call.       *)
FairSpec == /\ Spec
            /\ \A r \in Refreshers : WF_vars(refresh[r] # "new" /\ Refreshing(r))
            /\ \A g \in Gets : WF_vars(Getting(g))
            /\ \A u \in Holders : WF_vars(Using(u))

-------------------------------------------------------------------------------
(* Types; a Get that waits for its refresh has begun it, and one that counts *)
(* a use has a proxy to count.                                               *)
TypeOK ==
  /\ proxies \in Seq(Made) /\ rr \in Nat
  /\ settings \in [apiURL : BOOLEAN, maxUseCount : Limits, minPoolSize : MinSizes]
  /\ addr \in [Items -> Addrs \cup {None}]
  /\ used \in [Items -> Nat] /\ limit \in [Items -> Nat] /\ expired \subseteq Items
  /\ get \in [Users -> {"new", "refreshing", "select", "load", "cas", "callback", "got", "none"}]
  /\ picked \in [Users -> Made \cup {None}] /\ seen \in [Users -> Nat]
  /\ \A u \in Users : get[u] \in {"load", "cas"} => picked[u] \in Items
  /\ refresh \in [Refreshers -> {"new", "begun", "noURL", "try", "fetch", "add", "notify",
                                 "failed", "skipped", "done"}]
  /\ \A g \in Gets : get[g] = "refreshing" => refresh[g] # "new"
  /\ pending \in [Refreshers -> Seq(Addrs)] /\ lastErr \in {"none", "noURL", "failed"}
  /\ granted \in [Items -> Nat] /\ peak \in [Items -> Nat]

(* The pool never lists two proxies of one address, whatever refreshes and   *)
(* callers of AddProxy, Clear and Remove do at once.                         *)
NoDuplicates ==
  \A k, l \in DOMAIN proxies : addr[proxies[k]] = addr[proxies[l]] => k = l

(* The pool lists proxies it has made, each address once.                    *)
ListIsSound == TypeOK /\ NoDuplicates

(* No use is lost, and no proxy is handed out more often than its limit has  *)
(* ever allowed, although uses are counted without a lock.                   *)
UsesWithinLimit == \A i \in Items : granted[i] = used[i] /\ granted[i] <= peak[i]

(* Only one refresh at a time is between its fetch and its callback.         *)
OneRefreshAtATime ==
  \A r, s \in Refreshers : HoldsRefreshMu(r) /\ HoldsRefreshMu(s) => r = s

(* A Get counts a use only of a proxy the pool still lists: none that a      *)
(* Remove, Clear or Cleanup has taken out meanwhile.                         *)
GrantsFromPool ==
  [][\A g \in Gets : get[g] = "cas" /\ get'[g] = "callback"
                       => picked[g] \in Range(proxies)]_vars

(* Every Get and every Refresh returns, even though their callbacks use the  *)
(* pool themselves and a Get waits for its own refresh.                      *)
CallsReturn ==
  /\ \A g \in Gets : get[g] # "new" ~> get[g] \in {"got", "none"}
  /\ \A r \in Refreshers : refresh[r] \notin {"new", "begun"} ~>
                             refresh[r] \in {"failed", "skipped", "done"}

(* A claim of the source that interleavings refute: a Get that finds the     *)
(* pool empty refreshes it before it gives up.                               *)
EmptyGetRefreshes == \A g \in Gets : get[g] = "none" => refresh[g] # "skipped"
===============================================================================
