---------------------------- MODULE ProxyPoolProofs ----------------------------
(* Theorems about ProxyPool, for any number of proxies and calls.            *)
EXTENDS ProxyPool, SequenceTheorems, WellFoundedInduction, TLAPS

(* refreshMu excludes: whoever fetches, adds or notifies does so alone.  The *)
(* invariant is inductive as it stands.                                      *)
THEOREM RefreshesExclude == Spec => []OneRefreshAtATime
<1>1. Init => OneRefreshAtATime
  BY DEF Init, OneRefreshAtATime, HoldsRefreshMu
<1>2. OneRefreshAtATime /\ [Next]_vars => OneRefreshAtATime'
  <2> SUFFICES ASSUME OneRefreshAtATime, [Next]_vars PROVE OneRefreshAtATime'
    OBVIOUS
  <2> USE DEF OneRefreshAtATime, HoldsRefreshMu
  <2>1. ASSUME NEW r \in Refreshers, NEW pc, Goto(r, pc),
               HoldsRefreshMu(r) \/ pc \notin {"fetch", "add", "notify"}
        PROVE  OneRefreshAtATime'
    BY <2>1 DEF Goto
  <2>2. ASSUME UNCHANGED refresh PROVE OneRefreshAtATime'
    BY <2>2
  <2>3. ASSUME NEW r \in Refreshers, Refreshing(r) PROVE OneRefreshAtATime'
    <3>1. CASE Read(r)
      BY <2>1, <3>1 DEF Read
    <3>2. CASE NoURL(r)
      BY <2>1, <3>2 DEF NoURL
    <3>3. CASE TryLock(r)
      BY <3>3 DEF TryLock, RefreshMuFree, Goto
    <3>4. CASE Fetch(r)
      BY <2>1, <3>4 DEF Fetch
    <3>5. CASE AddNext(r)
      BY <2>1, <2>2, <3>5 DEF AddNext
    <3>6. CASE Notify(r)
      BY <2>1, <3>6 DEF Notify
    <3> QED
      BY <2>3, <3>1, <3>2, <3>3, <3>4, <3>5, <3>6 DEF Refreshing
  <2>4. ASSUME NEW g \in Gets, Enter(g) PROVE OneRefreshAtATime'
    <3>1. g \in Refreshers
      BY DEF Refreshers
    <3> QED
      BY <2>1, <2>2, <2>4, <3>1 DEF Enter
  <2>5. ASSUME NEW u, Relock(u) \/ Select(u) \/ Using(u) \/ Hold(u) PROVE OneRefreshAtATime'
    BY <2>2, <2>5 DEF Relock, Select, Using, Load, CompareAndSwap, Callback, Hold, refreshVars
  <2>6. ASSUME NEW i, NEW n, Reset(i) \/ Extend(i) \/ Expire(i) \/ SetLimit(i, n)
        PROVE  OneRefreshAtATime'
    BY <2>2, <2>6 DEF Reset, Extend, Expire, SetLimit, refreshVars
  <2>7. ASSUME NEW x, AddByCaller(x) \/ RemoveByString(x) \/ Cleanup \/ Clear \/ Set(x)
        PROVE  OneRefreshAtATime'
    BY <2>2, <2>7 DEF AddByCaller, RemoveByString, Cleanup, Clear, Set, refreshVars
  <2>8. CASE UNCHANGED vars
    BY <2>2, <2>8 DEF vars, refreshVars
  <2> QED
    BY <2>3, <2>4, <2>5, <2>6, <2>7, <2>8 DEF Next, Getting
<1> QED
  BY <1>1, <1>2, PTL DEF Spec

-------------------------------------------------------------------------------
(* What the counting of uses rests on: a use that is about to be stored was  *)
(* below the limit of its proxy when it was loaded, and the memory of a      *)
(* proxy somebody uses is not given to another one.                          *)
CountInv ==
  /\ used \in [Items -> Nat] /\ limit \in [Items -> Nat]
  /\ granted \in [Items -> Nat] /\ peak \in [Items -> Nat]
  /\ settings.maxUseCount \in Nat
  /\ DOMAIN get = Users /\ DOMAIN picked = Users /\ DOMAIN seen = Users
  /\ \A i \in Items : limit[i] <= peak[i]
  /\ \A u \in Users : get[u] = "cas" /\ picked[u] \in Items =>
                        seen[u] \in Nat /\ seen[u] < peak[picked[u]]

UsesInv == CountInv /\ UsesWithinLimit

(* The initial states satisfy the invariant.                                 *)
LEMMA UsesInit == Init => UsesInv
<1> SUFFICES ASSUME Init PROVE UsesInv
  OBVIOUS
<1>1. settings.maxUseCount \in Nat
  BY SettingsAssumption DEF Init
<1> QED
  BY <1>1 DEF Init, UsesInv, CountInv, UsesWithinLimit

(* A new proxy begins unused, in memory nobody is counting a use in.         *)
LEMMA NewProxyKeeps ==
  ASSUME UsesInv, NEW a, NewProxy(a), UNCHANGED <<settings, get, picked, seen>>
  PROVE  UsesInv'
<1> DEFINE i == CHOOSE j \in Free : TRUE
<1>1. i \in Free
  BY DEF NewProxy
<1>2. \A u \in Users : get[u] = "cas" => picked[u] # i
  BY <1>1 DEF Free, InUse
<1>3. /\ used' = [used EXCEPT ![i] = 0] /\ granted' = [granted EXCEPT ![i] = 0]
      /\ limit' = [limit EXCEPT ![i] = settings.maxUseCount]
      /\ peak' = [peak EXCEPT ![i] = settings.maxUseCount]
  BY DEF NewProxy
<1>4. i \in Items
  BY <1>1 DEF Free
<1> HIDE DEF i
<1> QED
  BY <1>2, <1>3, <1>4 DEF UsesInv, CountInv, UsesWithinLimit

(* Every step preserves the invariant.                                       *)
LEMMA UsesNext == UsesInv /\ [Next]_vars => UsesInv'
<1> SUFFICES ASSUME UsesInv, [Next]_vars PROVE UsesInv'
  OBVIOUS
<1> USE DEF UsesInv, CountInv, UsesWithinLimit
<1>1. ASSUME UNCHANGED <<settings, used, granted, limit, peak, get, picked, seen>>
      PROVE  UsesInv'
  BY <1>1
<1>2. ASSUME NEW a, AddProxy(a), UNCHANGED getVars PROVE UsesInv'
  BY <1>1, <1>2, NewProxyKeeps DEF AddProxy, getVars, countVars, itemVars
<1>3. ASSUME NEW x, AddByCaller(x) \/ RemoveByString(x) \/ Cleanup \/ Clear PROVE UsesInv'
  BY <1>1, <1>2, <1>3
  DEF AddByCaller, RemoveByString, Cleanup, Clear, countVars, itemVars, getVars
<1>4. ASSUME NEW s \in [apiURL : BOOLEAN, maxUseCount : Limits, minPoolSize : MinSizes], Set(s)
      PROVE  UsesInv'
  BY <1>4, SettingsAssumption DEF Set, countVars, itemVars, getVars
<1>5. ASSUME NEW r, Refreshing(r) PROVE UsesInv'
  <2>1. CASE AddNext(r)
    BY <1>1, <1>2, <2>1 DEF AddNext, poolVars, countVars, itemVars, getVars
  <2> QED
    BY <1>1, <1>5, <2>1
    DEF Refreshing, Read, NoURL, TryLock, Fetch, Notify, countVars, itemVars, getVars
<1>6. ASSUME NEW g \in Gets, Enter(g) \/ Relock(g) \/ Select(g) PROVE UsesInv'
  <2>1. g \in Users
    BY DEF Users
  <2>2. PICK pc : get' = [get EXCEPT ![g] = pc] /\ pc # "cas"
    BY <1>6 DEF Enter, Relock, Select
  <2>3. DOMAIN picked' = Users /\ \A u \in Users \ {g} : picked'[u] = picked[u]
    BY <1>6 DEF Enter, Relock, Select
  <2>4. UNCHANGED <<settings, used, granted, limit, peak, seen>>
    BY <1>6 DEF Enter, Relock, Select, countVars, itemVars
  <2> QED
    BY <2>1, <2>2, <2>3, <2>4
<1>7. ASSUME NEW u \in Users, Load(u) PROVE UsesInv'
  <2>1. UNCHANGED <<settings, used, granted, limit, peak, picked>>
    BY <1>7 DEF Load, countVars, itemVars
  <2>2. CASE used[picked[u]] >= limit[picked[u]]
    <3>1. get' = [get EXCEPT ![u] = "none"] /\ seen' = seen
      BY <1>7, <2>2 DEF Load
    <3> QED
      BY <2>1, <3>1
  <2>3. CASE ~ (used[picked[u]] >= limit[picked[u]])
    <3>1. get' = [get EXCEPT ![u] = "cas"] /\ seen' = [seen EXCEPT ![u] = used[picked[u]]]
      BY <1>7, <2>3 DEF Load
    <3>2. picked[u] \in Items => used[picked[u]] < peak[picked[u]]
      BY <2>3
    <3> QED
      BY <2>1, <3>1, <3>2
  <2> QED
    BY <2>2, <2>3
<1>8. ASSUME NEW u \in Users, CompareAndSwap(u) PROVE UsesInv'
  <2>1. get[u] = "cas" /\ UNCHANGED <<settings, limit, peak, picked, seen>>
    BY <1>8 DEF CompareAndSwap, itemVars
  <2>2. CASE used[picked[u]] = seen[u]
    <3>1. /\ used' = [used EXCEPT ![picked[u]] = @ + 1]
          /\ granted' = [granted EXCEPT ![picked[u]] = @ + 1]
          /\ get' = [get EXCEPT ![u] = "callback"]
      BY <1>8, <2>2 DEF CompareAndSwap
    <3>2. picked[u] \in Items => used[picked[u]] + 1 <= peak[picked[u]]
      BY <2>1, <2>2
    <3>3. /\ used' \in [Items -> Nat] /\ granted' \in [Items -> Nat]
          /\ \A i \in Items : granted'[i] = used'[i] /\ granted'[i] <= peak[i]
      <4> DEFINE p == picked[u]
      <4>1. CASE p \in Items
        <5>1. used[p] + 1 \in Nat /\ granted[p] + 1 = used[p] + 1 /\ used[p] + 1 <= peak[p]
          BY <3>2, <4>1
        <5>2. \A i \in Items : used'[i] = IF i = p THEN used[p] + 1 ELSE used[i]
          BY <3>1, <4>1
        <5>3. \A i \in Items : granted'[i] = IF i = p THEN granted[p] + 1 ELSE granted[i]
          BY <3>1, <4>1
        <5>4. DOMAIN used' = Items /\ DOMAIN granted' = Items
          BY <3>1
        <5>5. used' = [i \in Items |-> used'[i]] /\ granted' = [i \in Items |-> granted'[i]]
          BY <3>1, <5>4
        <5> HIDE DEF p
        <5> QED
          BY <5>1, <5>2, <5>3, <5>5
      <4>2. CASE p \notin Items
        BY <3>1, <4>2
      <4> QED
        BY <4>1, <4>2
    <3>4. DOMAIN get' = Users /\ \A v \in Users : get'[v] = "cas" => get[v] = "cas"
      BY <3>1
    <3> QED
      BY <2>1, <3>3, <3>4
  <2>3. CASE used[picked[u]] # seen[u]
    <3>1. get' = [get EXCEPT ![u] = "load"] /\ UNCHANGED <<used, granted>>
      BY <1>8, <2>3 DEF CompareAndSwap, countVars
    <3> QED
      BY <2>1, <3>1
  <2> QED
    BY <2>2, <2>3
<1>9. ASSUME NEW u \in Users, Callback(u) \/ Hold(u) PROVE UsesInv'
  <2>1. PICK pc : get' = [get EXCEPT ![u] = pc] /\ pc # "cas"
    BY <1>9 DEF Callback, Hold
  <2>2. DOMAIN picked' = Users /\ \A v \in Users \ {u} : picked'[v] = picked[v]
    BY <1>9 DEF Callback, Hold
  <2>3. UNCHANGED <<settings, used, granted, limit, peak, seen>>
    BY <1>9 DEF Callback, Hold, countVars, itemVars
  <2> QED
    BY <2>1, <2>2, <2>3
<1>10. ASSUME NEW i \in Items, Reset(i) \/ Extend(i) \/ Expire(i) PROVE UsesInv'
  BY <1>10 DEF Reset, Extend, Expire, countVars, getVars
<1>11. ASSUME NEW i \in Items, NEW n \in Limits, SetLimit(i, n) PROVE UsesInv'
  <2>1. n \in Nat
    BY SettingsAssumption
  <2>2. /\ limit' = [limit EXCEPT ![i] = n]
        /\ peak' = [peak EXCEPT ![i] = IF n > peak[i] THEN n ELSE peak[i]]
        /\ UNCHANGED <<settings, used, granted, get, picked, seen>>
    BY <1>11 DEF SetLimit, countVars, getVars
  <2>3. peak' \in [Items -> Nat] /\ \A j \in Items : peak[j] <= peak'[j] /\ limit'[j] <= peak'[j]
    BY <2>1, <2>2
  <2>4. \A j \in Items : granted[j] <= peak'[j] /\ \A k \in Nat : k < peak[j] => k < peak'[j]
    BY <2>3
  <2> QED
    BY <2>1, <2>2, <2>3, <2>4
<1>12. CASE UNCHANGED vars
  BY <1>1, <1>12 DEF vars, countVars, itemVars, getVars
<1> QED
  BY <1>3, <1>4, <1>5, <1>6, <1>7, <1>8, <1>9, <1>10, <1>11, <1>12
  DEF Next, Getting, Using, Users

(* However Gets and holders interleave, no use of a proxy is lost and none   *)
(* goes beyond the limit.                                                    *)
THEOREM UsesBounded == Spec => []UsesWithinLimit
<1>1. UsesInv => UsesWithinLimit
  BY DEF UsesInv
<1> QED
  BY <1>1, UsesInit, UsesNext, PTL DEF Spec

-------------------------------------------------------------------------------
(* The order of the naturals, and that it is well founded.                   *)
Below == {p \in Nat \X Nat : p[1] < p[2]}
LEMMA BelowIsWellFounded == IsWellFoundedOn(Below, Nat)
  BY NatLessThanWellFounded DEF OpToRel, Below

(* Induction, for the set of the numbers of which something holds.           *)
LEMMA InductionOverSet ==
  ASSUME NEW S, S \subseteq Nat, 0 \in S, \A n \in S : n + 1 \in S
  PROVE  S = Nat
<1> SUFFICES ASSUME Nat \ S # {} PROVE FALSE
  OBVIOUS
<1>1. PICK x \in Nat \ S : \A y \in Nat \ S : <<y, x>> \notin Below
  BY BelowIsWellFounded, WFMin, Zenon
<1>2. \A y \in Nat \ S : ~ (y < x)
  BY <1>1 DEF Below
<1>3. x # 0 /\ x - 1 \in Nat
  OBVIOUS
<1> QED
  BY <1>2, <1>3

(* What the filter has kept after n proxies.                                 *)
Keeps(f, n) ==
  f = [m \in 0 .. n |->
         IF m = 0 THEN <<>>
         ELSE IF IsAvailable(proxies[m]) THEN Append(f[m - 1], proxies[m]) ELSE f[m - 1]]

(* There is such a function.                                                 *)
LEMMA KeepsExists == \A n \in Nat : \E f : Keeps(f, n)
<1> DEFINE S == {n \in Nat : \E f : Keeps(f, n)}
<1>1. 0 \in S
  <2>1. Keeps([m \in 0 .. 0 |-> <<>>], 0)
    BY DEF Keeps
  <2> QED
    BY <2>1
<1>2. ASSUME NEW n \in S PROVE n + 1 \in S
  <2>1. PICK f : Keeps(f, n)
    OBVIOUS
  <2> DEFINE Next1(m) == IF m = 0 THEN <<>>
                     ELSE IF IsAvailable(proxies[m]) THEN Append(f[m - 1], proxies[m]) ELSE f[m - 1]
             g == [m \in 0 .. n + 1 |-> Next1(m)]
  <2>0. n \in Nat /\ \A m \in 0 .. n : m \in 0 .. n + 1
    OBVIOUS
  <2>2. \A m \in 0 .. n : g[m] = f[m]
    <3>1. f = [m \in 0 .. n |-> Next1(m)]
      BY <2>1 DEF Keeps
    <3> HIDE DEF Next1
    <3>2. \A m \in 0 .. n : f[m] = Next1(m)
      BY <3>1
    <3> QED
      BY <2>0, <3>2
  <2>3. \A m \in 0 .. n + 1 : m = 0 \/ (m - 1 \in 0 .. n /\ g[m - 1] = f[m - 1])
    <3> HIDE DEF g
    <3> QED
      BY <2>0, <2>2
  <2>4. Keeps(g, n + 1)
    <3> HIDE DEF g
    <3>1. g = [m \in 0 .. n + 1 |-> Next1(m)]
      BY DEF g
    <3> QED
      BY <2>3, <3>1 DEF Keeps
  <2> QED
    BY <2>4
<1>3. S = Nat
  BY <1>1, <1>2, InductionOverSet
<1> QED
  BY <1>3

(* So the recursion of Kept defines it.                                      *)
LEMMA KeptDefined ==
  ASSUME Len(proxies) \in Nat
  PROVE  Keeps(Kept, Len(proxies))
<1>1. \E f : Keeps(f, Len(proxies))
  BY KeepsExists
<1> QED
  BY <1>1 DEF Kept, Keeps

(* What the filter keeps: proxies of the list, none of them twice unless the *)
(* list has it twice.                                                        *)
LEMMA ValidKeeps ==
  ASSUME NEW M, proxies \in Seq(M)
  PROVE  /\ Valid \in Seq(M)
         /\ Range(Valid) \subseteq Range(proxies)
         /\ NoDuplicates => \A k, l \in DOMAIN Valid : addr[Valid[k]] = addr[Valid[l]] => k = l
<1> DEFINE L == Len(proxies)
           Good(n) == /\ Kept[n] \in Seq(M)
                      /\ \A k \in DOMAIN Kept[n] : \E j \in 1 .. n : Kept[n][k] = proxies[j]
                      /\ NoDuplicates => \A k, l \in DOMAIN Kept[n] :
                            addr[Kept[n][k]] = addr[Kept[n][l]] => k = l
           S == {n \in Nat : n <= L => Good(n)}
<1>0. L \in Nat /\ DOMAIN proxies = 1 .. L
  BY LenProperties
<1>1. Kept = [m \in 0 .. L |->
                IF m = 0 THEN <<>>
                ELSE IF IsAvailable(proxies[m]) THEN Append(Kept[m - 1], proxies[m])
                                                ELSE Kept[m - 1]]
  BY <1>0, KeptDefined DEF Keeps
<1>2. 0 \in S
  <2>1. Kept[0] = <<>>
    BY <1>0, <1>1
  <2>2. <<>> \in Seq(M) /\ DOMAIN <<>> = {}
    OBVIOUS
  <2>3. Good(0)
    BY <2>1, <2>2
  <2> QED
    BY <2>3
<1>3. ASSUME NEW n \in S PROVE n + 1 \in S
  <2> SUFFICES ASSUME n + 1 <= L PROVE Good(n + 1)
    OBVIOUS
  <2>1. Good(n) /\ n \in Nat
    BY <1>0
  <2>2. n + 1 \in 1 .. L /\ proxies[n + 1] \in M
    BY <1>0, ElementOfSeq
  <2>3. Kept[n + 1] = IF IsAvailable(proxies[n + 1]) THEN Append(Kept[n], proxies[n + 1])
                                                     ELSE Kept[n]
    <3>1. n + 1 \in 0 .. L /\ n + 1 # 0 /\ (n + 1) - 1 = n
      BY <1>0, <2>1, <2>2
    <3> HIDE DEF L
    <3>2. Kept[n + 1] = IF n + 1 = 0 THEN <<>>
                        ELSE IF IsAvailable(proxies[n + 1])
                             THEN Append(Kept[(n + 1) - 1], proxies[n + 1])
                             ELSE Kept[(n + 1) - 1]
      BY <1>1, <3>1
    <3> QED
      BY <3>1, <3>2
  <2>4. CASE ~ IsAvailable(proxies[n + 1])
    <3>1. Kept[n + 1] = Kept[n]
      BY <2>3, <2>4
    <3>2. \A j \in 1 .. n : j \in 1 .. n + 1
      BY <2>1
    <3> QED
      BY <2>1, <3>1, <3>2
  <2>5. CASE IsAvailable(proxies[n + 1])
    <3> DEFINE q == Kept[n]
               r == Append(q, proxies[n + 1])
    <3>1. Kept[n + 1] = r
      BY <2>3, <2>5
    <3>2. q \in Seq(M) /\ \A k \in DOMAIN q : \E j \in 1 .. n : q[k] = proxies[j]
      BY <2>1
    <3>3. /\ r \in Seq(M) /\ DOMAIN r = 1 .. Len(q) + 1 /\ DOMAIN q = 1 .. Len(q) /\ Len(q) \in Nat
          /\ r[Len(q) + 1] = proxies[n + 1] /\ \A k \in 1 .. Len(q) : r[k] = q[k]
      BY <2>2, <3>2, AppendProperties, LenProperties
    <3> HIDE DEF q, r
    <3>4. \A k \in DOMAIN r : \E j \in 1 .. n + 1 : r[k] = proxies[j]
      <4> SUFFICES ASSUME NEW k \in DOMAIN r PROVE \E j \in 1 .. n + 1 : r[k] = proxies[j]
        OBVIOUS
      <4>1. CASE k = Len(q) + 1
        BY <2>1, <3>3, <4>1
      <4>2. CASE k \in 1 .. Len(q)
        <5>1. PICK j \in 1 .. n : q[k] = proxies[j]
          BY <3>2, <3>3, <4>2
        <5> QED
          BY <2>1, <3>3, <4>2, <5>1
      <4> QED
        BY <3>3, <4>1, <4>2
    <3>5. ASSUME NoDuplicates, NEW k \in DOMAIN r, NEW l \in DOMAIN r, addr[r[k]] = addr[r[l]]
          PROVE  k = l
      <4>1. ASSUME NEW i \in 1 .. Len(q) PROVE addr[q[i]] # addr[proxies[n + 1]]
        <5>1. PICK j \in 1 .. n : q[i] = proxies[j]
          BY <3>2, <3>3
        <5>2. j \in DOMAIN proxies /\ n + 1 \in DOMAIN proxies /\ j # n + 1
          BY <1>0, <2>1, <2>2
        <5> QED
          BY <3>5, <5>1, <5>2 DEF NoDuplicates
      <4>2. \A i, j \in DOMAIN q : addr[q[i]] = addr[q[j]] => i = j
        BY <2>1, <3>5 DEF q
      <4> QED
        BY <3>3, <3>5, <4>1, <4>2
    <3> QED
      BY <3>1, <3>3, <3>4, <3>5
  <2> QED
    BY <2>4, <2>5
<1>4. S = Nat
  <2> HIDE DEF S
  <2>1. S \subseteq Nat
    BY DEF S
  <2> QED
    BY <1>2, <1>3, <2>1, InductionOverSet
<1>5. Good(L)
  BY <1>0, <1>4
<1> QED
  BY <1>0, <1>5 DEF Valid, Range

(* Taking one element out of a sequence.                                     *)
LEMMA RemovedFrom ==
  ASSUME NEW M, NEW s \in Seq(M), NEW k \in DOMAIN s
  PROVE  /\ RemoveAt(s, k) \in Seq(M)
         /\ DOMAIN RemoveAt(s, k) = 1 .. Len(s) - 1
         /\ \A i \in 1 .. Len(s) - 1 :
              /\ RemoveAt(s, k)[i] = IF i < k THEN s[i] ELSE s[i + 1]
              /\ i \in DOMAIN s /\ i + 1 \in DOMAIN s
<1> DEFINE a == SubSeq(s, 1, k - 1)
           b == SubSeq(s, k + 1, Len(s))
<1>1. Len(s) \in Nat /\ DOMAIN s = 1 .. Len(s) /\ k \in 1 .. Len(s)
  BY LenProperties
<1>2. \A i \in 1 .. Len(s) : s[i] \in M
  BY ElementOfSeq
<1>3. /\ a \in Seq(M) /\ Len(a) = k - 1
      /\ \A i \in 1 .. k - 1 : a[i] = s[i]
  <2>1. 1 \in Int /\ k - 1 \in Int /\ \A i \in 1 .. k - 1 : s[i] \in M
    BY <1>1, <1>2
  <2> QED
    BY <1>1, <2>1, SubSeqProperties
<1>4. /\ b \in Seq(M) /\ Len(b) = Len(s) - k
      /\ \A i \in 1 .. Len(s) - k : b[i] = s[k + i]
  <2> DEFINE m == k + 1
             n == Len(s)
  <2>1. m \in Int /\ n \in Int /\ \A i \in m .. n : s[i] \in M
    BY <1>1, <1>2
  <2>2. m - 1 = k /\ n - m + 1 = n - k /\ (IF m <= n THEN n - m + 1 ELSE 0) = n - k
        /\ \A i \in Int : m + i - 1 = k + i
    BY <1>1
  <2> HIDE DEF m, n
  <2>3. /\ SubSeq(s, m, n) \in Seq(M)
        /\ Len(SubSeq(s, m, n)) = IF m <= n THEN n - m + 1 ELSE 0
        /\ \A i \in 1 .. n - m + 1 : SubSeq(s, m, n)[i] = s[m + i - 1]
    BY <2>1, SubSeqProperties
  <2>4. b = SubSeq(s, m, n) /\ n = Len(s)
    BY DEF b, m, n
  <2> HIDE DEF b
  <2>5. \A i \in 1 .. n - k : b[i] = s[k + i]
    <3> SUFFICES ASSUME NEW i \in 1 .. n - k PROVE b[i] = s[k + i]
      OBVIOUS
    <3>1. i \in 1 .. n - m + 1 /\ m + i - 1 = k + i
      BY <2>2
    <3> QED
      BY <2>3, <2>4, <3>1
  <2> QED
    BY <2>2, <2>3, <2>4, <2>5
<1> HIDE DEF a, b
<1>5. /\ a \o b \in Seq(M) /\ Len(a \o b) = Len(s) - 1
      /\ \A i \in 1 .. Len(s) - 1 : (a \o b)[i] = IF i <= k - 1 THEN a[i] ELSE b[i - (k - 1)]
  <2>1. Len(a) + Len(b) = Len(s) - 1
    BY <1>1, <1>3, <1>4
  <2>2. /\ a \o b \in Seq(M) /\ Len(a \o b) = Len(a) + Len(b)
        /\ \A i \in 1 .. Len(a) + Len(b) :
              (a \o b)[i] = IF i <= Len(a) THEN a[i] ELSE b[i - Len(a)]
    BY <1>3, <1>4, ConcatProperties
  <2> QED
    BY <1>3, <2>1, <2>2
<1>6. DOMAIN (a \o b) = 1 .. Len(s) - 1
  BY <1>5, LenProperties
<1>7. \A i \in 1 .. Len(s) - 1 : (a \o b)[i] = IF i < k THEN s[i] ELSE s[i + 1]
  <2> SUFFICES ASSUME NEW i \in 1 .. Len(s) - 1
               PROVE  (a \o b)[i] = IF i < k THEN s[i] ELSE s[i + 1]
    OBVIOUS
  <2>1. CASE i < k
    <3>1. i <= k - 1 /\ i \in 1 .. k - 1
      BY <1>1, <2>1
    <3> QED
      BY <1>3, <1>5, <2>1, <3>1
  <2>2. CASE ~ (i < k)
    <3>1. ~ (i <= k - 1) /\ i - (k - 1) \in 1 .. Len(s) - k /\ k + (i - (k - 1)) = i + 1
      BY <1>1, <2>2
    <3> QED
      BY <1>4, <1>5, <2>2, <3>1
  <2> QED
    BY <2>1, <2>2
<1>8. RemoveAt(s, k) = a \o b
  BY DEF RemoveAt, a, b
<1>9. \A i \in 1 .. Len(s) - 1 : i \in DOMAIN s /\ i + 1 \in DOMAIN s
  BY <1>1
<1> QED
  BY <1>5, <1>6, <1>7, <1>8, <1>9

(* The proxies and their list; the Gets and holders, of whom a Get that is   *)
(* counting a use keeps others from taking its proxy out; the refreshes.     *)
ListedOK ==
  /\ proxies \in Seq(Made) /\ rr \in Nat
  /\ settings \in [apiURL : BOOLEAN, maxUseCount : Limits, minPoolSize : MinSizes]
  /\ addr \in [Items -> Addrs \cup {None}]
  /\ used \in [Items -> Nat] /\ limit \in [Items -> Nat] /\ expired \subseteq Items
  /\ granted \in [Items -> Nat] /\ peak \in [Items -> Nat]
  /\ NoDuplicates

GetsOK ==
  /\ get \in [Users -> {"new", "refreshing", "select", "load", "cas", "callback", "got", "none"}]
  /\ picked \in [Users -> Made \cup {None}] /\ seen \in [Users -> Nat]
  /\ \A u \in Users : get[u] \in {"load", "cas"} => picked[u] \in Items
  /\ \A g \in Gets : get[g] \in {"load", "cas"} => picked[g] \in Range(proxies)

RefreshesOK ==
  /\ refresh \in [Refreshers -> {"new", "begun", "noURL", "try", "fetch", "add", "notify",
                                 "failed", "skipped", "done"}]
  /\ \A g \in Gets : get[g] = "refreshing" => refresh[g] # "new"
  /\ pending \in [Refreshers -> Seq(Addrs)] /\ lastErr \in {"none", "noURL", "failed"}

ListInv == ListedOK /\ GetsOK /\ RefreshesOK

(* The initial states satisfy the invariant.                                 *)
LEMMA ListInit == Init => ListInv
<1> SUFFICES ASSUME Init PROVE ListInv
  OBVIOUS
<1> USE DEF Init
<1>1. <<>> \in Seq(Made) /\ <<>> \in Seq(Addrs) /\ DOMAIN <<>> = {}
  OBVIOUS
<1>2. settings \in [apiURL : BOOLEAN, maxUseCount : Limits, minPoolSize : MinSizes]
  OBVIOUS
<1>3. ListedOK
  BY <1>1, <1>2 DEF ListedOK, NoDuplicates
<1>4. GetsOK
  BY DEF GetsOK, Users
<1>5. RefreshesOK
  BY <1>1 DEF RefreshesOK, Users
<1> QED
  BY <1>3, <1>4, <1>5 DEF ListInv

(* A new proxy is appended to a list that has none of its address, in memory *)
(* that nobody in the list or at work uses.                                  *)
LEMMA NewProxyListed ==
  ASSUME ListInv, NEW a \in Addrs, NewProxy(a), UNCHANGED <<rr, settings>>,
         \A i \in Range(proxies) : addr[i] # a
  PROVE  ListedOK' /\ Made \subseteq Made' /\ Range(proxies) \subseteq Range(proxies')
<1> DEFINE i == CHOOSE j \in Free : TRUE
<1> USE DEF ListInv, ListedOK
<1>1. i \in Items /\ i \notin Range(proxies)
  <2>1. i \in Free
    BY DEF NewProxy
  <2> HIDE DEF i
  <2> QED
    BY <2>1 DEF Free, InUse
<1>2. /\ proxies' = Append(proxies, i)
      /\ addr' = [addr EXCEPT ![i] = a]
      /\ used' = [used EXCEPT ![i] = 0] /\ granted' = [granted EXCEPT ![i] = 0]
      /\ limit' = [limit EXCEPT ![i] = settings.maxUseCount]
      /\ peak' = [peak EXCEPT ![i] = settings.maxUseCount]
      /\ expired' = expired \ {i}
  BY DEF NewProxy
<1> HIDE DEF i
<1>3. settings.maxUseCount \in Nat
  BY SettingsAssumption
<1>4. /\ addr' \in [Items -> Addrs \cup {None}] /\ expired' \subseteq Items
      /\ used' \in [Items -> Nat] /\ limit' \in [Items -> Nat]
      /\ granted' \in [Items -> Nat] /\ peak' \in [Items -> Nat]
  BY <1>1, <1>2, <1>3
<1>5. a # None
  BY CallsAssumption
<1>6. Made' = Made \cup {i}
  BY <1>1, <1>2, <1>5 DEF Made
<1>7. proxies \in Seq(Made') /\ i \in Made'
  BY <1>6, SeqMonotonic
<1>8. /\ proxies' \in Seq(Made') /\ DOMAIN proxies' = 1 .. Len(proxies) + 1
      /\ DOMAIN proxies = 1 .. Len(proxies) /\ Len(proxies) \in Nat
      /\ proxies'[Len(proxies) + 1] = i
      /\ \A k \in DOMAIN proxies : proxies'[k] = proxies[k]
  BY <1>2, <1>7, AppendProperties, LenProperties
<1>9. \A k \in DOMAIN proxies : /\ proxies[k] \in Range(proxies) /\ proxies[k] # i
                                /\ proxies[k] \in Items
  BY <1>1, <1>8, ElementOfSeq DEF Range, Made
<1>10. /\ addr'[i] = a
       /\ \A k \in DOMAIN proxies : addr'[proxies[k]] = addr[proxies[k]] /\ addr[proxies[k]] # a
  BY <1>1, <1>2, <1>9
<1>11. NoDuplicates'
  <2> SUFFICES ASSUME NEW k \in DOMAIN proxies', NEW l \in DOMAIN proxies',
                      addr'[proxies'[k]] = addr'[proxies'[l]]
               PROVE  k = l
    BY DEF NoDuplicates
  <2>1. CASE k \in DOMAIN proxies /\ l \in DOMAIN proxies
    BY <1>8, <1>10, <2>1 DEF NoDuplicates
  <2>2. CASE k \in DOMAIN proxies /\ l = Len(proxies) + 1
    BY <1>8, <1>10, <2>2
  <2>3. CASE k = Len(proxies) + 1 /\ l \in DOMAIN proxies
    BY <1>8, <1>10, <2>3
  <2> QED
    BY <1>8, <2>1, <2>2, <2>3
<1>12. Range(proxies) \subseteq Range(proxies')
  BY <1>8 DEF Range
<1> QED
  BY <1>4, <1>6, <1>8, <1>11, <1>12

(* AddProxy keeps the list and what the Gets hold.                           *)
LEMMA AddProxyListed ==
  ASSUME ListInv, NEW a \in Addrs, AddProxy(a), UNCHANGED getVars
  PROVE  ListedOK' /\ GetsOK'
<1>1. CASE \E i \in Range(proxies) : addr[i] = a
  <2>1. UNCHANGED <<proxies, rr, settings, countVars, itemVars>>
    BY <1>1 DEF AddProxy
  <2> QED
    BY <2>1 DEF ListInv, ListedOK, GetsOK, NoDuplicates, Made, Range, countVars, itemVars, getVars
<1>2. CASE ~ \E i \in Range(proxies) : addr[i] = a
  <2>1. NewProxy(a) /\ UNCHANGED <<rr, settings>>
    BY <1>2 DEF AddProxy
  <2>2. ListedOK' /\ Made \subseteq Made' /\ Range(proxies) \subseteq Range(proxies')
    BY <1>2, <2>1, NewProxyListed
  <2>3. GetsOK'
    BY <2>2 DEF ListInv, GetsOK, getVars
  <2> QED
    BY <2>2, <2>3
<1> QED
  BY <1>1, <1>2

(* A list of proxies out of the list, none twice, may take its place while   *)
(* no Get holds poolMu.                                                      *)
LEMMA PartListed ==
  ASSUME ListInv, PoolMuFree, UNCHANGED <<rr, settings, countVars, itemVars>>,
         proxies' \in Seq(Made),
         \A k, l \in DOMAIN proxies' : addr[proxies'[k]] = addr[proxies'[l]] => k = l
  PROVE  ListedOK' /\ (UNCHANGED getVars => GetsOK')
<1>1. Made' = Made
  BY DEF Made, itemVars
<1>2. ListedOK'
  BY <1>1 DEF ListInv, ListedOK, NoDuplicates, countVars, itemVars
<1>3. ASSUME UNCHANGED getVars PROVE GetsOK'
  BY <1>1, <1>3 DEF ListInv, GetsOK, getVars, PoolMuFree, HoldsPoolMu
<1> QED
  BY <1>2, <1>3

(* What Enter and Cleanup leave in the list.                                 *)
LEMMA ValidListed ==
  ASSUME ListInv
  PROVE  /\ Valid \in Seq(Made) /\ Range(Valid) \subseteq Range(proxies)
         /\ \A k, l \in DOMAIN Valid : addr[Valid[k]] = addr[Valid[l]] => k = l
  BY ValidKeeps DEF ListInv, ListedOK

(* Every step keeps the invariant.                                           *)
LEMMA ListNext == ListInv /\ [Next]_vars => ListInv'
<1> SUFFICES ASSUME ListInv, [Next]_vars PROVE ListInv'
  OBVIOUS
<1>1. ASSUME UNCHANGED <<poolVars, settings, countVars, itemVars>> PROVE ListedOK' /\ Made' = Made
  BY <1>1 DEF ListInv, ListedOK, NoDuplicates, Made, poolVars, countVars, itemVars
<1>2. ASSUME UNCHANGED getVars, UNCHANGED <<proxies, addr>> PROVE GetsOK'
  BY <1>2 DEF ListInv, GetsOK, Made, Range, getVars
<1>3. ASSUME UNCHANGED refreshVars,
             NEW g, NEW pc, pc # "refreshing", get' = get \/ get' = [get EXCEPT ![g] = pc]
      PROVE  RefreshesOK'
  <2>1. \A h \in Gets : h \in Users
    BY DEF Users
  <2> QED
    BY <1>3, <2>1 DEF ListInv, RefreshesOK, GetsOK, refreshVars
<1>4. ASSUME NEW a \in Addrs, AddByCaller(a) PROVE ListInv'
  BY <1>3, <1>4, AddProxyListed DEF AddByCaller, ListInv, getVars
<1>5. ASSUME NEW a \in Addrs, RemoveByString(a) PROVE ListInv'
  <2>1. PICK k \in DOMAIN proxies : proxies' = RemoveAt(proxies, k)
    BY <1>5 DEF RemoveByString
  <2>2. proxies \in Seq(Made)
    BY DEF ListInv, ListedOK
  <2>3. /\ proxies' \in Seq(Made) /\ DOMAIN proxies' = 1 .. Len(proxies) - 1
        /\ \A i \in 1 .. Len(proxies) - 1 :
              /\ proxies'[i] = IF i < k THEN proxies[i] ELSE proxies[i + 1]
              /\ i \in DOMAIN proxies /\ i + 1 \in DOMAIN proxies
    BY <2>1, <2>2, RemovedFrom
  <2>4. \A m, l \in DOMAIN proxies' : addr[proxies'[m]] = addr[proxies'[l]] => m = l
    <3> SUFFICES ASSUME NEW m \in DOMAIN proxies', NEW l \in DOMAIN proxies',
                        addr[proxies'[m]] = addr[proxies'[l]]
                 PROVE  m = l
      OBVIOUS
    <3>1. k \in Nat /\ m \in Nat /\ l \in Nat
      BY <2>2, <2>3, LenProperties
    <3>2. \A i, j \in DOMAIN proxies : addr[proxies[i]] = addr[proxies[j]] => i = j
      BY DEF ListInv, ListedOK, NoDuplicates
    <3>3. (IF m < k THEN m ELSE m + 1) = (IF l < k THEN l ELSE l + 1)
      BY <2>3, <3>2
    <3> QED
      BY <3>1, <3>3
  <2>5. ListedOK' /\ GetsOK'
    BY <1>5, <2>3, <2>4, PartListed DEF RemoveByString
  <2> QED
    BY <1>3, <1>5, <2>5 DEF RemoveByString, ListInv, getVars
<1>6. CASE Cleanup \/ Clear
  <2>1. /\ proxies' \in Seq(Made)
        /\ \A k, l \in DOMAIN proxies' : addr[proxies'[k]] = addr[proxies'[l]] => k = l
    <3>1. CASE Cleanup
      BY <3>1, ValidListed DEF Cleanup
    <3>2. CASE Clear
      BY <3>2 DEF Clear
    <3> QED
      BY <1>6, <3>1, <3>2
  <2>2. ListedOK' /\ GetsOK'
    BY <1>6, <2>1, PartListed DEF Cleanup, Clear
  <2> QED
    BY <1>3, <1>6, <2>2 DEF Cleanup, Clear, ListInv, getVars
<1>7. ASSUME NEW s \in [apiURL : BOOLEAN, maxUseCount : Limits, minPoolSize : MinSizes], Set(s)
      PROVE  ListInv'
  <2>1. ListedOK'
    BY <1>7 DEF Set, ListInv, ListedOK, NoDuplicates, Made, poolVars, countVars, itemVars
  <2> QED
    BY <1>2, <1>3, <1>7, <2>1 DEF Set, ListInv, poolVars, itemVars, getVars
<1>8. ASSUME NEW r \in Refreshers, Refreshing(r) PROVE ListInv'
  <2>1. UNCHANGED getVars
    BY <1>8 DEF Refreshing, Read, NoURL, TryLock, Fetch, AddNext, Notify
  <2>2. ListedOK' /\ GetsOK'
    <3>1. CASE AddNext(r)
      <4>1. CASE pending[r] = <<>>
        BY <1>1, <1>2, <2>1, <3>1, <4>1 DEF AddNext, poolVars, itemVars
      <4>2. CASE pending[r] # <<>>
        <5>1. Head(pending[r]) \in Addrs
          BY <4>2, HeadTailProperties DEF ListInv, RefreshesOK
        <5> QED
          BY <2>1, <3>1, <4>2, <5>1, AddProxyListed DEF AddNext
      <4> QED
        BY <4>1, <4>2
    <3>2. CASE ~ AddNext(r)
      <4>1. UNCHANGED <<poolVars, settings, countVars, itemVars>>
        BY <1>8, <3>2 DEF Refreshing, Read, NoURL, TryLock, Fetch, Notify
      <4> QED
        BY <1>1, <1>2, <2>1, <4>1 DEF poolVars, itemVars
    <3> QED
      BY <3>1, <3>2
  <2>3. PICK pc \in {"begun", "noURL", "try", "fetch", "add", "notify", "failed", "skipped", "done"} :
          refresh' = [refresh EXCEPT ![r] = pc] \/ refresh' = refresh
    BY <1>8 DEF Refreshing, Read, NoURL, TryLock, Fetch, AddNext, Notify, Goto
  <2>4. pending' \in [Refreshers -> Seq(Addrs)]
    <3>1. CASE Fetch(r)
      BY <3>1, AnswersAssumption DEF Fetch, ListInv, RefreshesOK
    <3>2. CASE AddNext(r)
      <4>1. CASE pending[r] # <<>>
        <5>1. Tail(pending[r]) \in Seq(Addrs)
          BY <4>1, HeadTailProperties DEF ListInv, RefreshesOK
        <5> QED
          BY <3>2, <4>1, <5>1 DEF AddNext, ListInv, RefreshesOK
      <4> QED
        BY <3>2, <4>1 DEF AddNext, ListInv, RefreshesOK
    <3>3. CASE ~ Fetch(r) /\ ~ AddNext(r)
      BY <1>8, <3>3 DEF Refreshing, Read, NoURL, TryLock, Notify, ListInv, RefreshesOK
    <3> QED
      BY <3>1, <3>2, <3>3
  <2>5. lastErr' \in {"none", "noURL", "failed"}
    BY <1>8 DEF Refreshing, Read, NoURL, TryLock, Fetch, AddNext, Notify, ListInv, RefreshesOK
  <2>6. \A g \in Gets : g \in Refreshers
    BY DEF Refreshers
  <2>7. RefreshesOK'
    BY <2>1, <2>3, <2>4, <2>5, <2>6 DEF ListInv, RefreshesOK, getVars
  <2> QED
    BY <2>2, <2>7 DEF ListInv
<1>9. ASSUME NEW g \in Gets, Enter(g) PROVE ListInv'
  <2>1. g \in Users /\ g \in Refreshers /\ \A h \in Gets : h \in Users /\ h \in Refreshers
    BY DEF Users, Refreshers
  <2>2. ListedOK'
    BY <1>9, ValidListed, PartListed DEF Enter
  <2>3. Made' = Made
    BY <1>9 DEF Enter, Made, itemVars
  <2>4. PICK pc \in {"refreshing", "select"} :
          /\ get' = [get EXCEPT ![g] = pc]
          /\ pc = "refreshing" => refresh' = [refresh EXCEPT ![g] = "begun"]
    BY <1>9 DEF Enter, Goto
  <2>5. refresh' = refresh \/ refresh' = [refresh EXCEPT ![g] = "begun"]
    BY <1>9 DEF Enter, Goto
  <2>6. \A h \in Gets : get[h] \notin {"load", "cas"}
    BY <1>9 DEF Enter, PoolMuFree, HoldsPoolMu
  <2>7. GetsOK'
    <3>1. UNCHANGED <<picked, seen>>
      BY <1>9 DEF Enter
    <3> QED
      BY <2>1, <2>3, <2>4, <2>6, <3>1 DEF ListInv, GetsOK
  <2>8. RefreshesOK'
    <3>1. UNCHANGED <<pending, lastErr>>
      BY <1>9 DEF Enter
    <3> QED
      BY <2>1, <2>4, <2>5, <3>1 DEF ListInv, RefreshesOK, GetsOK
  <2> QED
    BY <2>2, <2>7, <2>8 DEF ListInv
<1>10. ASSUME NEW g \in Gets, Relock(g) PROVE ListInv'
  <2>1. g \in Users
    BY DEF Users
  <2>2. GetsOK'
    BY <1>10, <2>1 DEF Relock, ListInv, GetsOK, Made, Range, poolVars, itemVars
  <2>3. get' = [get EXCEPT ![g] = "select"] /\ UNCHANGED refreshVars
    BY <1>10 DEF Relock
  <2>4. RefreshesOK'
    BY <1>3, <2>3
  <2> QED
    BY <1>1, <1>10, <2>2, <2>4 DEF Relock, ListInv
<1>11. ASSUME NEW g \in Gets, Select(g) PROVE ListInv'
  <2>1. g \in Users /\ \A h \in Gets : h \in Users
    BY DEF Users
  <2>2. UNCHANGED <<proxies, settings, countVars, itemVars, seen, refreshVars>>
    BY <1>11 DEF Select
  <2>3. ListedOK' /\ Made' = Made
    <3>1. rr' \in Nat
      BY <1>11 DEF Select, ListInv, ListedOK
    <3> QED
      BY <2>2, <3>1 DEF ListInv, ListedOK, NoDuplicates, Made, countVars, itemVars
  <2>4. RefreshesOK'
    <3>1. PICK pc \in {"none", "load"} : get' = [get EXCEPT ![g] = pc]
      BY <1>11 DEF Select
    <3> QED
      BY <1>3, <2>2, <3>1
  <2>5. GetsOK'
    <3>1. CASE Valid = <<>>
      <4>1. get' = [get EXCEPT ![g] = "none"] /\ UNCHANGED picked
        BY <1>11, <3>1 DEF Select
      <4> QED
        BY <2>1, <2>2, <2>3, <4>1 DEF ListInv, GetsOK, Range
    <3>2. CASE Valid # <<>>
      <4> DEFINE p == Valid[(rr % Len(Valid)) + 1]
      <4>1. get' = [get EXCEPT ![g] = "load"] /\ picked' = [picked EXCEPT ![g] = p]
        BY <1>11, <3>2 DEF Select
      <4>2. Valid \in Seq(Made) /\ Range(Valid) \subseteq Range(proxies)
        BY ValidListed
      <4>3. Len(Valid) \in Nat \ {0} /\ DOMAIN Valid = 1 .. Len(Valid) /\ rr \in Nat
        BY <3>2, <4>2, EmptySeq, LenProperties DEF ListInv, ListedOK
      <4>4. (rr % Len(Valid)) + 1 \in 1 .. Len(Valid)
        BY <4>3
      <4>5. p \in Made /\ p \in Range(proxies)
        BY <4>2, <4>3, <4>4, ElementOfSeq DEF Range
      <4>6. p \in Items
        BY <4>5 DEF Made
      <4> HIDE DEF p
      <4>7. Range(proxies') = Range(proxies)
        BY <2>2 DEF Range
      <4> QED
        BY <2>1, <2>2, <2>3, <4>1, <4>5, <4>6, <4>7 DEF ListInv, GetsOK
    <3> QED
      BY <3>1, <3>2
  <2> QED
    BY <2>3, <2>4, <2>5 DEF ListInv
<1>12. ASSUME NEW u \in Users, Using(u) PROVE ListInv'
  <2>1. UNCHANGED <<poolVars, settings, itemVars, picked, refreshVars>>
    BY <1>12 DEF Using, Load, CompareAndSwap, Callback
  <2>2. PICK pc \in {"load", "cas", "callback", "got", "none"} :
          /\ get' = [get EXCEPT ![u] = pc]
          /\ pc \in {"load", "cas"} => get[u] \in {"load", "cas"}
    BY <1>12 DEF Using, Load, CompareAndSwap, Callback
  <2>3. \A v \in Users : get[v] \in {"load", "cas"} => picked[v] \in Items
    BY DEF ListInv, GetsOK
  <2>4. seen' \in [Users -> Nat]
    BY <1>12, <2>3 DEF Using, Load, CompareAndSwap, Callback, ListInv, ListedOK, GetsOK
  <2>5. ListedOK' /\ Made' = Made
    <3>1. used' \in [Items -> Nat] /\ granted' \in [Items -> Nat]
      <4>1. CASE UNCHANGED countVars
        BY <4>1 DEF countVars, ListInv, ListedOK
      <4>2. CASE ~ UNCHANGED countVars
        <5>1. CompareAndSwap(u) /\ used[picked[u]] = seen[u]
          BY <1>12, <4>2 DEF Using, Load, CompareAndSwap, Callback
        <5>2. picked[u] \in Items
          BY <2>3, <5>1 DEF CompareAndSwap
        <5>3. used[picked[u]] + 1 \in Nat /\ granted[picked[u]] + 1 \in Nat
          BY <5>2 DEF ListInv, ListedOK
        <5>4. /\ used' = [used EXCEPT ![picked[u]] = used[picked[u]] + 1]
              /\ granted' = [granted EXCEPT ![picked[u]] = granted[picked[u]] + 1]
          BY <5>1 DEF CompareAndSwap
        <5> QED
          BY <5>3, <5>4 DEF ListInv, ListedOK
      <4> QED
        BY <4>1, <4>2
    <3> QED
      BY <2>1, <3>1 DEF ListInv, ListedOK, NoDuplicates, Made, poolVars, itemVars
  <2>6. GetsOK'
    <3>1. \A h \in Gets : h \in Users
      BY DEF Users
    <3>2. Range(proxies') = Range(proxies)
      BY <2>1 DEF poolVars, Range
    <3> QED
      BY <2>1, <2>2, <2>4, <2>5, <3>1, <3>2 DEF ListInv, GetsOK
  <2> QED
    BY <1>3, <2>1, <2>2, <2>5, <2>6 DEF ListInv
<1>13. ASSUME NEW u \in Holders, Hold(u) PROVE ListInv'
  <2>1. PICK i \in Made : picked' = [picked EXCEPT ![u] = i]
    BY <1>13 DEF Hold
  <2>2. u \in Users /\ u \notin Gets /\ i \in Items /\ \A h \in Gets : h \in Users
    BY <2>1, CallsAssumption DEF Users, Made
  <2>3. GetsOK'
    BY <1>13, <2>1, <2>2 DEF Hold, ListInv, GetsOK, Made, Range, poolVars, itemVars
  <2>4. get' = [get EXCEPT ![u] = "load"] /\ UNCHANGED refreshVars
    BY <1>13 DEF Hold
  <2>5. RefreshesOK'
    BY <1>3, <2>4
  <2> QED
    BY <1>1, <1>13, <2>3, <2>5 DEF Hold, ListInv
<1>14. ASSUME NEW i \in Items, NEW n \in Nat, Reset(i) \/ Extend(i) \/ Expire(i) \/ SetLimit(i, n)
       PROVE  ListInv'
  <2>1. UNCHANGED <<poolVars, settings, addr, getVars, refreshVars>>
    BY <1>14 DEF Reset, Extend, Expire, SetLimit
  <2>2. /\ used' \in [Items -> Nat] /\ granted' \in [Items -> Nat]
        /\ limit' \in [Items -> Nat] /\ peak' \in [Items -> Nat] /\ expired' \subseteq Items
    <3>1. /\ used \in [Items -> Nat] /\ granted \in [Items -> Nat]
          /\ limit \in [Items -> Nat] /\ peak \in [Items -> Nat] /\ expired \subseteq Items
      BY DEF ListInv, ListedOK
    <3>2. CASE SetLimit(i, n)
      BY <3>1, <3>2 DEF SetLimit, countVars
    <3>3. CASE Reset(i) \/ Extend(i) \/ Expire(i)
      BY <3>1, <3>3 DEF Reset, Extend, Expire, countVars, Made
    <3> QED
      BY <1>14, <3>2, <3>3
  <2>3. ListedOK'
    BY <2>1, <2>2 DEF ListInv, ListedOK, NoDuplicates, Made, poolVars
  <2> QED
    BY <1>2, <1>3, <2>1, <2>3 DEF ListInv, poolVars, getVars
<1>15. CASE UNCHANGED vars
  BY <1>1, <1>2, <1>3, <1>15 DEF vars, ListInv, poolVars, itemVars, getVars
<1>16. \A u : u \in Gets \/ u \in Holders => u \in Users
  BY DEF Users
<1>17. Limits \subseteq Nat
  BY SettingsAssumption
<1> QED
  BY <1>4, <1>5, <1>6, <1>7, <1>8, <1>9, <1>10, <1>11, <1>12, <1>13, <1>14, <1>15, <1>16, <1>17
  DEF Next, Getting

(* The invariant gives the two properties of the runs.                       *)
LEMMA ListInvSound == ListInv => ListIsSound
  BY DEF ListInv, ListedOK, GetsOK, RefreshesOK, ListIsSound, TypeOK

(* The pool lists proxies it has made, each address once, whatever refreshes *)
(* and callers add, remove and clean up at once.                             *)
THEOREM PoolListsEachOnce == Spec => []ListIsSound
  BY ListInit, ListNext, ListInvSound, PTL DEF Spec

(* A Get counts a use only of a proxy that the pool lists at that moment.    *)
THEOREM GrantsAreListed == Spec => GrantsFromPool
<1>1. ListInv => (\A g \in Gets : get[g] = "cas" /\ get'[g] = "callback"
                                    => picked[g] \in Range(proxies))
  BY DEF ListInv, GetsOK
<1> QED
  BY <1>1, ListInit, ListNext, PTL DEF Spec, GrantsFromPool
===============================================================================
