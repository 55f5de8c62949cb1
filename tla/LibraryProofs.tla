------------------------------ MODULE LibraryProofs ----------------------------
(*****************************************************************************)
(* Theorems about Library, for any proxies, hosts, pools, writers and        *)
(* any number of callers.  One section for each part, with the invariant     *)
(* that the part keeps alone; the last puts them together.                   *)
(*                                                                           *)
(* The parts are instances, so the assumptions on their constants, which     *)
(* Library makes in PartsAssumption, are a hypothesis of their lemmas.       *)
(*****************************************************************************)
EXTENDS Library, Integers, TLAPS

-------------------------------------------------------------------------------
(* TLSClient                                                                 *)

(* Without an error the settings are what was asked for; jars hold cookies   *)
(* of their own requests.                                                    *)
ClientInv ==
  /\ TypeOK
  /\ configErr \/ asked = proxyURL
  /\ \A j \in Jars : stored[j] \subseteq {j}
  /\ observed \subseteq {jar}

(* The two things a step can change: the settings, and one request.          *)
Setting == \/ ConfigureInvalid \/ ClearCookies \/ CloseClient
           \/ \E w \in Ways, ok \in BOOLEAN : ConfigureProxy(w, ok)
           \/ \E v \in BOOLEAN, ok \in BOOLEAN : SetVerify(v, ok)

(* What a request may be.                                                    *)
LEMMA RequestKinds ==
  ASSUME TypeOK, NEW r \in Requests
  PROVE  /\ request[r] = Idle <=> request[r].state = "idle"
         /\ request[r].state \in {"sent", "observing"} <=> request[r] \in Going
         /\ request[r].state = "refused" <=> request[r] = [state |-> "refused"]
  BY DEF TypeOK, Going, Idle

(* The initial states satisfy the invariant.                                 *)
LEMMA ClientInit == Init => ClientInv
<1> SUFFICES ASSUME Init PROVE ClientInv
  OBVIOUS
<1> USE MaxJarsAssumption DEF Init
<1>1. request = [r \in Requests |-> Idle]
  BY Zenon
<1>2. proxyURL \in Ways /\ configErr \in BOOLEAN /\ jar \in Jars
  <2>1. proxyURL \in Ways
    BY DEF Ways
  <2>2. configErr \in BOOLEAN
    BY Zenon
  <2>3. jar \in {0, 1}
    OBVIOUS
  <2>4. {0, 1} \subseteq Jars
    BY DEF Jars
  <2> QED
    BY <2>1, <2>2, <2>3, <2>4
<1>4. configErr \/ (jar # 0 /\ asked = proxyURL /\ inner = [way |-> proxyURL, verify |-> verify])
  OBVIOUS
<1>5. inner \in [way : Ways, verify : BOOLEAN] \cup {NoClient}
  <2>1. CASE inner = NoClient
    BY <2>1
  <2>2. CASE inner = [way |-> proxyURL, verify |-> verify]
    BY <2>2, <1>2
  <2> QED
    BY <2>1, <2>2
<1> HIDE DEF Init
<1>6. observed = {} /\ closed = FALSE /\ verify \in BOOLEAN /\ asked \in Ways \cup {"invalid"}
  BY DEF Init
<1>3. stored \in [Jars -> SUBSET Jars] /\ \A j \in Jars : stored[j] \subseteq {j}
  BY DEF Init
<1>7. request \in [Requests -> Going \cup {Idle, [state |-> "refused"]}]
  BY <1>1
<1> QED
  BY <1>2, <1>3, <1>4, <1>5, <1>6, <1>7 DEF ClientInv, TypeOK

(* Every change of the settings preserves the invariant.                     *)
LEMMA SettingKeeps == ClientInv /\ Setting => ClientInv'
<1> SUFFICES ASSUME ClientInv, Setting PROVE ClientInv'
  OBVIOUS
<1> USE MaxJarsAssumption
    DEF ClientInv, TypeOK, Jars, NoClient, settings, cookies
<1>1. CASE ConfigureInvalid
  BY <1>1 DEF ConfigureInvalid
<1>2. CASE ClearCookies
  <2>1. jar' \in Jars /\ jar' # 0 /\ observed' = {}
    BY <1>2 DEF ClearCookies
  <2> QED
    BY <1>2, <2>1 DEF ClearCookies
<1>3. CASE CloseClient
  BY <1>3 DEF CloseClient
<1>4. ASSUME NEW w \in Ways, NEW ok \in BOOLEAN, ConfigureProxy(w, ok) PROVE ClientInv'
  <2>1. inner' \in [way : Ways, verify : BOOLEAN] \cup {NoClient}
    <3>1. CASE ok
      BY <1>4, <3>1 DEF ConfigureProxy, Rebuild
    <3>2. CASE ~ ok
      BY <1>4, <3>2 DEF ConfigureProxy, Rebuild
    <3> QED
      BY <3>1, <3>2
  <2>3. /\ jar' \in Jars /\ (observed \subseteq {jar})' /\ configErr' \in BOOLEAN
        /\ proxyURL' \in Ways /\ asked' \in Ways \cup {"invalid"}
    BY <1>4 DEF ConfigureProxy, Rebuild
  <2>5. CASE ok
    <3>1. /\ inner' = [way |-> w, verify |-> verify] /\ asked' = w /\ proxyURL' = w /\ verify' = verify
          /\ jar' # 0
      BY <1>4, <2>5 DEF ConfigureProxy, Rebuild
    <3>2. inner' = [way |-> proxyURL', verify |-> verify']
      BY <3>1
    <3> QED
      BY <1>4, <2>1, <2>3, <3>1, <3>2 DEF ConfigureProxy
  <2>4. CASE ~ ok
    <3>1. configErr'
      BY <1>4, <2>4 DEF ConfigureProxy, Rebuild
    <3> QED
      BY <1>4, <2>1, <2>3, <3>1 DEF ConfigureProxy
  <2> QED
    BY <2>5, <2>4
<1>5. ASSUME NEW v \in BOOLEAN, NEW ok \in BOOLEAN, SetVerify(v, ok) PROVE ClientInv'
  BY <1>5 DEF SetVerify, Rebuild
<1> QED
  BY <1>1, <1>2, <1>3, <1>4, <1>5 DEF Setting

(* Every step of a request preserves the invariant.                          *)
LEMMA RequestKeeps == ASSUME NEW r \in Requests PROVE ClientInv /\ Request(r) => ClientInv'
<1> SUFFICES ASSUME ClientInv, Request(r) PROVE ClientInv'
  OBVIOUS
<1> USE MaxJarsAssumption DEF ClientInv, settings, cookies
<1>1. CASE Begin(r)
  <2>1. request'[r] \in Going \cup {Idle, [state |-> "refused"]}
    BY <1>1 DEF Begin, TypeOK, Refuses, Going, Jars, NoClient
  <2> QED
    BY <1>1, <2>1 DEF Begin, TypeOK
<1>2. CASE TakeCookies(r)
  <2>1. request[r] \in Going
    BY <1>2, RequestKinds DEF TakeCookies
  <2>2. request'[r] \in Going /\ request[r].jar \in Jars
    BY <1>2, <2>1 DEF TakeCookies, Going, TypeOK, Jars
  <2> QED
    BY <1>2, <2>2 DEF TakeCookies, TypeOK
<1>3. CASE Observe(r)
  <2>1. request[r] \in Going
    BY <1>3, RequestKinds DEF Observe
  <2>2. request'[r] \in Going
    BY <1>3, <2>1 DEF Observe, Going, TypeOK
  <2>3. observed' \subseteq Jars \ {0} /\ observed' \subseteq {jar}
    <3>1. request[r].jar \in Jars \ {0}
      BY <2>1 DEF Going, Jars
    <3> QED
      BY <1>3, <3>1 DEF Observe, TypeOK
  <2> QED
    BY <1>3, <2>2, <2>3 DEF Observe, TypeOK
<1>4. CASE End(r)
  BY <1>4 DEF End, TypeOK
<1> QED
  BY <1>1, <1>2, <1>3, <1>4 DEF Request

(* Every step preserves the invariant.                                       *)
LEMMA ClientNext == ClientInv /\ [Next]_vars => ClientInv'
<1>1. ClientInv /\ UNCHANGED vars => ClientInv'
  BY DEF vars, settings, cookies, ClientInv, TypeOK
<1> QED
  BY <1>1, SettingKeeps, RequestKeeps DEF Next, Setting

(* The client implements HTTPPolicy.                                         *)

Routed == [r \in Requests |-> Route(request[r])]

(* What a request maps to.                                                   *)
LEMMA RouteKinds ==
  ASSUME TypeOK, NEW r \in Requests
  PROVE  /\ request[r].state = "idle" => Route(request[r]) = [state |-> "idle"]
         /\ request[r].state = "refused" => Route(request[r]) = [state |-> "refused"]
         /\ Routed[r] = Route(request[r])
         /\ request[r].state \in {"sent", "observing"} =>
              Route(request[r]) = [state |-> "sent", way |-> request[r].way,
                                   verify |-> request[r].verify]
  BY DEF Route, Routed

(* A step that leaves the requests alone leaves their routes alone.          *)
LEMMA SettingMaps == ClientInv /\ Setting => [Policy!Next]_(Policy!policyVars)
<1> SUFFICES ASSUME ClientInv, Setting PROVE [Policy!Next]_(Policy!policyVars)
  OBVIOUS
<1>1. Routed' = Routed
  BY DEF Setting, ConfigureInvalid, ClearCookies, CloseClient, ConfigureProxy, SetVerify, Routed, Route
<1>2. CASE ConfigureInvalid \/ \E w \in Ways, ok \in BOOLEAN : ConfigureProxy(w, ok)
  <2>1. asked' \in Ways \cup {"invalid"} /\ verify' = verify
    BY <1>2 DEF ConfigureInvalid, ConfigureProxy
  <2> QED
    BY <1>1, <2>1 DEF Routed, Policy!Next, Policy!Ask
<1>3. CASE \E v \in BOOLEAN, ok \in BOOLEAN : SetVerify(v, ok)
  <2>1. asked' = asked /\ verify' \in BOOLEAN
    BY <1>3 DEF SetVerify
  <2> QED
    BY <1>1, <2>1 DEF Routed, Policy!Next, Policy!SetVerify
<1>4. CASE ClearCookies \/ CloseClient
  BY <1>1, <1>4 DEF ClearCookies, CloseClient, settings, Routed, Policy!policyVars
<1> QED
  BY <1>2, <1>3, <1>4 DEF Setting

(* A step of a request is one of its route, or none.                         *)
LEMMA RequestMaps ==
  ASSUME NEW r \in Requests
  PROVE  ClientInv /\ Request(r) => [Policy!Next]_(Policy!policyVars)
<1> SUFFICES ASSUME ClientInv, Request(r) PROVE [Policy!Next]_(Policy!policyVars)
  OBVIOUS
<1> DEFINE Becomes(x) == Routed' = [Routed EXCEPT ![r] = x]
<1>1. UNCHANGED <<asked, verify>>
  BY DEF Request, Begin, TakeCookies, Observe, End, settings
<1>2. ASSUME NEW q, request' = [request EXCEPT ![r] = q] PROVE Becomes(Route(q))
  BY <1>2 DEF Routed, ClientInv, TypeOK, Route
<1>3. CASE Begin(r)
  <2>1. Routed[r].state = "idle"
    <3>1. request[r].state = "idle"
      BY <1>3 DEF Begin, Idle
    <3>2. Routed[r] = [state |-> "idle"]
      BY <3>1, RouteKinds DEF ClientInv
    <3> QED
      BY <3>2
  <2>2. CASE Refuses
    <3>1. Becomes(Route([state |-> "refused"]))
      BY <1>3, <2>2, <1>2 DEF Begin
    <3>2. Route([state |-> "refused"]) = [state |-> "refused"]
      BY DEF Route
    <3>3. Becomes([state |-> "refused"])
      BY <3>1, <3>2
    <3> QED
      BY <1>1, <2>1, <3>3 DEF Policy!Next, Policy!Refuse, Routed
  <2>3. CASE ~ Refuses
    <3> DEFINE q == [state |-> "sent", way |-> inner.way, verify |-> inner.verify, jar |-> jar]
    <3>1. Becomes(Route(q))
      BY <1>3, <2>3, <1>2 DEF Begin
    <3>2. asked = proxyURL /\ inner = [way |-> proxyURL, verify |-> verify]
      BY <2>3 DEF Refuses, ClientInv, TypeOK
    <3>3. Route(q) = [state |-> "sent", way |-> asked, verify |-> verify]
      BY <3>2 DEF Route
    <3>4. Becomes([state |-> "sent", way |-> asked, verify |-> verify])
      BY <3>1, <3>3
    <3>5. asked # "invalid"
      BY <3>2, ProxiesAssumption DEF ClientInv, TypeOK, Ways
    <3> QED
      BY <1>1, <2>1, <3>4, <3>5 DEF Policy!Next, Policy!Go, Routed
  <2> QED
    BY <2>2, <2>3
<1>4. CASE TakeCookies(r) \/ Observe(r)
  <2>1. request[r] \in Going
    BY <1>4, RequestKinds DEF TakeCookies, Observe, ClientInv
  <2>2. PICK st \in {"sent", "observing"} :
          request' = [request EXCEPT ![r] = [request[r] EXCEPT !.state = st]]
    BY <1>4 DEF TakeCookies, Observe
  <2>3. Route([request[r] EXCEPT !.state = st]) = Route(request[r])
    BY <2>1 DEF Going, Route
  <2>4. Becomes(Route(request[r]))
    BY <1>2, <2>2, <2>3
  <2>5. Routed' = Routed
    BY <2>4 DEF Routed
  <2> QED
    BY <1>1, <2>5 DEF Routed, Policy!policyVars
<1>5. CASE End(r)
  <2>1. Becomes([state |-> "idle"])
    <3>1. Becomes(Route(Idle))
      BY <1>5, <1>2 DEF End
    <3> QED
      BY <3>1 DEF Route, Idle
  <2>2. Routed[r].state # "idle"
    <3>1. CASE request[r].state = "refused"
      <4>1. Routed[r] = [state |-> "refused"]
        BY <3>1, RouteKinds DEF ClientInv
      <4> QED
        BY <4>1
    <3>2. CASE request[r].state = "sent"
      <4>1. Routed[r] = [state |-> "sent", way |-> request[r].way, verify |-> request[r].verify]
        BY <3>2, RouteKinds DEF ClientInv
      <4> QED
        BY <4>1
    <3> QED
      BY <1>5, <3>1, <3>2 DEF End
  <2> QED
    BY <1>1, <2>1, <2>2 DEF Policy!Next, Policy!End, Routed
<1> QED
  BY <1>3, <1>4, <1>5 DEF Request

(* The client begins as HTTPPolicy says.                                     *)
LEMMA PolicyBegins == Init => Policy!Init
<1> SUFFICES ASSUME Init PROVE Policy!Init
  OBVIOUS
<1>1. Routed = [r \in Requests |-> [state |-> "idle"]]
  BY DEF Init, Routed, Route, Idle
<1> QED BY <1>1 DEF Init, Policy!Init, Routed

(* Every step of it is one of HTTPPolicy, or none.                           *)
LEMMA PolicyMaps == ClientInv /\ [Next]_vars => [Policy!Next]_(Policy!policyVars)
<1>1. UNCHANGED vars => UNCHANGED Policy!policyVars
  BY DEF vars, settings, Policy!policyVars, Route
<1> QED BY <1>1, SettingMaps, RequestMaps DEF Next, Setting

-------------------------------------------------------------------------------
(* HTTPClient                                                                *)

(* Without an error the settings of httpclient are what was asked for.       *)
PlainInv == Plain!TypeOK /\ (plainConfigErr \/ plainAsked = plainProxyURL)

(* What a request of httpclient may be.                                      *)
LEMMA PlainKinds ==
  ASSUME Plain!TypeOK, NEW r \in Requests
  PROVE  /\ plainRequest[r] = Plain!Idle <=> plainRequest[r].state = "idle"
         /\ plainRequest[r].state \in {"sent", "observing"} <=> plainRequest[r] \in Plain!Going
         /\ plainRequest[r].state = "refused" <=> plainRequest[r] = [state |-> "refused"]
  BY DEF Plain!TypeOK, Plain!Going, Plain!Idle

(* httpclient is made with the invariant.                                    *)
LEMMA PlainStart == PartsAssumption /\ Plain!Init => PlainInv
<1> SUFFICES ASSUME PartsAssumption, Plain!Init PROVE PlainInv
  OBVIOUS
<1>1. MaxJars \in Nat \ {0}
  BY DEF PartsAssumption, Plain!MaxJarsAssumption
<1>2. /\ plainAsked \in Plain!Ways \cup {"invalid"}
      /\ plainProxyURL = IF plainAsked = "invalid" THEN "direct" ELSE plainAsked
      /\ plainTransport = [way |-> plainProxyURL, verify |-> plainVerify]
      /\ plainJar = 1 /\ plainStored = [j \in Plain!Jars |-> {}] /\ plainObserved = {}
      /\ plainRequest = [r \in Requests |-> Plain!Idle]
  BY DEF Plain!Init
<1>3. plainVerify \in BOOLEAN /\ plainConfigErr \in BOOLEAN
  BY DEF Plain!Init
<1>4. plainProxyURL \in Plain!Ways
  BY <1>2 DEF Plain!Ways
<1>5. plainConfigErr \/ plainAsked = plainProxyURL
  BY DEF Plain!Init
<1>6. plainJar \in Plain!Jars /\ plainTransport \in [way : Plain!Ways, verify : BOOLEAN]
  BY <1>1, <1>2, <1>3, <1>4 DEF Plain!Jars
<1> QED BY <1>2, <1>3, <1>4, <1>5, <1>6 DEF PlainInv, Plain!TypeOK

(* The two things a step can change: the settings, and one request.          *)
PlainSetting ==
  \/ Plain!ConfigureInvalid \/ Plain!ClearCookies
  \/ \E w \in Plain!Ways, ok \in BOOLEAN : Plain!ConfigureProxy(w, ok)
  \/ \E v \in BOOLEAN, ok \in BOOLEAN : Plain!SetVerify(v, ok)

(* Every change of the settings keeps the invariant.                         *)
LEMMA PlainSettingKeeps == PartsAssumption /\ PlainInv /\ PlainSetting => PlainInv'
<1> SUFFICES ASSUME PartsAssumption, PlainInv, PlainSetting PROVE PlainInv'
  OBVIOUS
<1>0. MaxJars \in Nat \ {0}
  BY DEF PartsAssumption, Plain!MaxJarsAssumption
<1> USE <1>0 DEF PlainInv, Plain!TypeOK, Plain!Jars, Plain!settings, Plain!cookies
<1>1. CASE Plain!ConfigureInvalid
  <2>1. "direct" \in Plain!Ways
    BY DEF Plain!Ways
  <2> QED BY <1>1, <2>1 DEF Plain!ConfigureInvalid, Plain!Rebuild
<1>2. CASE Plain!ClearCookies
  <2>1. plainJar' \in Plain!Jars /\ plainObserved' = {}
    BY <1>2 DEF Plain!ClearCookies
  <2> QED BY <1>2, <2>1 DEF Plain!ClearCookies
<1>3. ASSUME NEW w \in Plain!Ways, NEW ok \in BOOLEAN, Plain!ConfigureProxy(w, ok) PROVE PlainInv'
  <2>1. CASE ok
    BY <1>3, <2>1 DEF Plain!ConfigureProxy, Plain!Rebuild
  <2>2. CASE ~ ok
    BY <1>3, <2>2 DEF Plain!ConfigureProxy, Plain!Rebuild
  <2> QED BY <2>1, <2>2
<1>4. ASSUME NEW v \in BOOLEAN, NEW ok \in BOOLEAN, Plain!SetVerify(v, ok) PROVE PlainInv'
  <2>1. CASE ok
    BY <1>4, <2>1 DEF Plain!SetVerify, Plain!Rebuild
  <2>2. CASE ~ ok
    BY <1>4, <2>2 DEF Plain!SetVerify, Plain!Rebuild
  <2> QED BY <2>1, <2>2
<1> QED BY <1>1, <1>2, <1>3, <1>4 DEF PlainSetting

(* Every step of a request keeps the invariant.                              *)
LEMMA PlainRequestKeeps ==
  ASSUME NEW r \in Requests, PlainInv, Plain!Request(r) PROVE PlainInv'
<1> USE DEF PlainInv, Plain!settings, Plain!cookies
<1>1. CASE Plain!Begin(r)
  <2>1. plainRequest'[r] \in Plain!Going \cup {Plain!Idle, [state |-> "refused"]}
    BY <1>1 DEF Plain!Begin, Plain!TypeOK, Plain!Going
  <2> QED BY <1>1, <2>1 DEF Plain!Begin, Plain!TypeOK, Plain!Idle, Plain!Going,
            Plain!Jars, Plain!Ways
<1>2. CASE Plain!TakeCookies(r)
  <2>1. plainRequest[r] \in Plain!Going
    BY <1>2, PlainKinds DEF Plain!TakeCookies
  <2>2. plainRequest'[r] \in Plain!Going /\ plainRequest[r].jar \in Plain!Jars
    BY <1>2, <2>1 DEF Plain!TakeCookies, Plain!Going, Plain!TypeOK
  <2>3. /\ plainStored' \in [Plain!Jars -> SUBSET Plain!Jars]
        /\ \A j \in Plain!Jars : plainStored'[j] \subseteq {j}
    BY <1>2, <2>2 DEF Plain!TakeCookies, Plain!TypeOK
  <2>4. plainRequest' \in [Requests -> Plain!Going \cup {Plain!Idle, [state |-> "refused"]}]
    BY <1>2, <2>2 DEF Plain!TakeCookies, Plain!TypeOK
  <2> QED BY <1>2, <2>3, <2>4 DEF Plain!TakeCookies, Plain!TypeOK, Plain!Idle, Plain!Going,
            Plain!Jars, Plain!Ways
<1>3. CASE Plain!Observe(r)
  <2>1. plainRequest[r] \in Plain!Going
    BY <1>3, PlainKinds DEF Plain!Observe
  <2>2. plainRequest'[r] \in Plain!Going /\ plainRequest[r].jar \in Plain!Jars
    BY <1>3, <2>1 DEF Plain!Observe, Plain!Going, Plain!TypeOK
  <2>3. plainRequest' \in [Requests -> Plain!Going \cup {Plain!Idle, [state |-> "refused"]}]
    BY <1>3, <2>2 DEF Plain!Observe, Plain!TypeOK
  <2> QED BY <1>3, <2>2, <2>3 DEF Plain!Observe, Plain!TypeOK, Plain!Idle, Plain!Going,
            Plain!Jars, Plain!Ways
<1>4. CASE Plain!End(r)
  <2>1. plainRequest' \in [Requests -> Plain!Going \cup {Plain!Idle, [state |-> "refused"]}]
    BY <1>4 DEF Plain!End, Plain!TypeOK
  <2> QED BY <1>4, <2>1 DEF Plain!End, Plain!TypeOK, Plain!Idle, Plain!Going,
            Plain!Jars, Plain!Ways
<1> QED BY <1>1, <1>2, <1>3, <1>4 DEF Plain!Request

(* Every step of httpclient keeps the invariant.                             *)
LEMMA PlainStep == PartsAssumption /\ PlainInv /\ [Plain!Next]_(Plain!vars) => PlainInv'
<1>1. PlainInv /\ UNCHANGED Plain!vars => PlainInv'
  BY DEF Plain!vars, Plain!settings, Plain!cookies, PlainInv, Plain!TypeOK, Plain!Idle, Plain!Going,
         Plain!Jars, Plain!Ways
<1> QED BY <1>1, PlainSettingKeeps, PlainRequestKeeps DEF Plain!Next, PlainSetting

PlainRouted == [r \in Requests |-> Plain!Route(plainRequest[r])]

(* What a request of httpclient maps to.                                     *)
LEMMA PlainRouteKinds ==
  ASSUME Plain!TypeOK, NEW r \in Requests
  PROVE  /\ plainRequest[r].state = "idle" => PlainRouted[r] = [state |-> "idle"]
         /\ plainRequest[r].state = "refused" => PlainRouted[r] = [state |-> "refused"]
         /\ plainRequest[r].state \in {"sent", "observing"} =>
              PlainRouted[r] = [state |-> "sent", way |-> plainRequest[r].way,
                                verify |-> plainRequest[r].verify]
  BY DEF Plain!Route, PlainRouted

(* A change of the settings is one of the policy, or none.                   *)
LEMMA PlainSettingMaps ==
  ASSUME PlainInv, PlainSetting
  PROVE  [Plain!Policy!Next]_(Plain!Policy!policyVars)
<1>1. PlainRouted' = PlainRouted
  BY DEF PlainSetting, Plain!ConfigureInvalid, Plain!ClearCookies, Plain!ConfigureProxy,
         Plain!SetVerify, PlainRouted, Plain!Route
<1>2. CASE Plain!ConfigureInvalid \/ \E w \in Plain!Ways, ok \in BOOLEAN : Plain!ConfigureProxy(w, ok)
  <2>1. plainAsked' \in Plain!Ways \cup {"invalid"} /\ plainVerify' = plainVerify
    BY <1>2 DEF Plain!ConfigureInvalid, Plain!ConfigureProxy
  <2> QED BY <1>1, <2>1 DEF PlainRouted, Plain!Policy!Next, Plain!Policy!Ask
<1>3. CASE \E v \in BOOLEAN, ok \in BOOLEAN : Plain!SetVerify(v, ok)
  <2>1. plainAsked' = plainAsked /\ plainVerify' \in BOOLEAN
    BY <1>3 DEF Plain!SetVerify
  <2> QED BY <1>1, <2>1 DEF PlainRouted, Plain!Policy!Next, Plain!Policy!SetVerify
<1>4. CASE Plain!ClearCookies
  BY <1>1, <1>4 DEF Plain!ClearCookies, Plain!settings, PlainRouted, Plain!Policy!policyVars
<1> QED BY <1>2, <1>3, <1>4 DEF PlainSetting

(* A step of a request is one of its route, or none.                         *)
LEMMA PlainRequestMaps ==
  ASSUME PartsAssumption, PlainInv, NEW r \in Requests, Plain!Request(r)
  PROVE  [Plain!Policy!Next]_(Plain!Policy!policyVars)
<1> DEFINE Becomes(x) == PlainRouted' = [PlainRouted EXCEPT ![r] = x]
<1>1. UNCHANGED <<plainAsked, plainVerify>>
  BY DEF Plain!Request, Plain!Begin, Plain!TakeCookies, Plain!Observe, Plain!End, Plain!settings
<1>2. ASSUME NEW q, plainRequest' = [plainRequest EXCEPT ![r] = q] PROVE Becomes(Plain!Route(q))
  BY <1>2 DEF PlainRouted, PlainInv, Plain!TypeOK, Plain!Route
<1>3. CASE Plain!Begin(r)
  <2>1. PlainRouted[r].state = "idle"
    <3>1. plainRequest[r].state = "idle"
      BY <1>3 DEF Plain!Begin, Plain!Idle
    <3>2. PlainRouted[r] = [state |-> "idle"]
      BY <3>1, PlainRouteKinds DEF PlainInv
    <3> QED BY <3>2
  <2>2. CASE plainConfigErr
    <3>1. Becomes(Plain!Route([state |-> "refused"]))
      BY <1>3, <2>2, <1>2 DEF Plain!Begin
    <3>2. Plain!Route([state |-> "refused"]) = [state |-> "refused"]
      BY DEF Plain!Route
    <3>3. Becomes([state |-> "refused"])
      BY <3>1, <3>2
    <3> QED BY <1>1, <2>1, <3>3 DEF Plain!Policy!Next, Plain!Policy!Refuse, PlainRouted
  <2>3. CASE ~ plainConfigErr
    <3> DEFINE q == [state |-> "sent", way |-> plainTransport.way, verify |-> plainTransport.verify,
                     jar |-> plainJar]
    <3>1. Becomes(Plain!Route(q))
      BY <1>3, <2>3, <1>2 DEF Plain!Begin
    <3>2. plainAsked = plainProxyURL /\ plainTransport = [way |-> plainProxyURL, verify |-> plainVerify]
      BY <2>3 DEF PlainInv, Plain!TypeOK
    <3>3. Plain!Route(q) = [state |-> "sent", way |-> plainAsked, verify |-> plainVerify]
      BY <3>2 DEF Plain!Route
    <3>4. Becomes([state |-> "sent", way |-> plainAsked, verify |-> plainVerify])
      BY <3>1, <3>3
    <3>5. plainAsked # "invalid"
      BY <3>2 DEF PlainInv, Plain!TypeOK, Plain!Ways, PartsAssumption, Plain!ProxiesAssumption
    <3> QED BY <1>1, <2>1, <3>4, <3>5 DEF Plain!Policy!Next, Plain!Policy!Go, PlainRouted
  <2> QED BY <2>2, <2>3
<1>4. CASE Plain!TakeCookies(r) \/ Plain!Observe(r)
  <2>1. plainRequest[r] \in Plain!Going
    BY <1>4, PlainKinds DEF Plain!TakeCookies, Plain!Observe, PlainInv
  <2>2. PICK st \in {"sent", "observing"} :
          plainRequest' = [plainRequest EXCEPT ![r] = [plainRequest[r] EXCEPT !.state = st]]
    BY <1>4 DEF Plain!TakeCookies, Plain!Observe
  <2>3. Plain!Route([plainRequest[r] EXCEPT !.state = st]) = Plain!Route(plainRequest[r])
    BY <2>1 DEF Plain!Going, Plain!Route
  <2>4. Becomes(Plain!Route(plainRequest[r]))
    BY <1>2, <2>2, <2>3
  <2>5. PlainRouted' = PlainRouted
    BY <2>4 DEF PlainRouted
  <2> QED BY <1>1, <2>5 DEF PlainRouted, Plain!Policy!policyVars
<1>5. CASE Plain!End(r)
  <2>1. Becomes([state |-> "idle"])
    <3>1. Becomes(Plain!Route(Plain!Idle))
      BY <1>5, <1>2 DEF Plain!End
    <3> QED BY <3>1 DEF Plain!Route, Plain!Idle
  <2>2. PlainRouted[r].state # "idle"
    <3>1. CASE plainRequest[r].state = "refused"
      <4>1. PlainRouted[r] = [state |-> "refused"]
        BY <3>1, PlainRouteKinds DEF PlainInv
      <4> QED BY <4>1
    <3>2. CASE plainRequest[r].state = "sent"
      <4>1. PlainRouted[r] = [state |-> "sent", way |-> plainRequest[r].way,
                              verify |-> plainRequest[r].verify]
        BY <3>2, PlainRouteKinds DEF PlainInv
      <4> QED BY <4>1
    <3> QED BY <1>5, <3>1, <3>2 DEF Plain!End
  <2> QED BY <1>1, <2>1, <2>2 DEF Plain!Policy!Next, Plain!Policy!End, PlainRouted
<1> QED BY <1>3, <1>4, <1>5 DEF Plain!Request

(* httpclient begins as HTTPPolicy says.                                     *)
LEMMA PlainBegins == Plain!Init => Plain!Policy!Init
<1> SUFFICES ASSUME Plain!Init PROVE Plain!Policy!Init
  OBVIOUS
<1>1. PlainRouted = [r \in Requests |-> [state |-> "idle"]]
  BY DEF Plain!Init, PlainRouted, Plain!Route, Plain!Idle
<1> QED BY <1>1 DEF Plain!Init, Plain!Policy!Init, PlainRouted

(* Every step of it is one of HTTPPolicy, or none.                           *)
LEMMA PlainMaps ==
  PartsAssumption /\ PlainInv /\ [Plain!Next]_(Plain!vars)
    => [Plain!Policy!Next]_(Plain!Policy!policyVars)
<1>1. UNCHANGED Plain!vars => UNCHANGED Plain!Policy!policyVars
  BY DEF Plain!vars, Plain!settings, Plain!Policy!policyVars, Plain!Route
<1> QED BY <1>1, PlainSettingMaps, PlainRequestMaps DEF Plain!Next, PlainSetting

-------------------------------------------------------------------------------
(* DoRequest                                                                 *)

(* filteringCookieJar forgets the explicit value when net/http does, and has *)
(* seen the URL before the one to be sent: it knows whether the header goes  *)
(* along if net/http compares hop by hop, and for both kinds of net/http as  *)
(* long as the chain keeps to the domain of its first host.                  *)
ChainKnows ==
  /\ pc = "ready" =>
       /\ overrides = explicit
       /\ carried => explicit
       /\ course = "down" => Chain!CanForward(previous, host) /\ carried = explicit
       /\ ~ sticky => carried = (explicit /\ <<previous, host>> \in Within)
       /\ course # "opaque" => previous \notin Opaque
  /\ pc = "sent" => overrides = explicit /\ previous = host
  /\ pc = "answered" => /\ overrides = (explicit /\ response.cookie = "none")
                        /\ previous = host

ChainCourse ==
  /\ course # "opaque" => host \notin Opaque
  /\ course = "down" => <<Home, host>> \in Within /\ ~ stripped

ChainInv == Chain!TypeOK /\ ChainKnows /\ ChainCourse /\ Chain!RightValue

(* A chain starts with the invariant.                                        *)
LEMMA ChainStart == PartsAssumption /\ Chain!Init => ChainInv
<1> SUFFICES ASSUME PartsAssumption, Chain!Init PROVE ChainInv
  OBVIOUS
<1>1. Home \in Hosts /\ <<Home, Home>> \in Within /\ MaxHops \in Nat
  BY DEF PartsAssumption, Chain!HomeAssumption, Chain!WithinAssumption, Chain!BoundsAssumption
<1>2. /\ options \in Chain!Calls /\ pc = "ready" /\ hop = 0 /\ host = Home /\ previous = Home
      /\ explicit \in BOOLEAN /\ carried = explicit /\ stripped = FALSE /\ overrides = explicit
      /\ chainJar \in SUBSET Hosts /\ wire = {} /\ response = Chain!NoResponse
      /\ sticky \in BOOLEAN /\ course = IF Home \in Opaque THEN "opaque" ELSE "down"
  BY DEF Chain!Init
<1>3. Chain!NoResponse \in Chain!Responses
  BY DEF Chain!NoResponse, Chain!Responses, Chain!NewCookies
<1>4. Chain!TypeOK
  <2>1. explicit \in BOOLEAN /\ carried \in BOOLEAN /\ overrides \in BOOLEAN /\ stripped \in BOOLEAN
    BY <1>2, Zenon
  <2>2. hop \in 0 .. MaxHops /\ ~ (hop > 0)
    BY <1>1, <1>2
  <2>3. sticky \in BOOLEAN /\ course \in {"down", "out", "opaque"}
    BY <1>2
  <2> QED BY <1>1, <1>2, <1>3, <2>1, <2>2, <2>3 DEF Chain!TypeOK
<1>5. ChainKnows /\ ChainCourse
  <2>1. course # "opaque" => Home \notin Opaque
    BY <1>2
  <2>2. Chain!CanForward(previous, host) <=> Home \notin Opaque
    BY <1>1, <1>2 DEF Chain!CanForward
  <2> QED BY <1>1, <1>2, <2>1, <2>2 DEF ChainKnows, ChainCourse
<1>6. Chain!RightValue
  BY <1>2 DEF Chain!RightValue
<1> QED BY <1>4, <1>5, <1>6 DEF ChainInv

(* Every step of a chain keeps its types.                                    *)
LEMMA ChainTypes ==
  PartsAssumption /\ Chain!TypeOK /\ [Chain!Next]_(Chain!vars) => Chain!TypeOK'
<1> SUFFICES ASSUME PartsAssumption, Chain!TypeOK, [Chain!Next]_(Chain!vars)
             PROVE  Chain!TypeOK'
  OBVIOUS
<1>0. MaxHops \in Nat /\ Limits \subseteq Int
  BY DEF PartsAssumption, Chain!BoundsAssumption
<1>1. CASE Chain!Send
  BY <1>1 DEF Chain!TypeOK, Chain!Send, Chain!headerVars, Chain!JarValue
<1>2. ASSUME NEW r \in Chain!Responses, Chain!Respond(r) PROVE Chain!TypeOK'
  <2>1. chainJar' \subseteq Hosts
    BY <1>2 DEF Chain!TypeOK, Chain!Respond, Chain!SetCookies, Chain!Stored, Chain!Responses,
                Chain!NewCookies
  <2>2. overrides' \in BOOLEAN
    BY <1>2 DEF Chain!TypeOK, Chain!Respond, Chain!SetCookies
  <2> QED BY <1>2, <2>1, <2>2 DEF Chain!TypeOK, Chain!Respond, Chain!headerVars
<1>3. CASE Chain!Fail
  BY <1>3 DEF Chain!TypeOK, Chain!Fail, Chain!headerVars, Chain!filterVars
<1>4. CASE Chain!Return
  BY <1>4 DEF Chain!TypeOK, Chain!Return, Chain!headerVars, Chain!filterVars
<1>5. CASE Chain!Redirect
  <2>1. options.limit \in Int
    BY <1>0 DEF Chain!TypeOK, Chain!Calls
  <2>2. /\ hop' = hop + 1 /\ hop < MaxHops /\ options' = options /\ options.allow
        /\ ~ (options.limit >= 0 /\ hop + 1 >= options.limit)
    BY <1>5 DEF Chain!Redirect, Chain!Stops
  <2>3. hop' \in 0 .. MaxHops /\ (options.limit < 0 \/ hop' < options.limit)
    BY <1>0, <2>1, <2>2 DEF Chain!TypeOK
  <2>4. explicit' \in BOOLEAN /\ carried' \in BOOLEAN /\ stripped' \in BOOLEAN
    BY <1>5 DEF Chain!TypeOK, Chain!Redirect, Chain!Leaves
  <2> QED BY <1>5, <2>2, <2>3, <2>4 DEF Chain!TypeOK, Chain!Redirect, Chain!filterVars
<1>6. CASE UNCHANGED Chain!vars
  BY <1>6 DEF Chain!TypeOK, Chain!vars, Chain!headerVars, Chain!filterVars
<1> QED BY <1>1, <1>2, <1>3, <1>4, <1>5, <1>6 DEF Chain!Next

(* A redirect leaves the filter and net/http of one mind, if the chain keeps *)
(* to the domain of its first host or net/http compares hop by hop.          *)
LEMMA ChainRedirect ==
  ASSUME PartsAssumption, ChainInv, Chain!Redirect
  PROVE  ChainKnows' /\ ChainCourse'
<1> DEFINE next == response.location
<1>1. /\ next \in Hosts /\ host \in Hosts /\ Home \in Hosts
      /\ overrides = (explicit /\ response.cookie = "none") /\ previous = host
  BY DEF ChainInv, ChainKnows, Chain!Redirect, Chain!TypeOK, PartsAssumption, Chain!HomeAssumption
<1>2. /\ pc' = "ready" /\ host' = next /\ previous' = previous /\ overrides' = overrides
      /\ explicit' = (explicit /\ response.cookie = "none") /\ sticky' = sticky
      /\ stripped' = (stripped \/ Chain!Leaves(next))
      /\ carried' = (explicit' /\ IF sticky THEN ~ stripped' ELSE <<host, next>> \in Within)
      /\ course' = IF course = "opaque" \/ next \in Opaque THEN "opaque"
                   ELSE IF Chain!CanForward(host, next) THEN course ELSE "out"
  BY DEF Chain!Redirect, Chain!filterVars
<1>3. \A f, g, h \in Hosts : <<f, g>> \in Within /\ <<g, h>> \in Within => <<f, h>> \in Within
  BY DEF PartsAssumption, Chain!WithinAssumption
<1>4. course' # "opaque" => host \notin Opaque /\ next \notin Opaque
  BY <1>2 DEF ChainInv, ChainCourse
<1>5. ASSUME course' = "down"
      PROVE  Chain!CanForward(host, next) /\ <<Home, next>> \in Within /\ ~ stripped'
  <2>1. course = "down" /\ Chain!CanForward(host, next)
    BY <1>2, <1>5 DEF ChainInv, Chain!TypeOK
  <2>2. <<Home, host>> \in Within /\ ~ stripped /\ <<host, next>> \in Within
    BY <2>1 DEF ChainInv, ChainCourse, Chain!CanForward
  <2>3. <<Home, next>> \in Within
    BY <1>1, <1>3, <2>2
  <2> QED BY <1>2, <2>1, <2>2, <2>3 DEF Chain!Leaves
<1> HIDE DEF next
<1>6. overrides' = explicit'
  BY <1>1, <1>2
<1>7. course' = "down" => carried' = explicit'
  <2>1. CASE sticky
    BY <1>2, <1>5, <2>1, Zenon
  <2>2. CASE ~ sticky
    BY <1>2, <1>5, <2>2 DEF Chain!CanForward
  <2> QED BY <2>1, <2>2
<1>8. course' = "down" => Chain!CanForward(previous', host')
  BY <1>1, <1>2, <1>5
<1>9. ChainKnows'
  BY <1>1, <1>2, <1>4, <1>6, <1>7, <1>8 DEF ChainKnows, Chain!CanForward
<1>10. ChainCourse'
  BY <1>2, <1>4, <1>5 DEF ChainCourse
<1> QED BY <1>9, <1>10

(* A request is sent with the right value.                                   *)
LEMMA ChainSend ==
  ASSUME PartsAssumption, ChainInv, Chain!Send
  PROVE  ChainKnows' /\ ChainCourse' /\ Chain!RightValue'
<1>1. /\ pc = "ready" /\ pc' = "sent" /\ previous' = host
      /\ wire' = Chain!JarValue \cup (IF carried THEN {"explicit"} ELSE {})
      /\ host' = host /\ overrides' = overrides /\ chainJar' = chainJar /\ course' = course
      /\ sticky' = sticky /\ explicit' = explicit /\ carried' = carried /\ stripped' = stripped
  BY DEF Chain!Send, Chain!headerVars
<1>2. /\ overrides = explicit /\ (carried => explicit)
      /\ course = "down" => Chain!CanForward(previous, host) /\ carried = explicit
      /\ ~ sticky => carried = (explicit /\ <<previous, host>> \in Within)
      /\ course # "opaque" => previous \notin Opaque /\ host \notin Opaque
  BY <1>1 DEF ChainInv, ChainKnows, ChainCourse
<1>3. ChainKnows' /\ ChainCourse'
  BY <1>1, <1>2 DEF ChainInv, ChainKnows, ChainCourse
<1>4. Chain!JarValue = IF host \in chainJar /\ ~ (Chain!CanForward(previous, host) /\ overrides)
                       THEN {"jar"} ELSE {}
  BY DEF Chain!JarValue
<1>5. ASSUME ~ explicit PROVE wire' = IF host \in chainJar THEN {"jar"} ELSE {}
  <2>1. ~ overrides /\ ~ carried
    BY <1>2, <1>5, Zenon
  <2> QED BY <1>1, <1>4, <2>1
<1>6. ASSUME explicit, course = "down" PROVE wire' = {"explicit"}
  <2>1. overrides /\ carried /\ Chain!CanForward(previous, host)
    BY <1>2, <1>6, Zenon
  <2> QED BY <1>1, <1>4, <2>1
<1>7. ASSUME ~ sticky, course # "opaque"
      PROVE  wire' # {"explicit", "jar"} /\ (host \in chainJar => wire' # {})
  <2>1. (Chain!CanForward(previous, host) /\ overrides) <=> carried
    BY <1>2, <1>7 DEF Chain!CanForward
  <2> QED BY <1>1, <1>4, <2>1
<1>8. Chain!RightValue'
  <2>1. (~ explicit => wire = IF host \in chainJar THEN {"jar"} ELSE {})'
    BY <1>1, <1>5
  <2>2. (explicit /\ course = "down" => wire = {"explicit"})'
    BY <1>1, <1>6
  <2>3. (~ sticky /\ course # "opaque" => Chain!OneValue /\ Chain!NothingWithheld)'
    BY <1>1, <1>7 DEF Chain!OneValue, Chain!NothingWithheld
  <2> QED BY <2>1, <2>2, <2>3 DEF Chain!RightValue
<1> QED BY <1>3, <1>8

(* Every step of a chain keeps the invariant.                                *)
LEMMA ChainStep == PartsAssumption /\ ChainInv /\ [Chain!Next]_(Chain!vars) => ChainInv'
<1> SUFFICES ASSUME PartsAssumption, ChainInv, [Chain!Next]_(Chain!vars) PROVE ChainInv'
  OBVIOUS
<1>1. Chain!TypeOK /\ Chain!TypeOK'
  BY ChainTypes DEF ChainInv
<1>2. CASE Chain!Send
  BY <1>1, <1>2, ChainSend DEF ChainInv
<1>3. ASSUME NEW r \in Chain!Responses, Chain!Respond(r) PROVE ChainInv'
  <2>1. /\ pc = "sent" /\ pc' = "answered" /\ response' = r /\ host' = host /\ course' = course
        /\ overrides' = (overrides /\ r.cookie = "none") /\ previous' = previous
        /\ explicit' = explicit /\ stripped' = stripped
    BY <1>3 DEF Chain!Respond, Chain!SetCookies, Chain!headerVars
  <2>2. ChainKnows' /\ ChainCourse'
    BY <2>1 DEF ChainInv, ChainKnows, ChainCourse
  <2>3. Chain!RightValue'
    BY <2>1 DEF Chain!RightValue
  <2> QED BY <1>1, <2>2, <2>3 DEF ChainInv
<1>4. CASE Chain!Fail \/ Chain!Return
  <2>1. /\ pc' \in {"failed", "returned"} /\ host' = host /\ course' = course /\ stripped' = stripped
    BY <1>4 DEF Chain!Fail, Chain!Return, Chain!headerVars
  <2>2. ChainKnows' /\ ChainCourse'
    BY <2>1 DEF ChainInv, ChainKnows, ChainCourse
  <2>3. Chain!RightValue'
    BY <2>1 DEF Chain!RightValue
  <2> QED BY <1>1, <2>2, <2>3 DEF ChainInv
<1>5. CASE Chain!Redirect
  <2>1. ChainKnows' /\ ChainCourse'
    BY <1>5, ChainRedirect
  <2>2. Chain!RightValue'
    BY <1>5 DEF Chain!Redirect, Chain!RightValue
  <2> QED BY <1>1, <2>1, <2>2 DEF ChainInv
<1>6. CASE UNCHANGED Chain!vars
  BY <1>1, <1>6 DEF ChainInv, ChainKnows, ChainCourse, Chain!CanForward, Chain!RightValue,
       Chain!OneValue, Chain!NothingWithheld, Chain!vars, Chain!headerVars, Chain!filterVars
<1> QED BY <1>2, <1>3, <1>4, <1>5, <1>6 DEF Chain!Next

-------------------------------------------------------------------------------
(* BrowserHeaders                                                            *)

(* How far each target of the chain was from the source, and the word that   *)
(* is true of them all.                                                      *)
Been == {Metadata!FetchSite(source, u) : u \in visited}
Near == {"same-origin", "same-site", "cross-site"}
Tells(s) == /\ s \in Been
            /\ "cross-site" \in Been => s = "cross-site"
            /\ Been = {"same-origin", "same-site"} => s = "same-site"

HeaderInv ==
  /\ Metadata!TypeOK
  /\ mode \in Metadata!Modes
  /\ source \in Targets \cup {NoURL, "null"}
  /\ IF mode = "identity" THEN site = "absent" ELSE Tells(site)
  /\ sent = Metadata!Headers(target, site)

(* From a source that is no URL every target is as far; from any other there *)
(* are the three distances.                                                  *)
LEMMA Distances ==
  ASSUME PartsAssumption, source \in Targets \cup {NoURL, "null"},
         NEW u \in Targets
  PROVE  /\ source = NoURL /\ mode = "navigation" => Metadata!FetchSite(source, u) = "none"
         /\ source = NoURL /\ mode # "navigation" => Metadata!FetchSite(source, u) = "absent"
         /\ source = "null" => Metadata!FetchSite(source, u) = "cross-site"
         /\ source \in Targets => Metadata!FetchSite(source, u) \in Near
<1> NoURL \notin Targets /\ "null" \notin Targets \cup {NoURL}
  BY DEF PartsAssumption, Metadata!URLsAssumption
<1> QED BY DEF Metadata!FetchSite, Near

(* One word only is true of the chain.                                       *)
LEMMA OneWord ==
  ASSUME PartsAssumption, source \in Targets \cup {NoURL, "null"}, visited \subseteq Targets,
         NEW s, NEW t, Tells(s), Tells(t)
  PROVE  s = t
<1>1. CASE source \in Targets
  <2>1. Been \subseteq Near
    BY <1>1, Distances DEF Been
  <2>2. CASE "cross-site" \in Been
    BY <2>2 DEF Tells
  <2>3. CASE "cross-site" \notin Been /\ s # t
    <3>1. Been = {"same-origin", "same-site"}
      BY <2>1, <2>3 DEF Tells, Near
    <3> QED BY <3>1 DEF Tells
  <2> QED BY <2>2, <2>3
<1>2. CASE source \in {NoURL, "null"}
  <2>1. PICK d : \A u \in Targets : Metadata!FetchSite(source, u) = d
    BY <1>2, Distances
  <2>2. \A b \in Been : b = d
    BY <2>1 DEF Been
  <2> QED BY <2>2 DEF Tells
<1> QED BY <1>1, <1>2

(* Redirecting farther keeps the word true: Farther takes the greater of two *)
(* distances.                                                                *)
LEMMA FartherTells ==
  ASSUME PartsAssumption, source \in Targets \cup {NoURL, "null"}, visited \subseteq Targets,
         NEW next \in Targets, Tells(site), visited' = visited \cup {next},
         source' = source, mode' = mode,
         site' = Metadata!Farther(site, Metadata!FetchSite(source, next))
  PROVE  Tells(site)'
<1> DEFINE now == Metadata!FetchSite(source, next)
<1>1. Been' = Been \cup {now}
  <2>1. \A u : Metadata!FetchSite(source, u)' = Metadata!FetchSite(source, u)
    BY DEF Metadata!FetchSite
  <2> QED BY <2>1 DEF Been
<1>2. site' = Metadata!Farther(site, now)
  OBVIOUS
<1>3. CASE source \in Targets
  <2>1. now \in Near /\ Been \subseteq Near
    BY <1>3, Distances DEF Been
  <2> HIDE DEF now
  <2>2. site \in Near
    BY <2>1 DEF Tells
  <2>3. CASE site = "cross-site"
    <3>1. site' = "cross-site"
      BY <1>2, <2>3 DEF Metadata!Farther
    <3> QED BY <1>1, <2>3, <3>1 DEF Tells
  <2>4. CASE now = "cross-site" /\ site # "cross-site"
    <3>1. site' = "cross-site"
      BY <1>2, <2>2, <2>4 DEF Metadata!Farther, Near
    <3> QED BY <1>1, <2>4, <3>1 DEF Tells
  <2>5. CASE now # "cross-site" /\ site = "same-site"
    <3>1. site' = "same-site"
      BY <1>2, <2>5 DEF Metadata!Farther
    <3>2. "cross-site" \notin Been
      BY <2>5 DEF Tells
    <3> QED BY <1>1, <2>5, <3>1, <3>2 DEF Tells
  <2>6. CASE now # "cross-site" /\ site = "same-origin"
    <3>1. site' = now
      BY <1>2, <2>6 DEF Metadata!Farther
    <3>2. Been = {"same-origin"}
      BY <2>1, <2>6 DEF Tells, Near
    <3>3. Been' = {"same-origin", now} /\ now \in {"same-origin", "same-site"}
      BY <1>1, <2>1, <2>6, <3>2 DEF Near
    <3> QED BY <3>1, <3>3 DEF Tells
  <2> QED BY <2>1, <2>2, <2>3, <2>4, <2>5, <2>6 DEF Near
<1>4. CASE source \in {NoURL, "null"}
  <2>1. PICK d \in {"none", "absent", "cross-site"} :
          \A u \in Targets : Metadata!FetchSite(source, u) = d
    BY <1>4, Distances
  <2>2. now = d /\ \A b \in Been : b = d
    BY <2>1 DEF Been
  <2> HIDE DEF now
  <2>3. site = d /\ Been = {d}
    BY <2>2 DEF Tells
  <2>4. site' = d /\ Been' = {d}
    BY <1>1, <1>2, <2>2, <2>3 DEF Metadata!Farther
  <2> QED BY <2>1, <2>4 DEF Tells
<1> QED BY <1>3, <1>4

(* The distances have a name in Sec-Fetch-Site.                              *)
LEMMA KnownSites ==
  ASSUME PartsAssumption, source \in Targets \cup {NoURL, "null"}, NEW u \in Targets
  PROVE  Metadata!FetchSite(source, u) \in
           {"absent", "none", "same-origin", "same-site", "cross-site"}
BY Distances DEF Near

(* A request begins with the invariant.                                      *)
LEMMA HeaderStart == PartsAssumption /\ Metadata!Init => HeaderInv
<1> SUFFICES ASSUME PartsAssumption, Metadata!Init PROVE HeaderInv
  OBVIOUS
<1>1. /\ mode \in Metadata!Modes /\ target \in Targets /\ visited = {target}
      /\ referer \in Targets \cup {NoURL} /\ sent = Metadata!Headers(target, site)
  BY DEF Metadata!Init
<1>2. source \in Targets \cup {NoURL, "null"}
  BY DEF Metadata!Init
<1>3. site = IF mode = "identity" THEN "absent" ELSE Metadata!FetchSite(source, target)
  BY DEF Metadata!Init
<1>4. Metadata!TypeOK
  BY <1>1, <1>2, <1>3, KnownSites DEF Metadata!TypeOK
<1>5. CASE mode # "identity"
  <2>1. Been = {site}
    BY <1>1, <1>3, <1>5 DEF Been
  <2>2. ~ ({site} = {"same-origin", "same-site"})
    OBVIOUS
  <2> QED BY <1>1, <1>2, <1>4, <1>5, <2>1, <2>2 DEF HeaderInv, Tells
<1> QED BY <1>1, <1>2, <1>3, <1>4, <1>5 DEF HeaderInv

(* Every redirect keeps the invariant.                                       *)
LEMMA HeaderStep ==
  PartsAssumption /\ HeaderInv /\ [Metadata!Next]_(Metadata!headerVars) => HeaderInv'
<1> SUFFICES ASSUME PartsAssumption, HeaderInv, [Metadata!Next]_(Metadata!headerVars)
             PROVE  HeaderInv'
  OBVIOUS
<1>1. ASSUME NEW next \in Targets, Metadata!Redirect(next) PROVE HeaderInv'
  <2>1. /\ target' = next /\ visited' = visited \cup {next} /\ mode' = mode
        /\ source' = source /\ given' = given
        /\ referer' \in {NoURL, target} /\ sent' = Metadata!Headers(next, site')
        /\ site' = IF mode = "identity" THEN site
                   ELSE Metadata!Farther(site, Metadata!FetchSite(source, next))
    BY <1>1 DEF Metadata!Redirect
  <2>2. target \in Targets /\ visited \subseteq Targets
    BY DEF HeaderInv, Metadata!TypeOK
  <2>3. IF mode' = "identity" THEN site' = "absent" ELSE Tells(site)'
    <3>1. CASE mode = "identity"
      BY <2>1, <3>1 DEF HeaderInv
    <3>2. CASE mode # "identity"
      BY <2>1, <2>2, <3>2, FartherTells DEF HeaderInv
    <3> QED BY <2>1, <3>1, <3>2
  <2>4. site' \in {"absent", "none", "same-origin", "same-site", "cross-site"}
    BY <2>1, KnownSites DEF HeaderInv, Metadata!TypeOK, Metadata!Farther
  <2>5. (sent = Metadata!Headers(target, site))'
    BY <2>1 DEF Metadata!Headers, Metadata!Keys, Metadata!Trusted
  <2>6. Metadata!TypeOK'
    BY <2>1, <2>2, <2>4 DEF Metadata!TypeOK
  <2> QED BY <2>1, <2>3, <2>5, <2>6 DEF HeaderInv
<1>2. CASE UNCHANGED Metadata!headerVars
  <2>1. /\ target' = target /\ visited' = visited /\ mode' = mode /\ source' = source
        /\ given' = given /\ referer' = referer /\ sent' = sent /\ site' = site
    BY <1>2 DEF Metadata!headerVars
  <2>2. Been' = Been
    BY <2>1 DEF Been, Metadata!FetchSite
  <2>3. Tells(site)' <=> Tells(site)
    BY <2>1, <2>2 DEF Tells
  <2> QED BY <2>1, <2>3 DEF HeaderInv, Metadata!TypeOK, Metadata!Headers, Metadata!Keys, Metadata!Trusted
<1> QED BY <1>1, <1>2 DEF Metadata!Next

(* The word that is true is the one SiteIsHonest chooses.                    *)
LEMMA HeadersTell ==
  PartsAssumption /\ HeaderInv => Metadata!SiteIsHonest /\ Metadata!HintsFollowTrust
<1> SUFFICES ASSUME PartsAssumption, HeaderInv
             PROVE  Metadata!SiteIsHonest /\ Metadata!HintsFollowTrust
  OBVIOUS
<1>0. sent = Metadata!Headers(target, site) /\ target \in Targets /\ visited \subseteq Targets
  BY DEF HeaderInv, Metadata!TypeOK
<1>1. ASSUME "site" \notin given
      PROVE  sent["site"] = IF target \in Metadata!Trusted THEN site ELSE "absent"
  BY <1>0, <1>1 DEF Metadata!Headers, Metadata!Keys
<1>2. ASSUME "hints" \notin given
      PROVE  sent["hints"] = "generated" <=> target \in Metadata!Trusted
  BY <1>0, <1>2 DEF Metadata!Headers, Metadata!Keys
<1>3. ASSUME mode # "identity" PROVE Metadata!Farthest = site
  <2>1. Tells(site)
    BY <1>3 DEF HeaderInv
  <2> DEFINE P(s) == /\ "cross-site" \in Been => s = "cross-site"
                     /\ Been = {"same-origin", "same-site"} => s = "same-site"
  <2>2. Metadata!Farthest = CHOOSE s \in Been : P(s)
    BY DEF Metadata!Farthest, Been
  <2>3. \E s \in Been : P(s)
    BY <2>1 DEF Tells
  <2>4. Metadata!Farthest \in Been /\ P(Metadata!Farthest)
    <3> HIDE DEF P
    <3> QED BY <2>2, <2>3
  <2>5. Tells(Metadata!Farthest)
    BY <2>4 DEF Tells
  <2> QED BY <1>0, <2>1, <2>5, OneWord DEF HeaderInv
<1>4. mode = "identity" => site = "absent"
  BY DEF HeaderInv
<1> QED BY <1>1, <1>2, <1>3, <1>4 DEF Metadata!SiteIsHonest, Metadata!HintsFollowTrust

-------------------------------------------------------------------------------
(* WorkerPoolDefault                                                         *)

(* As long as no two SetDefaultMaxWorkers calls overlap, one at most is      *)
(* between the new default and the pool, with that default, and the default  *)
(* pool has it already or is the one that this call will resize.             *)
SetsInTurn ==
  ~ poolOverlap =>
    /\ \A c, d \in DefaultPool!Setting : c = d
    /\ \A c \in DefaultPool!Setting : poolCall[c].size = defaultMaxWorkers
    /\ DefaultPool!Live(defaultPool) =>
         \/ maxWorkers[defaultPool] = defaultMaxWorkers
         \/ \E c \in DefaultPool!Setting : poolCall[c].pool = defaultPool

PoolInv == DefaultPool!TypeOK /\ DefaultPool!NoPoolLeaks /\ SetsInTurn

(* What a call of the package may be.                                        *)
LEMMA PoolCallKinds ==
  ASSUME DefaultPool!TypeOK, NEW c \in Callers
  PROVE  /\ poolCall[c] = DefaultPool!Idle <=> poolCall[c].op = "idle"
         /\ poolCall[c].op \in {"use", "stop"} =>
              poolCall[c] \in [op : {"use", "stop"}, pool : DefaultPool!Created]
         /\ poolCall[c].op = "resize" =>
              poolCall[c] \in [op : {"resize"}, pool : DefaultPool!Created \cup {NoPool},
                               size : Nat \ {0}]
BY DEF DefaultPool!TypeOK, DefaultPool!Idle

(* The package begins with no pool.                                          *)
LEMMA PoolStart == PartsAssumption /\ DefaultPool!Init => PoolInv
<1> SUFFICES ASSUME PartsAssumption, DefaultPool!Init PROVE PoolInv
  OBVIOUS
<1>0. Sizes \subseteq Int /\ NoPool \notin Pools
  BY DEF PartsAssumption, DefaultPool!SizesAssumption, DefaultPool!NoPoolAssumption
<1>1. /\ defaultPool = NoPool /\ maxWorkers = [p \in Pools |-> 0]
      /\ poolStopped = [p \in Pools |-> FALSE] /\ poolOverlap = FALSE
      /\ poolCall = [c \in Callers |-> DefaultPool!Idle]
  BY DEF DefaultPool!Init
<1>2. defaultMaxWorkers \in Int /\ defaultMaxWorkers >= 1
  BY <1>0 DEF DefaultPool!Init, DefaultPool!Limit
<1>3. DefaultPool!Created = {} /\ ~ DefaultPool!Live(defaultPool)
  BY <1>1 DEF DefaultPool!Created, DefaultPool!Live
<1>4. DefaultPool!Setting = {}
  BY <1>1 DEF DefaultPool!Setting, DefaultPool!Idle
<1>6. \A c \in Callers : poolCall[c] = DefaultPool!Idle
  BY <1>1
<1>7. maxWorkers \in [Pools -> Nat] /\ poolStopped \in [Pools -> BOOLEAN] /\ poolOverlap \in BOOLEAN
  BY <1>1
<1>5. DefaultPool!TypeOK
  BY <1>1, <1>2, <1>6, <1>7 DEF DefaultPool!TypeOK
<1> QED BY <1>3, <1>4, <1>5 DEF PoolInv, DefaultPool!NoPoolLeaks, SetsInTurn

(* The call of a caller that goes somewhere else.                            *)
LEMMA PoolCalls ==
  ASSUME DefaultPool!TypeOK, NEW c \in Callers, NEW k, poolCall' = [poolCall EXCEPT ![c] = k]
  PROVE  poolCall'[c] = k /\ \A d \in Callers : d # c => poolCall'[d] = poolCall[d]
BY DEF DefaultPool!TypeOK

(* The types after a step: who calls goes on with a pool that is there.      *)
LEMMA PoolTypes ==
  ASSUME PartsAssumption, DefaultPool!TypeOK, NEW c \in Callers, NEW k,
         poolCall' = [poolCall EXCEPT ![c] = k],
         k \in {DefaultPool!Idle} \cup [op : {"use", "stop"}, pool : DefaultPool!Created']
           \cup [op : {"resize"}, pool : DefaultPool!Created' \cup {NoPool}, size : Nat \ {0}],
         DefaultPool!Created \subseteq DefaultPool!Created'
  PROVE  (poolCall \in [Callers -> {DefaultPool!Idle}
            \cup [op : {"use", "stop"}, pool : DefaultPool!Created]
            \cup [op : {"resize"}, pool : DefaultPool!Created \cup {NoPool}, size : Nat \ {0}]])'
<1> DEFINE Was == {DefaultPool!Idle}
             \cup [op : {"use", "stop"}, pool : DefaultPool!Created]
             \cup [op : {"resize"}, pool : DefaultPool!Created \cup {NoPool}, size : Nat \ {0}]
           Is == {DefaultPool!Idle}
             \cup [op : {"use", "stop"}, pool : DefaultPool!Created']
             \cup [op : {"resize"}, pool : DefaultPool!Created' \cup {NoPool}, size : Nat \ {0}]
<1>1. Was \subseteq Is
  OBVIOUS
<1>2. poolCall \in [Callers -> Was] /\ k \in Is
  BY DEF DefaultPool!TypeOK
<1>3. DefaultPool!Idle' = DefaultPool!Idle
  BY DEF DefaultPool!Idle
<1> HIDE DEF Was, Is
<1>4. poolCall' \in [Callers -> Is]
  BY <1>1, <1>2
<1> QED BY <1>3, <1>4 DEF Is

(* Default hands out the live pool, or a new one with the limit.             *)
LEMMA PoolDefault ==
  ASSUME PartsAssumption, PoolInv, NEW c \in Callers, DefaultPool!Default(c)
  PROVE  PoolInv'
<1> DEFINE k == [op |-> "use", pool |-> defaultPool']
<1>0. DefaultPool!TypeOK /\ NoPool \notin Pools
  BY DEF PoolInv, PartsAssumption, DefaultPool!NoPoolAssumption
<1>1. /\ poolCall' = [poolCall EXCEPT ![c] = k] /\ poolCall[c] = DefaultPool!Idle
      /\ UNCHANGED <<defaultMaxWorkers, poolStopped, poolOverlap>>
  BY DEF DefaultPool!Default
<1>2. poolCall'[c] = k /\ \A d \in Callers : d # c => poolCall'[d] = poolCall[d]
  <2> HIDE DEF k
  <2> QED BY <1>0, <1>1, PoolCalls
<1>3. /\ DefaultPool!Created \subseteq DefaultPool!Created'
      /\ maxWorkers' \in [Pools -> Nat] /\ defaultPool' \in DefaultPool!Created'
      /\ \A p \in DefaultPool!Created' : p \in DefaultPool!Created \/ p = defaultPool'
      /\ \/ defaultPool' = defaultPool /\ maxWorkers' = maxWorkers
         \/ ~ DefaultPool!Live(defaultPool) /\ maxWorkers'[defaultPool'] = defaultMaxWorkers
  <2>1. CASE DefaultPool!Live(defaultPool)
    <3>1. defaultPool' = defaultPool /\ maxWorkers' = maxWorkers
      BY <2>1 DEF DefaultPool!Default
    <3>2. DefaultPool!Created' = DefaultPool!Created
      BY <3>1 DEF DefaultPool!Created
    <3>3. defaultPool \in DefaultPool!Created
      BY <1>0, <2>1 DEF DefaultPool!TypeOK, DefaultPool!Live
    <3> QED BY <1>0, <3>1, <3>2, <3>3 DEF DefaultPool!TypeOK
  <2>2. CASE ~ DefaultPool!Live(defaultPool)
    <3>1. PICK p \in Pools : /\ maxWorkers[p] = 0 /\ defaultPool' = p
                             /\ maxWorkers' = [maxWorkers EXCEPT ![p] = defaultMaxWorkers]
      BY <2>2 DEF DefaultPool!Default
    <3>2. defaultMaxWorkers \in Nat /\ defaultMaxWorkers # 0 /\ maxWorkers \in [Pools -> Nat]
      BY <1>0 DEF DefaultPool!TypeOK
    <3>3. DefaultPool!Created' = DefaultPool!Created \cup {p}
      BY <3>1, <3>2 DEF DefaultPool!Created
    <3> QED BY <2>2, <3>1, <3>2, <3>3
  <2> QED BY <2>1, <2>2
<1>4. DefaultPool!TypeOK'
  <2>1. k \in [op : {"use", "stop"}, pool : DefaultPool!Created']
    BY <1>3
  <2> HIDE DEF k
  <2>2. (poolCall \in [Callers -> {DefaultPool!Idle}
            \cup [op : {"use", "stop"}, pool : DefaultPool!Created]
            \cup [op : {"resize"}, pool : DefaultPool!Created \cup {NoPool}, size : Nat \ {0}]])'
    BY <1>0, <1>1, <1>3, <2>1, PoolTypes
  <2> QED BY <1>0, <1>1, <1>3, <2>2 DEF DefaultPool!TypeOK
<1>5. DefaultPool!NoPoolLeaks'
  <2>1. ASSUME NEW p \in DefaultPool!Created, ~ poolStopped[p], p # defaultPool'
        PROVE  \E d \in Callers : poolCall'[d] = [op |-> "stop", pool |-> p]
    <3>0. p # NoPool
      BY <1>0 DEF DefaultPool!Created
    <3>1. p # defaultPool
      BY <1>3, <2>1, <3>0 DEF DefaultPool!Live
    <3>2. PICK d \in Callers : poolCall[d] = [op |-> "stop", pool |-> p]
      BY <2>1, <3>0, <3>1 DEF PoolInv, DefaultPool!NoPoolLeaks, DefaultPool!Live
    <3>3. d # c
      BY <1>1, <3>2 DEF DefaultPool!Idle
    <3> QED BY <1>2, <3>2, <3>3
  <2> QED BY <1>1, <1>3, <2>1 DEF DefaultPool!NoPoolLeaks, DefaultPool!Live
<1>6. SetsInTurn'
  <2>1. DefaultPool!Setting' = DefaultPool!Setting
    BY <1>1, <1>2 DEF DefaultPool!Setting, DefaultPool!Idle
  <2>2. \A d \in DefaultPool!Setting : poolCall'[d] = poolCall[d]
    BY <1>1, <1>2 DEF DefaultPool!Setting, DefaultPool!Idle
  <2>3. DefaultPool!Live(defaultPool)' /\ defaultPool' = defaultPool => DefaultPool!Live(defaultPool)
    BY <1>1 DEF DefaultPool!Live
  <2> HIDE DEF k
  <2> QED BY <1>1, <1>3, <2>1, <2>2, <2>3 DEF PoolInv, SetsInTurn
<1> QED BY <1>4, <1>5, <1>6 DEF PoolInv

(* A step that leaves defaults and pools alone but for a pool that stops,    *)
(* ends the call and keeps the invariant, if no other pool loses its Stop.   *)
LEMMA PoolCallEnds ==
  ASSUME PartsAssumption, PoolInv, NEW c \in Callers,
         poolCall' = [poolCall EXCEPT ![c] = DefaultPool!Idle],
         UNCHANGED <<defaultPool, defaultMaxWorkers, maxWorkers, poolOverlap>>,
         poolCall[c].op # "resize",
         poolStopped' \in {poolStopped, [poolStopped EXCEPT ![poolCall[c].pool] = TRUE]},
         poolCall[c].op = "stop" => poolStopped' # poolStopped
                                    \/ poolStopped[poolCall[c].pool]
  PROVE  PoolInv'
<1>0. DefaultPool!TypeOK
  BY DEF PoolInv
<1>1. poolCall'[c] = DefaultPool!Idle /\ \A d \in Callers : d # c => poolCall'[d] = poolCall[d]
  BY <1>0, PoolCalls
<1>2. DefaultPool!Created' = DefaultPool!Created
  BY DEF DefaultPool!Created
<1>3. poolStopped' \in [Pools -> BOOLEAN] /\ \A p \in Pools : poolStopped[p] => poolStopped'[p]
  <2>1. poolStopped \in [Pools -> BOOLEAN]
    BY <1>0 DEF DefaultPool!TypeOK
  <2> QED BY <2>1, Zenon
<1>4. DefaultPool!TypeOK'
  <2>1. (poolCall \in [Callers -> {DefaultPool!Idle}
            \cup [op : {"use", "stop"}, pool : DefaultPool!Created]
            \cup [op : {"resize"}, pool : DefaultPool!Created \cup {NoPool}, size : Nat \ {0}]])'
    BY <1>0, <1>2, PoolTypes
  <2> QED BY <1>0, <1>2, <1>3, <2>1 DEF DefaultPool!TypeOK
<1>5. DefaultPool!NoPoolLeaks'
  <2>1. ASSUME NEW p \in DefaultPool!Created, ~ poolStopped'[p], p # NoPool, p # defaultPool
        PROVE  \E d \in Callers : poolCall'[d] = [op |-> "stop", pool |-> p]
    <3>1. ~ poolStopped[p]
      BY <1>3, <2>1 DEF DefaultPool!Created
    <3>2. PICK d \in Callers : poolCall[d] = [op |-> "stop", pool |-> p]
      BY <2>1, <3>1 DEF PoolInv, DefaultPool!NoPoolLeaks, DefaultPool!Live
    <3>3. d # c
      <4> SUFFICES ASSUME d = c PROVE FALSE
        OBVIOUS
      <4>1. poolCall[c].op = "stop" /\ poolCall[c].pool = p
        BY <3>2
      <4>2. poolStopped' = [poolStopped EXCEPT ![p] = TRUE]
        BY <3>1, <4>1
      <4>3. poolStopped'[p]
        BY <1>0, <4>2 DEF DefaultPool!TypeOK, DefaultPool!Created
      <4> QED BY <2>1, <4>3
    <3> QED BY <1>1, <3>2, <3>3
  <2> QED BY <1>2, <2>1 DEF DefaultPool!NoPoolLeaks, DefaultPool!Live
<1>6. SetsInTurn'
  <2>1. /\ DefaultPool!Setting' = DefaultPool!Setting
        /\ \A d \in DefaultPool!Setting : poolCall'[d] = poolCall[d]
    BY <1>1 DEF DefaultPool!Setting, DefaultPool!Idle
  <2>2. DefaultPool!Live(defaultPool)' => DefaultPool!Live(defaultPool)
    <3>1. defaultPool = NoPool \/ defaultPool \in Pools
      BY <1>0 DEF DefaultPool!TypeOK, DefaultPool!Created
    <3> QED BY <1>3, <3>1 DEF DefaultPool!Live
  <2> QED BY <2>1, <2>2 DEF PoolInv, SetsInTurn
<1> QED BY <1>4, <1>5, <1>6 DEF PoolInv

(* SetDefaultMaxWorkers stores the default and takes the pool.               *)
LEMMA PoolSetStore ==
  ASSUME PartsAssumption, PoolInv, NEW c \in Callers, DefaultPool!SetStore(c)
  PROVE  PoolInv'
<1>0. DefaultPool!TypeOK /\ Sizes \subseteq Int
  BY DEF PoolInv, PartsAssumption, DefaultPool!SizesAssumption
<1>1. PICK n \in Sizes :
        /\ defaultMaxWorkers' = DefaultPool!Limit(n)
        /\ poolCall' = [poolCall EXCEPT ![c] = [op |-> "resize", pool |-> defaultPool,
                                                size |-> DefaultPool!Limit(n)]]
  BY DEF DefaultPool!SetStore
<1> DEFINE k == [op |-> "resize", pool |-> defaultPool, size |-> defaultMaxWorkers']
<1>2. /\ defaultMaxWorkers' \in Nat \ {0} /\ poolCall[c] = DefaultPool!Idle
      /\ UNCHANGED <<defaultPool, maxWorkers, poolStopped>>
      /\ poolOverlap' = (poolOverlap \/ DefaultPool!Setting # {})
  BY <1>0, <1>1 DEF DefaultPool!Limit, DefaultPool!SetStore
<1>3. poolCall' = [poolCall EXCEPT ![c] = k]
  BY <1>1
<1>4. poolCall'[c] = k /\ \A d \in Callers : d # c => poolCall'[d] = poolCall[d]
  <2> HIDE DEF k
  <2> QED BY <1>0, <1>3, PoolCalls
<1>5. DefaultPool!Created' = DefaultPool!Created
  BY <1>2 DEF DefaultPool!Created
<1>6. DefaultPool!TypeOK'
  <2>1. k \in [op : {"resize"}, pool : DefaultPool!Created' \cup {NoPool}, size : Nat \ {0}]
    BY <1>0, <1>2, <1>5 DEF DefaultPool!TypeOK
  <2> HIDE DEF k
  <2>2. (poolCall \in [Callers -> {DefaultPool!Idle}
            \cup [op : {"use", "stop"}, pool : DefaultPool!Created]
            \cup [op : {"resize"}, pool : DefaultPool!Created \cup {NoPool}, size : Nat \ {0}]])'
    BY <1>0, <1>3, <1>5, <2>1, PoolTypes
  <2>3. poolOverlap' \in BOOLEAN
    BY <1>0, <1>2 DEF DefaultPool!TypeOK
  <2> QED BY <1>0, <1>2, <1>5, <2>2, <2>3 DEF DefaultPool!TypeOK
<1>7. DefaultPool!NoPoolLeaks'
  <2>1. ASSUME NEW p \in DefaultPool!Created, NEW d \in Callers,
               poolCall[d] = [op |-> "stop", pool |-> p]
        PROVE  poolCall'[d] = [op |-> "stop", pool |-> p]
    <3>1. d # c
      BY <1>2, <2>1 DEF DefaultPool!Idle
    <3> QED BY <1>4, <2>1, <3>1
  <2> QED BY <1>2, <1>5, <2>1 DEF PoolInv, DefaultPool!NoPoolLeaks, DefaultPool!Live
<1>8. SetsInTurn'
  <2>1. ASSUME DefaultPool!Setting = {} PROVE DefaultPool!Setting' = {c}
    BY <1>4, <2>1 DEF DefaultPool!Setting
  <2>2. poolCall'[c].size = defaultMaxWorkers' /\ poolCall'[c].pool = defaultPool'
    BY <1>2, <1>4
  <2> QED BY <1>2, <2>1, <2>2 DEF SetsInTurn
<1> QED BY <1>6, <1>7, <1>8 DEF PoolInv

(* And then resizes that pool.                                               *)
LEMMA PoolSetResize ==
  ASSUME PartsAssumption, PoolInv, NEW c \in Callers, DefaultPool!SetResize(c)
  PROVE  PoolInv'
<1>0. DefaultPool!TypeOK
  BY DEF PoolInv
<1> DEFINE q == poolCall[c].pool
           n == poolCall[c].size
<1>1. /\ poolCall[c].op = "resize" /\ poolCall' = [poolCall EXCEPT ![c] = DefaultPool!Idle]
      /\ maxWorkers' = IF DefaultPool!Live(q) THEN [maxWorkers EXCEPT ![q] = n] ELSE maxWorkers
      /\ UNCHANGED <<defaultPool, defaultMaxWorkers, poolStopped, poolOverlap>>
  BY DEF DefaultPool!SetResize
<1>2. q \in DefaultPool!Created \cup {NoPool} /\ n \in Nat \ {0}
  BY <1>0, <1>1, PoolCallKinds
<1> HIDE DEF q, n
<1>3. poolCall'[c] = DefaultPool!Idle /\ \A d \in Callers : d # c => poolCall'[d] = poolCall[d]
  BY <1>0, <1>1, PoolCalls
<1>4. /\ maxWorkers' \in [Pools -> Nat] /\ DefaultPool!Created' = DefaultPool!Created
      /\ \A p \in Pools : p # q => maxWorkers'[p] = maxWorkers[p]
      /\ q # NoPool /\ ~ poolStopped[q] => maxWorkers'[q] = n
  <2>1. maxWorkers \in [Pools -> Nat]
    BY <1>0 DEF DefaultPool!TypeOK
  <2>2. CASE DefaultPool!Live(q)
    <3>1. q \in Pools /\ maxWorkers[q] # 0
      BY <1>2, <2>2 DEF DefaultPool!Live, DefaultPool!Created
    <3>2. maxWorkers' = [maxWorkers EXCEPT ![q] = n]
      BY <1>1, <2>2
    <3> QED BY <1>2, <2>1, <3>1, <3>2 DEF DefaultPool!Created
  <2>3. CASE ~ DefaultPool!Live(q)
    <3>1. maxWorkers' = maxWorkers
      BY <1>1, <2>3
    <3> QED BY <2>1, <2>3, <3>1 DEF DefaultPool!Created, DefaultPool!Live
  <2> QED BY <2>2, <2>3
<1>5. DefaultPool!TypeOK'
  <2>1. (poolCall \in [Callers -> {DefaultPool!Idle}
            \cup [op : {"use", "stop"}, pool : DefaultPool!Created]
            \cup [op : {"resize"}, pool : DefaultPool!Created \cup {NoPool}, size : Nat \ {0}]])'
    BY <1>0, <1>1, <1>4, PoolTypes
  <2> QED BY <1>0, <1>1, <1>4, <2>1 DEF DefaultPool!TypeOK
<1>6. DefaultPool!NoPoolLeaks'
  <2>1. ASSUME NEW p \in DefaultPool!Created, NEW d \in Callers,
               poolCall[d] = [op |-> "stop", pool |-> p]
        PROVE  poolCall'[d] = [op |-> "stop", pool |-> p]
    <3>1. d # c
      BY <1>1, <2>1
    <3> QED BY <1>3, <2>1, <3>1
  <2> QED BY <1>1, <1>4, <2>1 DEF PoolInv, DefaultPool!NoPoolLeaks, DefaultPool!Live
<1>7. SetsInTurn'
  <2> SUFFICES ASSUME ~ poolOverlap PROVE SetsInTurn'
    BY <1>1 DEF SetsInTurn
  <2>1. c \in DefaultPool!Setting
    BY <1>1 DEF DefaultPool!Setting
  <2>2. \A d \in DefaultPool!Setting : d = c
    BY <2>1 DEF PoolInv, SetsInTurn
  <2>3. DefaultPool!Setting' = {}
    BY <1>3, <2>2 DEF DefaultPool!Setting, DefaultPool!Idle
  <2>4. n = defaultMaxWorkers
    BY <2>1 DEF PoolInv, SetsInTurn, n
  <2>5. ASSUME DefaultPool!Live(defaultPool) PROVE maxWorkers'[defaultPool] = defaultMaxWorkers
    <3>1. CASE q = defaultPool
      BY <1>4, <2>4, <2>5, <3>1 DEF DefaultPool!Live
    <3>2. CASE q # defaultPool
      <4>1. maxWorkers[defaultPool] = defaultMaxWorkers
        BY <2>2, <2>5, <3>2 DEF PoolInv, SetsInTurn, q
      <4>2. defaultPool \in Pools
        BY <1>0, <2>5 DEF DefaultPool!TypeOK, DefaultPool!Created, DefaultPool!Live
      <4> QED BY <1>4, <3>2, <4>1, <4>2
    <3> QED BY <3>1, <3>2
  <2> QED BY <1>1, <2>3, <2>5 DEF SetsInTurn, DefaultPool!Live
<1> QED BY <1>5, <1>6, <1>7 DEF PoolInv

(* Stop takes the pool away, and answers for it.                             *)
LEMMA PoolStopTake ==
  ASSUME PartsAssumption, PoolInv, NEW c \in Callers, DefaultPool!StopTake(c)
  PROVE  PoolInv'
<1>0. DefaultPool!TypeOK
  BY DEF PoolInv
<1> DEFINE k == [op |-> "stop", pool |-> defaultPool]
<1>1. /\ poolCall[c] = DefaultPool!Idle /\ defaultPool # NoPool /\ defaultPool' = NoPool
      /\ poolCall' = [poolCall EXCEPT ![c] = k]
      /\ UNCHANGED <<defaultMaxWorkers, maxWorkers, poolStopped, poolOverlap>>
  BY DEF DefaultPool!StopTake
<1>2. poolCall'[c] = k /\ \A d \in Callers : d # c => poolCall'[d] = poolCall[d]
  <2> HIDE DEF k
  <2> QED BY <1>0, <1>1, PoolCalls
<1>3. DefaultPool!Created' = DefaultPool!Created
  BY <1>1 DEF DefaultPool!Created
<1>4. DefaultPool!TypeOK'
  <2>1. k \in [op : {"use", "stop"}, pool : DefaultPool!Created']
    BY <1>0, <1>1, <1>3 DEF DefaultPool!TypeOK
  <2> HIDE DEF k
  <2>2. (poolCall \in [Callers -> {DefaultPool!Idle}
            \cup [op : {"use", "stop"}, pool : DefaultPool!Created]
            \cup [op : {"resize"}, pool : DefaultPool!Created \cup {NoPool}, size : Nat \ {0}]])'
    BY <1>0, <1>1, <1>3, <2>1, PoolTypes
  <2> QED BY <1>0, <1>1, <1>3, <2>2 DEF DefaultPool!TypeOK
<1>5. DefaultPool!NoPoolLeaks'
  <2>1. ASSUME NEW p \in DefaultPool!Created, ~ poolStopped[p], p # NoPool
        PROVE  \E d \in Callers : poolCall'[d] = [op |-> "stop", pool |-> p]
    <3>1. CASE p = defaultPool
      BY <1>2, <3>1
    <3>2. CASE p # defaultPool
      <4>1. PICK d \in Callers : poolCall[d] = [op |-> "stop", pool |-> p]
        BY <2>1, <3>2 DEF PoolInv, DefaultPool!NoPoolLeaks, DefaultPool!Live
      <4>2. d # c
        BY <1>1, <4>1 DEF DefaultPool!Idle
      <4> QED BY <1>2, <4>1, <4>2
    <3> QED BY <3>1, <3>2
  <2> QED BY <1>1, <1>3, <2>1 DEF DefaultPool!NoPoolLeaks, DefaultPool!Live
<1>6. SetsInTurn'
  <2>1. /\ DefaultPool!Setting' = DefaultPool!Setting
        /\ \A d \in DefaultPool!Setting : poolCall'[d] = poolCall[d]
    BY <1>1, <1>2 DEF DefaultPool!Setting, DefaultPool!Idle
  <2>2. ~ DefaultPool!Live(defaultPool)'
    BY <1>1 DEF DefaultPool!Live
  <2> HIDE DEF k
  <2> QED BY <1>1, <2>1, <2>2 DEF PoolInv, SetsInTurn
<1> QED BY <1>4, <1>5, <1>6 DEF PoolInv

(* Every step of the package keeps the invariant.                            *)
LEMMA PoolStep == PartsAssumption /\ PoolInv /\ [DefaultPool!Next]_(DefaultPool!vars) => PoolInv'
<1> SUFFICES ASSUME PartsAssumption, PoolInv, [DefaultPool!Next]_(DefaultPool!vars)
             PROVE  PoolInv'
  OBVIOUS
<1>1. ASSUME NEW c \in Callers, DefaultPool!Use(c) PROVE PoolInv'
  <2>1. /\ poolCall[c].op = "use" /\ poolCall' = [poolCall EXCEPT ![c] = DefaultPool!Idle]
        /\ poolStopped' \in {poolStopped, [poolStopped EXCEPT ![poolCall[c].pool] = TRUE]}
        /\ UNCHANGED <<defaultPool, defaultMaxWorkers, maxWorkers, poolOverlap>>
    BY <1>1 DEF DefaultPool!Use
  <2>2. poolCall[c].op # "resize" /\ poolCall[c].op # "stop"
    BY <2>1
  <2> QED BY <2>1, <2>2, PoolCallEnds
<1>2. ASSUME NEW c \in Callers, DefaultPool!StopPool(c) PROVE PoolInv'
  <2>1. /\ poolCall[c].op = "stop" /\ poolCall' = [poolCall EXCEPT ![c] = DefaultPool!Idle]
        /\ poolStopped' = [poolStopped EXCEPT ![poolCall[c].pool] = TRUE]
        /\ UNCHANGED <<defaultPool, defaultMaxWorkers, maxWorkers, poolOverlap>>
    BY <1>2 DEF DefaultPool!StopPool
  <2>2. poolCall[c].pool \in Pools
    BY <2>1, PoolCallKinds DEF PoolInv, DefaultPool!Created
  <2>3. poolStopped' # poolStopped \/ poolStopped[poolCall[c].pool]
    <3>1. poolStopped \in [Pools -> BOOLEAN]
      BY DEF PoolInv, DefaultPool!TypeOK
    <3>2. poolStopped'[poolCall[c].pool] = TRUE
      BY <2>1, <2>2, <3>1, Zenon
    <3> QED BY <3>2
  <2>4. poolCall[c].op # "resize"
    BY <2>1
  <2> QED BY <2>1, <2>3, <2>4, PoolCallEnds
<1>3. CASE UNCHANGED DefaultPool!vars
  <2>1. UNCHANGED <<defaultPool, defaultMaxWorkers, maxWorkers, poolStopped, poolCall, poolOverlap>>
    BY <1>3 DEF DefaultPool!vars
  <2>2. DefaultPool!Created' = DefaultPool!Created /\ DefaultPool!Setting' = DefaultPool!Setting
    BY <2>1 DEF DefaultPool!Created, DefaultPool!Setting
  <2>3. DefaultPool!Live(defaultPool)' <=> DefaultPool!Live(defaultPool)
    BY <2>1 DEF DefaultPool!Live
  <2>4. DefaultPool!TypeOK'
    BY <2>1, <2>2 DEF PoolInv, DefaultPool!TypeOK, DefaultPool!Idle
  <2>5. DefaultPool!NoPoolLeaks'
    BY <2>1, <2>2 DEF PoolInv, DefaultPool!NoPoolLeaks, DefaultPool!Live
  <2>6. SetsInTurn'
    BY <2>1, <2>2, <2>3 DEF PoolInv, SetsInTurn
  <2> QED BY <2>4, <2>5, <2>6 DEF PoolInv
<1> QED BY <1>1, <1>2, <1>3, PoolDefault, PoolSetStore, PoolSetResize, PoolStopTake DEF DefaultPool!Next

-------------------------------------------------------------------------------
(* FileWriterDefault                                                         *)

(* As long as no SetDefaultDir has overlapped with another or with the       *)
(* building of a writer, writers under way are for the default directory,    *)
(* and the default writer is, or was not switched, or the SetDefaultDir under *)
(* way has it in hand.                                                       *)
DirsInTurn ==
  ~ writerOverlap =>
    /\ \A c, d \in DefaultWriter!Doing({"setDir"}) : c = d
    /\ DefaultWriter!Doing({"setDir"}) # {} => DefaultWriter!Doing({"build", "install"}) = {}
    /\ \A c \in DefaultWriter!Doing({"build", "setDir"}) : writerCall[c].dir = defaultDir
    /\ \A c \in DefaultWriter!Doing({"install"}) : dir[writerCall[c].writer] = defaultDir
    /\ DefaultWriter!Open(defaultWriter) =>
         \/ dir[defaultWriter] = defaultDir \/ defaultWriter \in writerUnswitched
         \/ \E c \in DefaultWriter!Doing({"setDir"}) : writerCall[c].writer = defaultWriter

WriterInv == DefaultWriter!TypeOK /\ DefaultWriter!NoWriterLeaks /\ DirsInTurn

(* What a call of the package may be, with writers of a set B.               *)
WriterCalls(B) == {DefaultWriter!Idle} \cup [op : {"build"}, dir : Dirs \cup {NoDir}]
  \cup [op : {"use", "install", "close"}, writer : B]
  \cup [op : {"setDir"}, writer : B \cup {NoWriter}, dir : Dirs]

(* What it has in each of its kinds.                                         *)
LEMMA WriterCallKinds ==
  ASSUME NEW B, NEW k \in WriterCalls(B)
  PROVE  /\ k.op \in {"idle", "build", "use", "install", "close", "setDir"}
         /\ k.op = "idle" => k = DefaultWriter!Idle
         /\ k.op = "build" => k.dir \in Dirs \cup {NoDir}
         /\ k.op \in {"use", "install", "close"} => k.writer \in B
         /\ k.op \in {"install", "close"} => k \in [op : {"install", "close"}, writer : {k.writer}]
         /\ k.op = "setDir" => k.writer \in B \cup {NoWriter} /\ k.dir \in Dirs
BY DEF WriterCalls, DefaultWriter!Idle

(* The types, in terms of these.                                             *)
LEMMA WriterTypes ==
  DefaultWriter!TypeOK <=>
    /\ defaultDir \in Dirs \cup {NoDir}
    /\ defaultWriter \in DefaultWriter!Built \cup {NoWriter}
    /\ dir \in [Writers -> Dirs \cup {NoDir, "unbuilt"}]
    /\ writerClosed \in [Writers -> BOOLEAN]
    /\ writerCall \in [Callers -> WriterCalls(DefaultWriter!Built)]
    /\ writerOverlap \in BOOLEAN /\ writerUnswitched \subseteq DefaultWriter!Built
BY DEF DefaultWriter!TypeOK, WriterCalls

(* The package begins with no writer.                                        *)
LEMMA WriterStart == PartsAssumption /\ DefaultWriter!Init => WriterInv
<1> SUFFICES ASSUME PartsAssumption, DefaultWriter!Init PROVE WriterInv
  OBVIOUS
<1>1. /\ defaultDir = NoDir /\ defaultWriter = NoWriter
      /\ dir = [w \in Writers |-> "unbuilt"] /\ writerClosed = [w \in Writers |-> FALSE]
      /\ writerCall = [c \in Callers |-> DefaultWriter!Idle] /\ writerOverlap = FALSE
      /\ writerUnswitched = {}
  BY DEF DefaultWriter!Init
<1>2. DefaultWriter!Built = {}
  BY <1>1 DEF DefaultWriter!Built
<1>3. \A c \in Callers : writerCall[c] = DefaultWriter!Idle
  BY <1>1
<1>4. \A ops : "idle" \notin ops => DefaultWriter!Doing(ops) = {}
  BY <1>3 DEF DefaultWriter!Doing, DefaultWriter!Idle
<1>5. DefaultWriter!TypeOK
  <2>1. writerClosed \in [Writers -> BOOLEAN] /\ writerOverlap \in BOOLEAN
    BY <1>1
  <2>2. writerCall \in [Callers -> WriterCalls(DefaultWriter!Built)]
    BY <1>1 DEF WriterCalls
  <2> QED BY <1>1, <2>1, <2>2, WriterTypes
<1>6. DefaultWriter!Doing({"setDir"}) = {} /\ DefaultWriter!Doing({"build", "setDir"}) = {}
      /\ DefaultWriter!Doing({"install"}) = {} /\ DefaultWriter!Doing({"build", "install"}) = {}
  BY <1>4
<1> QED BY <1>1, <1>2, <1>5, <1>6
    DEF WriterInv, DefaultWriter!NoWriterLeaks, DirsInTurn, DefaultWriter!Open

(* After a step of the call of one caller, with what is built by then.       *)
LEMMA WriterCallMoves ==
  ASSUME DefaultWriter!TypeOK, NEW c \in Callers, NEW k \in WriterCalls(DefaultWriter!Built'),
         writerCall' = [writerCall EXCEPT ![c] = k],
         DefaultWriter!Built \subseteq DefaultWriter!Built'
  PROVE  /\ (writerCall \in [Callers -> WriterCalls(DefaultWriter!Built)])'
         /\ writerCall'[c] = k
         /\ \A d \in Callers : d # c => writerCall'[d] = writerCall[d]
<1>1. writerCall \in [Callers -> WriterCalls(DefaultWriter!Built)]
  BY WriterTypes
<1>2. WriterCalls(DefaultWriter!Built) \subseteq WriterCalls(DefaultWriter!Built')
  BY DEF WriterCalls
<1>3. WriterCalls(DefaultWriter!Built') = WriterCalls(DefaultWriter!Built)'
  BY DEF WriterCalls, DefaultWriter!Idle
<1>4. writerCall' \in [Callers -> WriterCalls(DefaultWriter!Built')]
  BY <1>1, <1>2
<1> QED BY <1>1, <1>3, <1>4

(* A caller that does none of these before and after a step leaves their     *)
(* sets alone.                                                               *)
LEMMA WriterDoing ==
  ASSUME NEW c \in Callers, NEW ops,
         \A d \in Callers : d # c => writerCall'[d] = writerCall[d]
  PROVE  /\ writerCall[c].op \notin ops /\ writerCall'[c].op \notin ops =>
              DefaultWriter!Doing(ops)' = DefaultWriter!Doing(ops)
         /\ writerCall'[c].op \notin ops => DefaultWriter!Doing(ops)' \subseteq DefaultWriter!Doing(ops)
         /\ writerCall'[c].op \notin ops => c \notin DefaultWriter!Doing(ops)'
         /\ \A d \in DefaultWriter!Doing(ops)' : d # c => d \in DefaultWriter!Doing(ops)
BY DEF DefaultWriter!Doing

(* No writer is lost by a step that keeps who answered for it, or answers.   *)
LEMMA WriterLeaks ==
  ASSUME DefaultWriter!NoWriterLeaks, NEW c \in Callers,
         \A d \in Callers : d # c => writerCall'[d] = writerCall[d],
         \A w \in DefaultWriter!Built' : ~ writerClosed'[w] /\ w # defaultWriter' =>
           \/ writerCall'[c] \in [op : {"install", "close"}, writer : {w}]
           \/ /\ w \in DefaultWriter!Built /\ ~ writerClosed[w] /\ w # defaultWriter
              /\ writerCall[c] \notin [op : {"install", "close"}, writer : {w}]
  PROVE  DefaultWriter!NoWriterLeaks'
<1> SUFFICES ASSUME NEW w \in DefaultWriter!Built', ~ writerClosed'[w], w # defaultWriter'
             PROVE  \E d \in Callers : writerCall'[d] \in [op : {"install", "close"}, writer : {w}]
  BY DEF DefaultWriter!NoWriterLeaks
<1>1. CASE writerCall'[c] \in [op : {"install", "close"}, writer : {w}]
  BY <1>1
<1>2. CASE /\ w \in DefaultWriter!Built /\ ~ writerClosed[w] /\ w # defaultWriter
           /\ writerCall[c] \notin [op : {"install", "close"}, writer : {w}]
  <2>1. PICK d \in Callers : writerCall[d] \in [op : {"install", "close"}, writer : {w}]
    BY <1>2 DEF DefaultWriter!NoWriterLeaks
  <2>2. d # c
    BY <1>2, <2>1
  <2>3. writerCall'[d] = writerCall[d]
    BY <2>2
  <2> QED BY <2>1, <2>3
<1> QED BY <1>1, <1>2

(* Default looks for the writer.                                             *)
LEMMA WriterLook ==
  ASSUME PartsAssumption, WriterInv, NEW c \in Callers, DefaultWriter!Look(c)
  PROVE  WriterInv'
<1> DEFINE k == IF defaultWriter # NoWriter THEN [op |-> "use", writer |-> defaultWriter]
                ELSE [op |-> "build", dir |-> defaultDir]
<1>0. DefaultWriter!TypeOK
  BY DEF WriterInv
<1>1. /\ writerCall[c] = DefaultWriter!Idle /\ writerCall' = [writerCall EXCEPT ![c] = k]
      /\ UNCHANGED <<defaultDir, defaultWriter, dir, writerClosed, writerUnswitched>>
  BY DEF DefaultWriter!Look
<1>2. writerOverlap' = IF defaultWriter # NoWriter THEN writerOverlap
                       ELSE writerOverlap \/ DefaultWriter!Doing({"setDir"}) # {}
  BY DEF DefaultWriter!Look
<1>3. DefaultWriter!Built' = DefaultWriter!Built
  BY <1>1 DEF DefaultWriter!Built
<1>4. k \in WriterCalls(DefaultWriter!Built')
  BY <1>0, <1>3, WriterTypes DEF WriterCalls
<1>5. k.op = IF defaultWriter # NoWriter THEN "use" ELSE "build"
  OBVIOUS
<1>6. k.op = "build" => k.dir = defaultDir
  OBVIOUS
<1> HIDE DEF k
<1>7. /\ (writerCall \in [Callers -> WriterCalls(DefaultWriter!Built)])' /\ writerCall'[c] = k
      /\ \A d \in Callers : d # c => writerCall'[d] = writerCall[d]
  BY <1>0, <1>1, <1>3, <1>4, WriterCallMoves
<1>8. DefaultWriter!TypeOK'
  <2>1. writerOverlap' \in BOOLEAN
    BY <1>0, <1>2, WriterTypes
  <2> QED BY <1>0, <1>1, <1>3, <1>7, <2>1 DEF DefaultWriter!TypeOK, WriterCalls
<1>9. writerCall[c].op = "idle"
  BY <1>1 DEF DefaultWriter!Idle
<1>10. DefaultWriter!NoWriterLeaks'
  <2>1. \A w : writerCall[c] \notin [op : {"install", "close"}, writer : {w}]
    BY <1>9
  <2> QED BY <1>1, <1>3, <1>7, <2>1, WriterLeaks DEF WriterInv
<1>11. DirsInTurn'
  <2> SUFFICES ASSUME ~ writerOverlap' PROVE DirsInTurn'
    BY DEF DirsInTurn
  <2>1. ~ writerOverlap /\ (k.op = "build" => DefaultWriter!Doing({"setDir"}) = {})
    BY <1>2, <1>5
  <2>2. /\ DefaultWriter!Doing({"setDir"})' = DefaultWriter!Doing({"setDir"})
        /\ DefaultWriter!Doing({"install"})' = DefaultWriter!Doing({"install"})
    BY <1>5, <1>7, <1>9, WriterDoing
  <2>3. k.op = "use" =>
          DefaultWriter!Doing({"build", "install"})' = DefaultWriter!Doing({"build", "install"})
    BY <1>7, <1>9, WriterDoing
  <2>4. \A d \in DefaultWriter!Doing({"build", "setDir"})' :
          (d = c /\ k.op = "build") \/ (d # c /\ d \in DefaultWriter!Doing({"build", "setDir"}))
    BY <1>5, <1>7 DEF DefaultWriter!Doing
  <2>5. \A d \in DefaultWriter!Doing({"install"}) \cup DefaultWriter!Doing({"setDir"}) :
          writerCall'[d] = writerCall[d]
    BY <1>7, <1>9 DEF DefaultWriter!Doing
  <2>6. DefaultWriter!Open(defaultWriter)' <=> DefaultWriter!Open(defaultWriter)
    BY <1>1 DEF DefaultWriter!Open
  <2>7. \A d \in DefaultWriter!Doing({"build", "setDir"})' : writerCall'[d].dir = defaultDir'
    <3>1. \A d \in DefaultWriter!Doing({"build", "setDir"}) : d \in Callers
      BY DEF DefaultWriter!Doing
    <3> QED BY <1>1, <1>6, <1>7, <2>1, <2>4, <3>1 DEF WriterInv, DirsInTurn
  <2> QED BY <1>1, <1>5, <2>1, <2>2, <2>3, <2>5, <2>6, <2>7 DEF WriterInv, DirsInTurn
<1> QED BY <1>8, <1>10, <1>11 DEF WriterInv

(* New builds a writer in the directory that the first look found.           *)
LEMMA WriterBuild ==
  ASSUME PartsAssumption, WriterInv, NEW c \in Callers, DefaultWriter!Build(c)
  PROVE  WriterInv'
<1>0. DefaultWriter!TypeOK /\ "unbuilt" \notin Dirs \cup {NoDir} /\ NoWriter \notin Writers
  BY DEF WriterInv, PartsAssumption, DefaultWriter!NamesAssumption
<1>1. PICK w \in Writers \ DefaultWriter!Built :
        /\ dir' = [dir EXCEPT ![w] = writerCall[c].dir]
        /\ writerCall' = [writerCall EXCEPT ![c] = [op |-> "install", writer |-> w]]
  BY DEF DefaultWriter!Build
<1> DEFINE k == [op |-> "install", writer |-> w]
<1>2. writerCall[c].op = "build" /\ UNCHANGED <<defaultDir, defaultWriter, writerClosed, writerOverlap,
                                             writerUnswitched>>
  BY DEF DefaultWriter!Build, DefaultWriter!historyVars
<1>3. writerCall[c].dir \in Dirs \cup {NoDir}
  BY <1>0, <1>2, WriterTypes, WriterCallKinds
<1>4. /\ dir' \in [Writers -> Dirs \cup {NoDir, "unbuilt"}] /\ dir'[w] = writerCall[c].dir
      /\ \A v \in Writers : v # w => dir'[v] = dir[v]
      /\ DefaultWriter!Built' = DefaultWriter!Built \cup {w}
  <2>1. dir \in [Writers -> Dirs \cup {NoDir, "unbuilt"}]
    BY <1>0, WriterTypes
  <2>2. dir' \in [Writers -> Dirs \cup {NoDir, "unbuilt"}] /\ dir'[w] = writerCall[c].dir
    BY <1>1, <1>3, <2>1
  <2>3. \A v \in Writers : v # w => dir'[v] = dir[v]
    BY <1>1, <2>1
  <2>4. dir'[w] # "unbuilt"
    BY <1>0, <1>3, <2>2
  <2> QED BY <2>2, <2>3, <2>4 DEF DefaultWriter!Built
<1>5. k \in WriterCalls(DefaultWriter!Built') /\ k.op = "install" /\ k.writer = w
      /\ k \in [op : {"install", "close"}, writer : {w}]
  BY <1>4 DEF WriterCalls
<1>6. writerCall' = [writerCall EXCEPT ![c] = k]
  BY <1>1
<1> HIDE DEF k
<1>7. /\ (writerCall \in [Callers -> WriterCalls(DefaultWriter!Built)])' /\ writerCall'[c] = k
      /\ \A d \in Callers : d # c => writerCall'[d] = writerCall[d]
  BY <1>0, <1>4, <1>5, <1>6, WriterCallMoves
<1>8. DefaultWriter!TypeOK'
  <2>1. defaultWriter \in DefaultWriter!Built \cup {NoWriter}
    BY <1>0, WriterTypes
  <2> QED BY <1>0, <1>2, <1>4, <1>7, <2>1 DEF DefaultWriter!TypeOK, WriterCalls
<1>9. DefaultWriter!NoWriterLeaks'
  <2>1. \A v : writerCall[c] \notin [op : {"install", "close"}, writer : {v}]
    BY <1>2
  <2> QED BY <1>2, <1>4, <1>5, <1>7, <2>1, WriterLeaks DEF WriterInv
<1>10. DirsInTurn'
  <2> SUFFICES ASSUME ~ writerOverlap' PROVE DirsInTurn'
    BY DEF DirsInTurn
  <2>1. c \in DefaultWriter!Doing({"build", "install"}) /\ c \in DefaultWriter!Doing({"build", "setDir"})
    BY <1>2 DEF DefaultWriter!Doing
  <2>2. /\ DefaultWriter!Doing({"setDir"}) = {} /\ writerCall[c].dir = defaultDir
    BY <1>2, <2>1 DEF WriterInv, DirsInTurn
  <2>3. DefaultWriter!Doing({"setDir"})' = {}
    BY <1>2, <1>5, <1>7, <2>2, WriterDoing
  <2>4. \A d \in DefaultWriter!Doing({"build", "setDir"})' : writerCall'[d].dir = defaultDir'
    <3>1. ASSUME NEW d \in DefaultWriter!Doing({"build", "setDir"})'
          PROVE  writerCall'[d].dir = defaultDir'
      <4>1. d # c /\ d \in Callers
        BY <1>5, <1>7 DEF DefaultWriter!Doing
      <4>2. d \in DefaultWriter!Doing({"build", "setDir"})
        BY <1>7, <4>1 DEF DefaultWriter!Doing
      <4> QED BY <1>2, <1>7, <4>1, <4>2 DEF WriterInv, DirsInTurn
    <3> QED BY <3>1
  <2>5. ASSUME NEW d \in DefaultWriter!Doing({"install"})'
        PROVE  dir'[writerCall'[d].writer] = defaultDir'
    <3>1. CASE d = c
      BY <1>2, <1>4, <1>5, <1>7, <2>2, <3>1
    <3>2. CASE d # c
      <4>1. d \in Callers /\ writerCall'[d] = writerCall[d] /\ d \in DefaultWriter!Doing({"install"})
        BY <1>7, <3>2 DEF DefaultWriter!Doing
      <4>2. writerCall[d].op = "install" /\ writerCall[d] \in WriterCalls(DefaultWriter!Built)
        BY <1>0, <4>1, WriterTypes DEF DefaultWriter!Doing
      <4>3. writerCall[d].writer \in DefaultWriter!Built
        BY <4>2, WriterCallKinds
      <4>4. writerCall[d].writer \in Writers /\ writerCall[d].writer # w
        BY <4>3 DEF DefaultWriter!Built
      <4>5. dir[writerCall[d].writer] = defaultDir
        BY <1>2, <4>1 DEF WriterInv, DirsInTurn
      <4> QED BY <1>2, <1>4, <4>1, <4>4, <4>5
    <3> QED BY <3>1, <3>2
  <2>6. ASSUME DefaultWriter!Open(defaultWriter)'
        PROVE  dir'[defaultWriter'] = defaultDir' \/ defaultWriter' \in writerUnswitched'
    <3>1. DefaultWriter!Open(defaultWriter)
      BY <1>2, <2>6 DEF DefaultWriter!Open
    <3>2. dir[defaultWriter] = defaultDir \/ defaultWriter \in writerUnswitched
      BY <1>2, <2>2, <3>1 DEF WriterInv, DirsInTurn
    <3>3. defaultWriter \in DefaultWriter!Built
      BY <1>0, <3>1, WriterTypes DEF DefaultWriter!Open
    <3>4. defaultWriter \in Writers /\ defaultWriter # w
      BY <3>3 DEF DefaultWriter!Built
    <3> QED BY <1>2, <1>4, <3>2, <3>4
  <2> QED BY <2>3, <2>4, <2>5, <2>6 DEF DirsInTurn
<1> QED BY <1>8, <1>9, <1>10 DEF WriterInv

(* Default that cannot build one returns the error.                          *)
LEMMA WriterBuildFails ==
  ASSUME PartsAssumption, WriterInv, NEW c \in Callers, DefaultWriter!BuildFails(c)
  PROVE  WriterInv'
<1> DEFINE k == DefaultWriter!Idle
<1>0. DefaultWriter!TypeOK
  BY DEF WriterInv
<1>1. /\ writerCall[c].op = "build" /\ writerCall' = [writerCall EXCEPT ![c] = k]
      /\ UNCHANGED <<defaultDir, defaultWriter, dir, writerClosed, writerOverlap,
                     writerUnswitched>>
  BY DEF DefaultWriter!BuildFails, DefaultWriter!historyVars
<1>2. DefaultWriter!Built' = DefaultWriter!Built
  BY <1>1 DEF DefaultWriter!Built
<1>3. k \in WriterCalls(DefaultWriter!Built') /\ k.op = "idle"
  BY DEF WriterCalls, DefaultWriter!Idle
<1> HIDE DEF k
<1>4. /\ (writerCall \in [Callers -> WriterCalls(DefaultWriter!Built)])' /\ writerCall'[c] = k
      /\ \A d \in Callers : d # c => writerCall'[d] = writerCall[d]
  BY <1>0, <1>1, <1>2, <1>3, WriterCallMoves
<1>5. DefaultWriter!TypeOK'
  BY <1>0, <1>1, <1>2, <1>4 DEF DefaultWriter!TypeOK, WriterCalls
<1>6. DefaultWriter!NoWriterLeaks'
  <2>1. \A w : writerCall[c] \notin [op : {"install", "close"}, writer : {w}]
    BY <1>1
  <2> QED BY <1>1, <1>2, <1>4, <2>1, WriterLeaks DEF WriterInv
<1>7. DirsInTurn'
  <2> SUFFICES ASSUME ~ writerOverlap' PROVE DirsInTurn'
    BY DEF DirsInTurn
  <2>1. /\ DefaultWriter!Doing({"setDir"})' = DefaultWriter!Doing({"setDir"})
        /\ DefaultWriter!Doing({"install"})' = DefaultWriter!Doing({"install"})
        /\ DefaultWriter!Doing({"build", "install"})' \subseteq DefaultWriter!Doing({"build", "install"})
        /\ DefaultWriter!Doing({"build", "setDir"})' \subseteq DefaultWriter!Doing({"build", "setDir"})
        /\ c \notin DefaultWriter!Doing({"build", "setDir"})'
    BY <1>1, <1>3, <1>4, WriterDoing
  <2>2. \A d \in DefaultWriter!Doing({"build", "setDir"})' \cup DefaultWriter!Doing({"install"})
                 \cup DefaultWriter!Doing({"setDir"}) : writerCall'[d] = writerCall[d]
    BY <1>1, <1>4, <2>1 DEF DefaultWriter!Doing
  <2>3. DefaultWriter!Open(defaultWriter)' <=> DefaultWriter!Open(defaultWriter)
    BY <1>1 DEF DefaultWriter!Open
  <2> QED BY <1>1, <2>1, <2>2, <2>3 DEF WriterInv, DirsInTurn
<1> QED BY <1>5, <1>6, <1>7 DEF WriterInv

(* A call that ends or goes on with a writer, where the only other change is *)
(* one of the writers that are closed.                                       *)
LEMMA WriterCloses ==
  ASSUME PartsAssumption, WriterInv, NEW c \in Callers,
         DefaultWriter!Use(c) \/ DefaultWriter!CloseWriter(c)
  PROVE  WriterInv'
<1> DEFINE k == DefaultWriter!Idle
<1>0. DefaultWriter!TypeOK
  BY DEF WriterInv
<1>1. /\ writerCall[c].op \in {"use", "close"} /\ writerCall' = [writerCall EXCEPT ![c] = k]
      /\ \/ writerClosed' = writerClosed /\ writerCall[c].op = "use"
         \/ writerClosed' = [writerClosed EXCEPT ![writerCall[c].writer] = TRUE]
      /\ UNCHANGED <<defaultDir, defaultWriter, dir, writerOverlap, writerUnswitched>>
  BY DEF DefaultWriter!Use, DefaultWriter!CloseWriter, DefaultWriter!historyVars
<1>2. DefaultWriter!Built' = DefaultWriter!Built
  BY <1>1 DEF DefaultWriter!Built
<1>3. k \in WriterCalls(DefaultWriter!Built') /\ k.op = "idle"
  BY DEF WriterCalls, DefaultWriter!Idle
<1> HIDE DEF k
<1>4. /\ (writerCall \in [Callers -> WriterCalls(DefaultWriter!Built)])' /\ writerCall'[c] = k
      /\ \A d \in Callers : d # c => writerCall'[d] = writerCall[d]
  BY <1>0, <1>1, <1>2, <1>3, WriterCallMoves
<1>5. writerCall[c].writer \in DefaultWriter!Built /\ writerCall[c] \in WriterCalls(DefaultWriter!Built)
  BY <1>0, <1>1, WriterTypes, WriterCallKinds
<1>6. /\ writerClosed' \in [Writers -> BOOLEAN]
      /\ \A w \in Writers : writerClosed[w] => writerClosed'[w]
      /\ writerCall[c].op = "close" => writerClosed'[writerCall[c].writer]
  <2>1. writerClosed \in [Writers -> BOOLEAN] /\ writerCall[c].writer \in Writers
    BY <1>0, <1>5, WriterTypes DEF DefaultWriter!Built
  <2>2. CASE writerClosed' = writerClosed /\ writerCall[c].op = "use"
    BY <2>1, <2>2
  <2>3. CASE writerClosed' = [writerClosed EXCEPT ![writerCall[c].writer] = TRUE]
    BY <2>1, <2>3, Zenon
  <2> QED BY <1>1, <2>2, <2>3
<1>7. DefaultWriter!TypeOK'
  <2>1. defaultWriter \in DefaultWriter!Built \cup {NoWriter}
    BY <1>0, WriterTypes
  <2> QED BY <1>0, <1>1, <1>2, <1>4, <1>6, <2>1 DEF DefaultWriter!TypeOK, WriterCalls
<1>8. DefaultWriter!NoWriterLeaks'
  <2>1. ASSUME NEW w \in DefaultWriter!Built', ~ writerClosed'[w], w # defaultWriter'
        PROVE  /\ w \in DefaultWriter!Built /\ ~ writerClosed[w] /\ w # defaultWriter
               /\ writerCall[c] \notin [op : {"install", "close"}, writer : {w}]
    <3>1. w \in Writers /\ w \in DefaultWriter!Built /\ w # defaultWriter
      BY <1>1, <1>2, <2>1 DEF DefaultWriter!Built
    <3>2. ~ writerClosed[w]
      BY <1>6, <2>1, <3>1
    <3>3. ~ (writerCall[c].op = "close" /\ writerCall[c].writer = w)
      BY <1>6, <2>1
    <3> QED BY <1>1, <3>1, <3>2, <3>3
  <2> QED BY <1>4, <2>1, WriterLeaks DEF WriterInv
<1>9. DirsInTurn'
  <2> SUFFICES ASSUME ~ writerOverlap' PROVE DirsInTurn'
    BY DEF DirsInTurn
  <2>2. /\ DefaultWriter!Doing({"setDir"})' = DefaultWriter!Doing({"setDir"})
        /\ DefaultWriter!Doing({"build", "install"})' = DefaultWriter!Doing({"build", "install"})
        /\ DefaultWriter!Doing({"build", "setDir"})' = DefaultWriter!Doing({"build", "setDir"})
        /\ DefaultWriter!Doing({"install"})' = DefaultWriter!Doing({"install"})
    BY <1>1, <1>3, <1>4, WriterDoing
  <2>3. \A d \in DefaultWriter!Doing({"build", "setDir"}) \cup DefaultWriter!Doing({"install"})
                 \cup DefaultWriter!Doing({"setDir"}) : writerCall'[d] = writerCall[d]
    BY <1>1, <1>4 DEF DefaultWriter!Doing
  <2>4. DefaultWriter!Open(defaultWriter)' => DefaultWriter!Open(defaultWriter)
    <3>1. defaultWriter = NoWriter \/ defaultWriter \in Writers
      BY <1>0, WriterTypes DEF DefaultWriter!Built
    <3> QED BY <1>1, <1>6, <3>1 DEF DefaultWriter!Open
  <2> QED BY <1>1, <2>2, <2>3, <2>4 DEF WriterInv, DirsInTurn
<1> QED BY <1>7, <1>8, <1>9 DEF WriterInv

(* The second look installs the writer, or closes it.                        *)
LEMMA WriterInstall ==
  ASSUME PartsAssumption, WriterInv, NEW c \in Callers, DefaultWriter!Install(c)
  PROVE  WriterInv'
<1> DEFINE k == [op |-> "use", writer |-> defaultWriter']
           mine == writerCall[c].writer
<1>0. DefaultWriter!TypeOK /\ NoWriter \notin Writers
  BY DEF WriterInv, PartsAssumption, DefaultWriter!NamesAssumption
<1>1. /\ writerCall[c].op = "install" /\ writerCall' = [writerCall EXCEPT ![c] = k]
      /\ UNCHANGED <<defaultDir, dir, writerOverlap, writerUnswitched>>
  BY DEF DefaultWriter!Install, DefaultWriter!historyVars
<1>2. /\ mine \in DefaultWriter!Built /\ mine \in Writers
      /\ writerCall[c] \in [op : {"install", "close"}, writer : {mine}]
  <2>1. writerCall[c] \in WriterCalls(DefaultWriter!Built)
    BY <1>0, WriterTypes
  <2>2. /\ mine \in DefaultWriter!Built
        /\ writerCall[c] \in [op : {"install", "close"}, writer : {mine}]
    BY <1>1, <2>1, WriterCallKinds
  <2> QED BY <2>2 DEF DefaultWriter!Built
<1>3. DefaultWriter!Built' = DefaultWriter!Built
  BY <1>1 DEF DefaultWriter!Built
<1> HIDE DEF mine
<1>4. \/ defaultWriter = NoWriter /\ defaultWriter' = mine /\ writerClosed' = writerClosed
      \/ /\ defaultWriter # NoWriter /\ defaultWriter' = defaultWriter
         /\ writerClosed' = [writerClosed EXCEPT ![mine] = TRUE]
  BY DEF DefaultWriter!Install, mine
<1>5. /\ defaultWriter' \in DefaultWriter!Built /\ writerClosed' \in [Writers -> BOOLEAN]
      /\ \A w \in Writers : w # mine => writerClosed'[w] = writerClosed[w]
      /\ writerClosed'[mine] \/ (defaultWriter = NoWriter /\ defaultWriter' = mine)
      /\ \A w \in Writers : writerClosed[w] => writerClosed'[w]
  <2>1. writerClosed \in [Writers -> BOOLEAN] /\ defaultWriter \in DefaultWriter!Built \cup {NoWriter}
    BY <1>0, WriterTypes
  <2>2. CASE defaultWriter = NoWriter /\ defaultWriter' = mine /\ writerClosed' = writerClosed
    BY <1>2, <2>1, <2>2
  <2>3. CASE /\ defaultWriter # NoWriter /\ defaultWriter' = defaultWriter
             /\ writerClosed' = [writerClosed EXCEPT ![mine] = TRUE]
    <3>1. defaultWriter' \in DefaultWriter!Built
      BY <2>1, <2>3
    <3>2. writerClosed' \in [Writers -> BOOLEAN] /\ writerClosed'[mine]
      BY <1>2, <2>1, <2>3, Zenon
    <3>3. \A w \in Writers : w # mine => writerClosed'[w] = writerClosed[w]
      BY <2>1, <2>3
    <3>4. \A w \in Writers : writerClosed[w] => writerClosed'[w]
      BY <3>2, <3>3, Zenon
    <3> QED BY <3>1, <3>2, <3>3, <3>4
  <2> QED BY <1>4, <2>2, <2>3
<1>6. k \in WriterCalls(DefaultWriter!Built') /\ k.op = "use"
  BY <1>3, <1>5 DEF WriterCalls
<1> HIDE DEF k
<1>7. /\ (writerCall \in [Callers -> WriterCalls(DefaultWriter!Built)])' /\ writerCall'[c] = k
      /\ \A d \in Callers : d # c => writerCall'[d] = writerCall[d]
  BY <1>0, <1>1, <1>3, <1>6, WriterCallMoves
<1>8. DefaultWriter!TypeOK'
  BY <1>0, <1>1, <1>3, <1>5, <1>7 DEF DefaultWriter!TypeOK, WriterCalls
<1>9. DefaultWriter!NoWriterLeaks'
  <2>1. ASSUME NEW w \in DefaultWriter!Built', ~ writerClosed'[w], w # defaultWriter'
        PROVE  /\ w \in DefaultWriter!Built /\ ~ writerClosed[w] /\ w # defaultWriter
               /\ writerCall[c] \notin [op : {"install", "close"}, writer : {w}]
    <3>1. w \in Writers /\ w \in DefaultWriter!Built
      BY <1>3, <2>1 DEF DefaultWriter!Built
    <3>2. w # mine
      BY <1>5, <2>1
    <3>3. ~ writerClosed[w]
      BY <1>5, <2>1, <3>1
    <3>4. w # defaultWriter
      BY <1>0, <1>4, <2>1, <3>1
    <3> QED BY <1>2, <3>1, <3>2, <3>3, <3>4
  <2> QED BY <1>7, <2>1, WriterLeaks DEF WriterInv
<1>10. DirsInTurn'
  <2> SUFFICES ASSUME ~ writerOverlap' PROVE DirsInTurn'
    BY DEF DirsInTurn
  <2>0. c \in DefaultWriter!Doing({"install"}) /\ c \in DefaultWriter!Doing({"build", "install"})
    BY <1>1 DEF DefaultWriter!Doing
  <2>1. DefaultWriter!Doing({"setDir"}) = {} /\ dir[mine] = defaultDir
    BY <1>1, <2>0 DEF WriterInv, DirsInTurn, mine
  <2>2. /\ DefaultWriter!Doing({"setDir"})' = DefaultWriter!Doing({"setDir"})
        /\ DefaultWriter!Doing({"build", "setDir"})' = DefaultWriter!Doing({"build", "setDir"})
        /\ DefaultWriter!Doing({"install"})' \subseteq DefaultWriter!Doing({"install"})
        /\ c \notin DefaultWriter!Doing({"install"})'
    BY <1>1, <1>6, <1>7, WriterDoing
  <2>3. \A d \in DefaultWriter!Doing({"build", "setDir"}) \cup DefaultWriter!Doing({"install"})' :
          writerCall'[d] = writerCall[d]
    BY <1>1, <1>7, <2>2 DEF DefaultWriter!Doing
  <2>4. DefaultWriter!Open(defaultWriter)' =>
          dir'[defaultWriter'] = defaultDir' \/ defaultWriter' \in writerUnswitched'
    <3>1. CASE defaultWriter = NoWriter /\ defaultWriter' = mine
      BY <1>1, <2>1, <3>1
    <3>2. CASE defaultWriter # NoWriter /\ defaultWriter' = defaultWriter
      <4>1. defaultWriter \in Writers
        BY <1>5, <3>2 DEF DefaultWriter!Built
      <4>2. DefaultWriter!Open(defaultWriter)' => DefaultWriter!Open(defaultWriter)
        BY <1>5, <3>2, <4>1 DEF DefaultWriter!Open
      <4> QED BY <1>1, <2>1, <3>2, <4>2 DEF WriterInv, DirsInTurn
    <3> QED BY <1>4, <3>1, <3>2
  <2> QED BY <1>1, <2>1, <2>2, <2>3, <2>4 DEF WriterInv, DirsInTurn
<1> QED BY <1>8, <1>9, <1>10 DEF WriterInv

(* Close takes the writer away, and answers for it.                          *)
LEMMA WriterCloseTake ==
  ASSUME PartsAssumption, WriterInv, NEW c \in Callers, DefaultWriter!CloseTake(c)
  PROVE  WriterInv'
<1> DEFINE k == [op |-> "close", writer |-> defaultWriter]
<1>0. DefaultWriter!TypeOK
  BY DEF WriterInv
<1>1. /\ writerCall[c] = DefaultWriter!Idle /\ writerCall' = [writerCall EXCEPT ![c] = k]
      /\ defaultWriter # NoWriter /\ defaultWriter' = NoWriter
      /\ UNCHANGED <<defaultDir, dir, writerClosed, writerOverlap, writerUnswitched>>
  BY DEF DefaultWriter!CloseTake, DefaultWriter!historyVars
<1>2. DefaultWriter!Built' = DefaultWriter!Built
  BY <1>1 DEF DefaultWriter!Built
<1>3. defaultWriter \in DefaultWriter!Built
  BY <1>0, <1>1, WriterTypes
<1>4. /\ k \in WriterCalls(DefaultWriter!Built') /\ k.op = "close"
      /\ k \in [op : {"install", "close"}, writer : {defaultWriter}]
  BY <1>2, <1>3 DEF WriterCalls
<1> HIDE DEF k
<1>5. /\ (writerCall \in [Callers -> WriterCalls(DefaultWriter!Built)])' /\ writerCall'[c] = k
      /\ \A d \in Callers : d # c => writerCall'[d] = writerCall[d]
  BY <1>0, <1>1, <1>2, <1>4, WriterCallMoves
<1>6. DefaultWriter!TypeOK'
  BY <1>0, <1>1, <1>2, <1>5 DEF DefaultWriter!TypeOK, WriterCalls
<1>7. writerCall[c].op = "idle"
  BY <1>1 DEF DefaultWriter!Idle
<1>8. DefaultWriter!NoWriterLeaks'
  <2>1. \A w : writerCall[c] \notin [op : {"install", "close"}, writer : {w}]
    BY <1>7
  <2>2. \A w \in DefaultWriter!Built' : ~ writerClosed'[w] /\ w # defaultWriter' =>
           \/ writerCall'[c] \in [op : {"install", "close"}, writer : {w}]
           \/ /\ w \in DefaultWriter!Built /\ ~ writerClosed[w] /\ w # defaultWriter
              /\ writerCall[c] \notin [op : {"install", "close"}, writer : {w}]
    BY <1>1, <1>2, <1>4, <1>5, <2>1
  <2> QED BY <1>5, <2>2, WriterLeaks DEF WriterInv
<1>9. DirsInTurn'
  <2> SUFFICES ASSUME ~ writerOverlap' PROVE DirsInTurn'
    BY DEF DirsInTurn
  <2>2. /\ DefaultWriter!Doing({"setDir"})' = DefaultWriter!Doing({"setDir"})
        /\ DefaultWriter!Doing({"build", "install"})' = DefaultWriter!Doing({"build", "install"})
        /\ DefaultWriter!Doing({"build", "setDir"})' = DefaultWriter!Doing({"build", "setDir"})
        /\ DefaultWriter!Doing({"install"})' = DefaultWriter!Doing({"install"})
    BY <1>4, <1>5, <1>7, WriterDoing
  <2>3. \A d \in DefaultWriter!Doing({"build", "setDir"}) \cup DefaultWriter!Doing({"install"}) :
          writerCall'[d] = writerCall[d]
    BY <1>5, <1>7 DEF DefaultWriter!Doing
  <2>4. ~ DefaultWriter!Open(defaultWriter)'
    BY <1>1 DEF DefaultWriter!Open
  <2> QED BY <1>1, <2>2, <2>3, <2>4 DEF WriterInv, DirsInTurn
<1> QED BY <1>6, <1>8, <1>9 DEF WriterInv

(* SetDefaultDir stores the directory and takes the writer.                  *)
LEMMA WriterSetDefault ==
  ASSUME PartsAssumption, WriterInv, NEW c \in Callers, DefaultWriter!SetDefaultDir(c)
  PROVE  WriterInv'
<1>0. DefaultWriter!TypeOK
  BY DEF WriterInv
<1> DEFINE k == [op |-> "setDir", writer |-> defaultWriter, dir |-> defaultDir']
<1>1. PICK e \in Dirs :
        /\ defaultDir' = e
        /\ writerCall' = [writerCall EXCEPT ![c] = [op |-> "setDir", writer |-> defaultWriter,
                                                    dir |-> e]]
  BY DEF DefaultWriter!SetDefaultDir
<1>2. /\ writerCall[c] = DefaultWriter!Idle /\ writerCall' = [writerCall EXCEPT ![c] = k]
      /\ defaultDir' \in Dirs /\ UNCHANGED <<defaultWriter, dir, writerClosed, writerUnswitched>>
      /\ writerOverlap' = (writerOverlap \/ DefaultWriter!Doing({"setDir", "build", "install"}) # {})
  BY <1>1 DEF DefaultWriter!SetDefaultDir
<1>3. DefaultWriter!Built' = DefaultWriter!Built
  BY <1>2 DEF DefaultWriter!Built
<1>4. /\ k \in WriterCalls(DefaultWriter!Built') /\ k.op = "setDir" /\ k.writer = defaultWriter
      /\ k.dir = defaultDir'
  BY <1>0, <1>2, <1>3, WriterTypes DEF WriterCalls
<1> HIDE DEF k
<1>5. /\ (writerCall \in [Callers -> WriterCalls(DefaultWriter!Built)])' /\ writerCall'[c] = k
      /\ \A d \in Callers : d # c => writerCall'[d] = writerCall[d]
  BY <1>0, <1>2, <1>3, <1>4, WriterCallMoves
<1>6. DefaultWriter!TypeOK'
  <2>1. writerOverlap' \in BOOLEAN
    BY <1>0, <1>2, WriterTypes
  <2> QED BY <1>0, <1>2, <1>3, <1>5, <2>1 DEF DefaultWriter!TypeOK, WriterCalls
<1>7. writerCall[c].op = "idle"
  BY <1>2 DEF DefaultWriter!Idle
<1>8. DefaultWriter!NoWriterLeaks'
  <2>1. \A w : writerCall[c] \notin [op : {"install", "close"}, writer : {w}]
    BY <1>7
  <2> QED BY <1>2, <1>3, <1>5, <2>1, WriterLeaks DEF WriterInv
<1>9. DirsInTurn'
  <2> SUFFICES ASSUME ~ writerOverlap' PROVE DirsInTurn'
    BY DEF DirsInTurn
  <2>1. \A d \in Callers : writerCall[d].op \notin {"setDir", "build", "install"}
    BY <1>2 DEF DefaultWriter!Doing
  <2>2. \A d \in Callers : d # c => writerCall'[d].op \notin {"setDir", "build", "install"}
    BY <1>5, <2>1
  <2>3. /\ DefaultWriter!Doing({"setDir"})' = {c} /\ DefaultWriter!Doing({"build", "setDir"})' = {c}
        /\ DefaultWriter!Doing({"install"})' = {} /\ DefaultWriter!Doing({"build", "install"})' = {}
    BY <1>4, <1>5, <2>2 DEF DefaultWriter!Doing
  <2> QED BY <1>2, <1>4, <1>5, <2>3 DEF DirsInTurn
<1> QED BY <1>6, <1>8, <1>9 DEF WriterInv

(* And then switches that writer, if it is still open and nothing fails.     *)
LEMMA WriterSetDir ==
  ASSUME PartsAssumption, WriterInv, NEW c \in Callers, DefaultWriter!SetDir(c)
  PROVE  WriterInv'
<1> DEFINE k == DefaultWriter!Idle
           w == writerCall[c].writer
           e == writerCall[c].dir
<1>0. DefaultWriter!TypeOK /\ "unbuilt" \notin Dirs \cup {NoDir}
  BY DEF WriterInv, PartsAssumption, DefaultWriter!NamesAssumption
<1>1. /\ writerCall[c].op = "setDir" /\ writerCall' = [writerCall EXCEPT ![c] = k]
      /\ \/ /\ DefaultWriter!Open(w)
            /\ dir' = [dir EXCEPT ![w] = e] /\ writerUnswitched' = writerUnswitched \ {w}
         \/ /\ w # NoWriter
            /\ dir' = dir /\ writerUnswitched' = writerUnswitched \cup {w}
         \/ w = NoWriter /\ dir' = dir /\ writerUnswitched' = writerUnswitched
      /\ UNCHANGED <<defaultDir, defaultWriter, writerClosed, writerOverlap>>
  BY DEF DefaultWriter!SetDir
<1>2. w \in DefaultWriter!Built \cup {NoWriter} /\ e \in Dirs
  BY <1>0, <1>1, WriterTypes, WriterCallKinds
<1>3. k.op = "idle" /\ \A B : k \in WriterCalls(B)
  BY DEF WriterCalls, DefaultWriter!Idle
<1> HIDE DEF k, w, e
<1>4. /\ dir' \in [Writers -> Dirs \cup {NoDir, "unbuilt"}] /\ DefaultWriter!Built' = DefaultWriter!Built
      /\ \A v \in Writers : v # w => dir'[v] = dir[v]
      /\ \A v \in Writers : v # w /\ v \in writerUnswitched => v \in writerUnswitched'
      /\ DefaultWriter!Open(w) => dir'[w] = e \/ w \in writerUnswitched'
      /\ writerUnswitched' \subseteq DefaultWriter!Built
  <2>1. dir \in [Writers -> Dirs \cup {NoDir, "unbuilt"}] /\ writerUnswitched \subseteq DefaultWriter!Built
    BY <1>0, WriterTypes
  <2>2. CASE /\ DefaultWriter!Open(w)
             /\ dir' = [dir EXCEPT ![w] = e] /\ writerUnswitched' = writerUnswitched \ {w}
    <3>1. w \in Writers /\ dir[w] # "unbuilt"
      BY <1>2, <2>2 DEF DefaultWriter!Open, DefaultWriter!Built
    <3>3. /\ dir' \in [Writers -> Dirs \cup {NoDir, "unbuilt"}] /\ dir'[w] = e
          /\ \A v \in Writers : v # w => dir'[v] = dir[v]
      BY <1>2, <2>1, <2>2, <3>1
    <3>4. DefaultWriter!Built' = DefaultWriter!Built
      BY <1>0, <1>2, <3>1, <3>3 DEF DefaultWriter!Built
    <3> QED BY <2>1, <2>2, <3>3, <3>4
  <2>3. CASE w # NoWriter /\ dir' = dir /\ writerUnswitched' = writerUnswitched \cup {w}
    BY <1>2, <2>1, <2>3 DEF DefaultWriter!Built
  <2>4. CASE w = NoWriter /\ dir' = dir /\ writerUnswitched' = writerUnswitched
    BY <2>1, <2>4 DEF DefaultWriter!Built, DefaultWriter!Open
  <2> QED BY <1>1, <2>2, <2>3, <2>4
<1>5. /\ (writerCall \in [Callers -> WriterCalls(DefaultWriter!Built)])' /\ writerCall'[c] = k
      /\ \A d \in Callers : d # c => writerCall'[d] = writerCall[d]
  BY <1>0, <1>1, <1>3, <1>4, WriterCallMoves
<1>6. DefaultWriter!TypeOK'
  BY <1>0, <1>1, <1>4, <1>5 DEF DefaultWriter!TypeOK, WriterCalls
<1>7. DefaultWriter!NoWriterLeaks'
  <2>1. \A v : writerCall[c] \notin [op : {"install", "close"}, writer : {v}]
    BY <1>1
  <2> QED BY <1>1, <1>4, <1>5, <2>1, WriterLeaks DEF WriterInv
<1>8. DirsInTurn'
  <2> SUFFICES ASSUME ~ writerOverlap' PROVE DirsInTurn'
    BY DEF DirsInTurn
  <2>0. c \in DefaultWriter!Doing({"setDir"}) /\ c \in DefaultWriter!Doing({"build", "setDir"})
    BY <1>1 DEF DefaultWriter!Doing
  <2>1. /\ \A d \in DefaultWriter!Doing({"setDir"}) : d = c
        /\ DefaultWriter!Doing({"build", "install"}) = {} /\ e = defaultDir
    BY <1>1, <2>0 DEF WriterInv, DirsInTurn, e
  <2>2. \A d \in Callers : writerCall'[d].op \notin {"setDir", "build", "install"}
    <3>1. ASSUME NEW d \in Callers, d # c PROVE writerCall[d].op \notin {"setDir", "build", "install"}
      BY <2>1, <3>1 DEF DefaultWriter!Doing
    <3> QED BY <1>3, <1>5, <3>1
  <2>3. /\ DefaultWriter!Doing({"setDir"})' = {} /\ DefaultWriter!Doing({"build", "setDir"})' = {}
        /\ DefaultWriter!Doing({"install"})' = {} /\ DefaultWriter!Doing({"build", "install"})' = {}
    BY <2>2 DEF DefaultWriter!Doing
  <2>4. ASSUME DefaultWriter!Open(defaultWriter)
        PROVE  dir'[defaultWriter] = defaultDir \/ defaultWriter \in writerUnswitched'
    <3>1. CASE w = defaultWriter
      BY <1>4, <2>1, <2>4, <3>1
    <3>2. CASE w # defaultWriter
      <4>1. dir[defaultWriter] = defaultDir \/ defaultWriter \in writerUnswitched
        BY <1>1, <2>1, <2>4, <3>2 DEF WriterInv, DirsInTurn, w
      <4>2. defaultWriter \in Writers
        BY <1>0, <2>4, WriterTypes DEF DefaultWriter!Built, DefaultWriter!Open
      <4>3. /\ dir'[defaultWriter] = dir[defaultWriter]
            /\ defaultWriter \in writerUnswitched => defaultWriter \in writerUnswitched'
        BY <1>4, <3>2, <4>2
      <4> QED BY <4>1, <4>3
    <3> QED BY <3>1, <3>2
  <2>5. DefaultWriter!Open(defaultWriter)' => DefaultWriter!Open(defaultWriter)
    BY <1>1 DEF DefaultWriter!Open
  <2> QED BY <1>1, <2>3, <2>4, <2>5 DEF DirsInTurn
<1> QED BY <1>6, <1>7, <1>8 DEF WriterInv

(* Every step of the package keeps the invariant.                            *)
LEMMA WriterStep ==
  PartsAssumption /\ WriterInv /\ [DefaultWriter!Next]_(DefaultWriter!vars) => WriterInv'
<1> SUFFICES ASSUME PartsAssumption, WriterInv, [DefaultWriter!Next]_(DefaultWriter!vars)
             PROVE  WriterInv'
  OBVIOUS
<1>1. CASE UNCHANGED DefaultWriter!vars
  <2>1. UNCHANGED <<defaultDir, defaultWriter, dir, writerClosed, writerCall, writerOverlap,
                   writerUnswitched>>
    BY <1>1 DEF DefaultWriter!vars, DefaultWriter!historyVars
  <2>2. DefaultWriter!Built' = DefaultWriter!Built
    BY <2>1 DEF DefaultWriter!Built
  <2>3. DefaultWriter!TypeOK'
    BY <2>1, <2>2 DEF WriterInv, DefaultWriter!TypeOK, DefaultWriter!Idle
  <2>4. DefaultWriter!NoWriterLeaks'
    BY <2>1, <2>2 DEF WriterInv, DefaultWriter!NoWriterLeaks
  <2>5. DirsInTurn'
    BY <2>1 DEF WriterInv, DirsInTurn, DefaultWriter!Doing, DefaultWriter!Open
  <2> QED BY <2>3, <2>4, <2>5 DEF WriterInv
<1> QED
  BY <1>1, WriterLook, WriterBuild, WriterBuildFails, WriterInstall, WriterCloses, WriterSetDefault, WriterSetDir,
     WriterCloseTake DEF DefaultWriter!Next

-------------------------------------------------------------------------------
(* ProxyManager                                                              *)

(* The manager's pool works with what the manager was told.                  *)
ManagerInv == Manager!TypeOK /\ Manager!PoolFollowsSettings

(* The manager starts with the invariant.                                    *)
LEMMA ManagerStart == PartsAssumption /\ Manager!Init => ManagerInv
<1> SUFFICES ASSUME PartsAssumption, Manager!Init PROVE ManagerInv
  OBVIOUS
<1> USE DEF PartsAssumption, Manager!CountsAssumption
<1>1. poolSettings \in Manager!Settings
  BY DEF Manager!Init, Manager!Settings
<1>2. get = [c \in Gets |-> "new"] /\ pool = None /\ usesPool = FALSE /\ getStop = FALSE
  BY DEF Manager!Init
<1> QED BY <1>1, <1>2 DEF ManagerInv, Manager!TypeOK, Manager!PoolFollowsSettings, Manager!Trying

(* Every step of the manager keeps it.                                       *)
LEMMA ManagerStep == PartsAssumption /\ ManagerInv /\ [Manager!Next]_(Manager!vars) => ManagerInv'
<1> SUFFICES ASSUME PartsAssumption, ManagerInv, [Manager!Next]_(Manager!vars)
             PROVE  ManagerInv'
  OBVIOUS
<1> USE DEF ManagerInv, Manager!TypeOK, Manager!PoolFollowsSettings, Manager!Settings,
            Manager!poolVars, Manager!Normalised
<1>0. DefaultCount \in Counts \ {0} /\ None \notin Manager!Settings
  BY DEF PartsAssumption, Manager!CountsAssumption, Manager!NoneAssumption
<1>1. ASSUME NEW m \in BOOLEAN, Manager!SetMode(m) \/ Manager!SetGetProxyStop(m)
      PROVE  ManagerInv'
  BY <1>1 DEF Manager!SetMode, Manager!SetGetProxyStop
<1>2. ASSUME NEW u \in URLs, Manager!SetPoolAPI(u) PROVE ManagerInv'
  BY <1>0, <1>2 DEF Manager!SetPoolAPI
<1>3. ASSUME NEW n \in Counts, Manager!SetPoolCount(n) PROVE ManagerInv'
  BY <1>0, <1>3 DEF Manager!SetPoolCount
<1>4. ASSUME Manager!InitPool, poolSettings' = poolSettings
      PROVE  /\ (pool \in Manager!Settings \cup {None})' /\ pool' # None
             /\ Manager!PoolFollowsSettings'
  BY <1>0, <1>4 DEF Manager!InitPool
<1>5. CASE Manager!GetPool
  BY <1>4, <1>5 DEF Manager!GetPool
<1>6. ASSUME NEW c \in Gets, Manager!ReadMode(c) PROVE ManagerInv'
  <2>1. Kind[c] \in {"once", "must", "invalid"}
    BY DEF PartsAssumption, Manager!KindAssumption
  <2>2. \E at \in {"direct", "try", "check", "invalid"} : get' = [get EXCEPT ![c] = at]
    BY <1>6, <2>1 DEF Manager!ReadMode, Manager!Goto
  <2> QED BY <1>6, <2>2 DEF Manager!ReadMode, Manager!Trying
<1>7. ASSUME NEW c \in Gets, Manager!Looping(c) PROVE ManagerInv'
  <2>1. CASE Manager!TakePool(c)
    BY <1>4, <2>1 DEF Manager!TakePool, Manager!Goto, Manager!Trying
  <2>2. CASE Manager!CheckStop(c) \/ Manager!PoolGet(c) \/ Manager!Wake(c)
    BY <2>2 DEF Manager!CheckStop, Manager!PoolGet, Manager!Wake, Manager!Goto, Manager!Trying
  <2> QED BY <1>7, <2>1, <2>2 DEF Manager!Looping
<1>8. CASE UNCHANGED Manager!vars
  BY <1>8 DEF Manager!vars
<1> QED BY <1>1, <1>2, <1>3, <1>5, <1>6, <1>7, <1>8 DEF Manager!Next

-------------------------------------------------------------------------------
(* The parts together                                                        *)

(* A step of the library is one of its parts, and no step of the others.     *)
LEMMA PartsStep ==
  ASSUME [LibraryNext]_libraryVars
  PROVE  /\ [Next]_vars /\ [Plain!Next]_(Plain!vars) /\ [Chain!Next]_(Chain!vars)
         /\ [Metadata!Next]_(Metadata!headerVars)
         /\ [DefaultPool!Next]_(DefaultPool!vars) /\ [DefaultWriter!Next]_(DefaultWriter!vars)
         /\ [Manager!Next]_(Manager!vars)
<1>1. /\ UNCHANGED plainVars => UNCHANGED Plain!vars
      /\ UNCHANGED chainVars => UNCHANGED Chain!vars
      /\ UNCHANGED headerVars => UNCHANGED Metadata!headerVars
  BY DEF plainVars, Plain!vars, Plain!settings, Plain!cookies, chainVars, Chain!vars,
         Chain!headerVars, Chain!filterVars, headerVars, Metadata!headerVars
<1>2. /\ UNCHANGED poolVars => UNCHANGED DefaultPool!vars
      /\ UNCHANGED writerVars => UNCHANGED DefaultWriter!vars
      /\ UNCHANGED managerVars => UNCHANGED Manager!vars
  BY DEF poolVars, DefaultPool!vars, writerVars, DefaultWriter!vars, DefaultWriter!historyVars,
         managerVars, Manager!vars, Manager!poolVars
<1>3. CASE UNCHANGED libraryVars
  BY <1>1, <1>2, <1>3 DEF libraryVars, clientVars, otherVars
<1>4. CASE MoveTLS \/ MovePlain \/ MoveChain \/ MoveHeaders
  BY <1>1, <1>2, <1>4 DEF MoveTLS, MovePlain, MoveChain, MoveHeaders, otherVars
<1>5. CASE MovePool \/ MoveWriter \/ MoveManager
  BY <1>1, <1>2, <1>5 DEF MovePool, MoveWriter, MoveManager, clientVars
<1> QED BY <1>3, <1>4, <1>5 DEF LibraryNext

ClientsInv  == ClientInv /\ PlainInv /\ ChainInv /\ HeaderInv
DefaultsInv == PoolInv /\ WriterInv /\ ManagerInv

(* Every part has its invariant, in every reachable state.                   *)
LEMMA PartsInv == LibrarySpec => [](ClientsInv /\ DefaultsInv)
<1>1. LibraryInit => ClientsInv /\ DefaultsInv
  BY PartsAssumption, ClientInit, PlainStart, ChainStart, HeaderStart, PoolStart, WriterStart,
     ManagerStart
  DEF LibraryInit, ClientsInv, DefaultsInv
<1>2. ClientsInv /\ DefaultsInv /\ [LibraryNext]_libraryVars => ClientsInv' /\ DefaultsInv'
  BY PartsAssumption, PartsStep, ClientNext, PlainStep, ChainStep, HeaderStep, PoolStep,
     WriterStep, ManagerStep
  DEF ClientsInv, DefaultsInv
<1> QED BY <1>1, <1>2, PTL DEF LibrarySpec

(* Types, and more than types: without an error a client is built from its   *)
(* settings, the cookies of httpclient stay in the jar their request had,    *)
(* no chain of redirects is longer than its limit.                           *)
THEOREM LibraryTypes == LibrarySpec => []PartsTypeOK
<1>1. ClientsInv /\ DefaultsInv => PartsTypeOK
  BY DEF ClientsInv, DefaultsInv, ClientInv, PlainInv, ChainInv, HeaderInv, PoolInv, WriterInv,
         ManagerInv, PartsTypeOK
<1> QED BY PartsInv, <1>1, PTL

(* Cookies that were cleared do not come back with a late response of        *)
(* httpclienttls, in its jar or in what it has observed.                     *)
THEOREM NeverRepopulated == LibrarySpec => []ClearedStaysCleared
<1>1. ClientsInv => ClearedStaysCleared
  BY DEF ClientsInv, ClientInv, TypeOK, ClearedStaysCleared
<1> QED BY PartsInv, <1>1, PTL

(* In a chain of redirects of httpclienttls the headers say where it has     *)
(* been, to those who may know it.                                           *)
THEOREM HeadersAreHonest == LibrarySpec => []HeadersTellTrue
<1>1. ClientsInv => HeadersTellTrue
  BY PartsAssumption, HeadersTell DEF ClientsInv, HeadersTellTrue
<1> QED BY PartsInv, <1>1, PTL

(* And in one of httpclient every host is sent the value of a cookie that it *)
(* should be, with either net/http, for any hosts and domains.               *)
THEOREM CookiesAreRight == LibrarySpec => []CookiesTellTrue
<1>1. ClientsInv => CookiesTellTrue
  BY DEF ClientsInv, ChainInv, CookiesTellTrue
<1> QED BY PartsInv, <1>1, PTL

(* No default pool or writer is lost while it runs, and what the setters and *)
(* the proxy manager are told reaches the one in use.                        *)
THEOREM DefaultsAreInOrder == LibrarySpec => []DefaultsInOrder
<1>1. PoolInv => DefaultPool!NoPoolLeaks /\ DefaultPool!SequentialSetsApply
  BY DEF PoolInv, SetsInTurn, DefaultPool!SequentialSetsApply
<1>2. WriterInv => DefaultWriter!NoWriterLeaks /\ DefaultWriter!SequentialSetsApply
  BY DEF WriterInv, DirsInTurn, DefaultWriter!SequentialSetsApply
<1>3. DefaultsInv => DefaultsInOrder
  BY <1>1, <1>2 DEF DefaultsInv, ManagerInv, DefaultsInOrder
<1> QED BY PartsInv, <1>3, PTL

(* Requests of httpclienttls go the way that was asked for last, or not at   *)
(* all: the client implements HTTPPolicy.                                    *)
THEOREM Implements == LibrarySpec => FollowsPolicy
<1>1. LibraryInit => Policy!Init
  BY PolicyBegins DEF LibraryInit
<1>2. ClientsInv /\ [LibraryNext]_libraryVars => [Policy!Next]_(Policy!policyVars)
  BY PartsStep, PolicyMaps DEF ClientsInv
<1> QED BY <1>1, <1>2, PartsInv, PTL DEF LibrarySpec, FollowsPolicy, Policy!Spec

(* And so does httpclient, whose transport goes directly under an error.     *)
THEOREM PlainImplements == LibrarySpec => PlainFollowsPolicy
<1>1. LibraryInit => Plain!Policy!Init
  BY PlainBegins DEF LibraryInit
<1>2. ClientsInv /\ [LibraryNext]_libraryVars => [Plain!Policy!Next]_(Plain!Policy!policyVars)
  BY PartsAssumption, PartsStep, PlainMaps DEF ClientsInv
<1> QED BY <1>1, <1>2, PartsInv, PTL
        DEF LibrarySpec, PlainFollowsPolicy, Plain!FollowsPolicy, Plain!Policy!Spec

===============================================================================
