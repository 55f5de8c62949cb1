-------------------------------- MODULE TLSClient ------------------------------
(*****************************************************************************)
(* httpclienttls.Client: the settings that its requests share, all of them   *)
(* behind mu.  The client below (inner) is built from the settings, again    *)
(* whenever they change; it is not built at all when the client was made     *)
(* with a bad configuration, and then there is no cookie jar either.         *)
(*                                                                           *)
(* Jars are numbered, 0 being none: ClearCookies makes another one.  A jar   *)
(* is as good as the requests that have set cookies in it, so it holds the   *)
(* numbers of their jars.                                                    *)
(*****************************************************************************)
EXTENDS Naturals

CONSTANTS Proxies,    \* proxies that can be used
          Requests,
          MaxJars     \* bounds ClearCookies

ASSUME ProxiesAssumption == "direct" \notin Proxies /\ "invalid" \notin Proxies
ASSUME MaxJarsAssumption == MaxJars \in Nat \ {0}

VARIABLES inner,      \* the settings it was built with
          proxyURL, verify, configErr, closed,
          jar,        \* number of the current jar
          stored,     \* stored[j]: the jars of the requests whose cookies jar j holds
          observed,   \* the same of observedCookies
          request,    \* request[r]: what request r took when it began
          asked       \* the way that ConfigureProxy was last asked for

settings == <<inner, proxyURL, verify, configErr, closed>>
cookies  == <<jar, stored, observed>>
vars == <<settings, cookies, request, asked>>

Ways == Proxies \cup {"direct"}
Jars == 0 .. MaxJars
Idle == [state |-> "idle"]
NoClient == [way |-> "none", verify |-> FALSE]

(* NewWithConfig; a bad proxy, or a client that cannot be built, leaves its  *)
(* error in the client.                                                      *)
Init == /\ verify \in BOOLEAN
        /\ asked \in Ways \cup {"invalid"}
        /\ \/ /\ asked = "invalid"
              /\ proxyURL = "direct" /\ configErr = TRUE
              /\ inner = NoClient /\ jar = 0
           \/ /\ asked = "invalid"
              /\ proxyURL \in Ways /\ configErr = TRUE
              /\ inner = NoClient /\ jar = 1
           \/ /\ asked \in Ways
              /\ proxyURL = asked /\ configErr = FALSE
              /\ inner = [way |-> proxyURL, verify |-> verify] /\ jar = 1
        /\ closed = FALSE
        /\ stored = [j \in Jars |-> {}] /\ observed = {}
        /\ request = [r \in Requests |-> Idle]

-------------------------------------------------------------------------------
(* rebuildLocked, which also makes a jar where there is none.                *)
Rebuild(way, v, ok) ==
  /\ inner' = IF ok THEN [way |-> way, verify |-> v] ELSE inner
  /\ jar' = IF jar = 0 THEN 1 ELSE jar
  /\ configErr' = ~ ok

ConfigureInvalid ==
  /\ configErr' = TRUE /\ asked' = "invalid"
  /\ UNCHANGED <<inner, proxyURL, verify, closed, cookies, request>>

(* A closed client refuses, and remembers nothing.                           *)
ConfigureProxy(way, ok) ==
  /\ ~ closed
  /\ proxyURL' = way /\ asked' = IF ok THEN way ELSE "invalid"
  /\ Rebuild(way, verify, ok)
  /\ UNCHANGED <<verify, closed, stored, observed, request>>

(* A mutant: a new client that works clears the error.                       *)
SetVerifyClears(v, ok) ==
  /\ ~ closed /\ v # verify
  /\ verify' = v
  /\ Rebuild(proxyURL, v, ok)
  /\ UNCHANGED <<proxyURL, closed, stored, observed, request, asked>>

(* Under an error nothing is built: ConfigureProxy will.                     *)
SetVerify(v, ok) ==
  /\ ~ closed /\ v # verify
  /\ verify' = v
  /\ IF configErr THEN UNCHANGED <<inner, configErr, jar>> ELSE Rebuild(proxyURL, v, ok)
  /\ UNCHANGED <<proxyURL, closed, stored, observed, request, asked>>

ClearCookies ==
  /\ jar < MaxJars
  /\ jar' = jar + 1 /\ observed' = {}
  /\ UNCHANGED <<settings, stored, request, asked>>

CloseClient ==
  /\ ~ closed
  /\ closed' = TRUE
  /\ UNCHANGED <<inner, proxyURL, verify, configErr, cookies, request, asked>>

-------------------------------------------------------------------------------
(* DoStream, what it shares with the client.                                 *)

Refuses == configErr \/ closed \/ inner = NoClient

Begin(r) ==
  /\ request[r] = Idle
  /\ request' = [request EXCEPT ![r] =
       IF Refuses THEN [state |-> "refused"]
       ELSE [state |-> "sent", way |-> inner.way, verify |-> inner.verify, jar |-> jar]]
  /\ UNCHANGED <<settings, cookies, asked>>

TakeCookies(r) ==
  /\ request[r].state = "sent"
  /\ stored' = [stored EXCEPT ![request[r].jar] = @ \cup {request[r].jar}]
  /\ request' = [request EXCEPT ![r] = [@ EXCEPT !.state = "observing"]]
  /\ UNCHANGED <<settings, jar, observed, asked>>

(* A mutant: whatever comes is noted.                                        *)
ObserveAlways(r) ==
  /\ request[r].state = "observing"
  /\ observed' = observed \cup {request[r].jar}
  /\ request' = [request EXCEPT ![r] = [@ EXCEPT !.state = "sent"]]
  /\ UNCHANGED <<settings, jar, stored, asked>>

(* observeCookies                                                            *)
Observe(r) ==
  /\ request[r].state = "observing"
  /\ observed' = IF request[r].jar = jar THEN observed \cup {jar} ELSE observed
  /\ request' = [request EXCEPT ![r] = [@ EXCEPT !.state = "sent"]]
  /\ UNCHANGED <<settings, jar, stored, asked>>

End(r) ==
  /\ request[r].state \in {"sent", "refused"}
  /\ request' = [request EXCEPT ![r] = Idle]
  /\ UNCHANGED <<settings, cookies, asked>>

Request(r) == Begin(r) \/ TakeCookies(r) \/ Observe(r) \/ End(r)

-------------------------------------------------------------------------------
Next == \/ ConfigureInvalid \/ ClearCookies \/ CloseClient
        \/ \E w \in Ways, ok \in BOOLEAN : ConfigureProxy(w, ok)
        \/ \E v \in BOOLEAN, ok \in BOOLEAN : SetVerify(v, ok)
        \/ \E r \in Requests : Request(r)

Spec == Init /\ [][Next]_vars

-------------------------------------------------------------------------------
Route(q) == CASE q.state = "idle" -> [state |-> "idle"]
              [] q.state = "refused" -> [state |-> "refused"]
              [] OTHER -> [state |-> "sent", way |-> q.way, verify |-> q.verify]

Policy == INSTANCE HTTPPolicy WITH route <- [r \in Requests |-> Route(request[r])]

(* Requests go the way that was asked for last, or not at all.               *)
FollowsPolicy == Policy!Spec

Going == [state : {"sent", "observing"}, way : Ways, verify : BOOLEAN, jar : 1 .. MaxJars]

(* Types: a request that goes has a client below and a jar; and without an   *)
(* error the client below is built from the settings.                        *)
TypeOK ==
  /\ proxyURL \in Ways /\ verify \in BOOLEAN /\ configErr \in BOOLEAN /\ closed \in BOOLEAN
  /\ asked \in Ways \cup {"invalid"}
  /\ inner \in [way : Ways, verify : BOOLEAN] \cup {NoClient}
  /\ jar \in Jars /\ stored \in [Jars -> SUBSET Jars] /\ observed \subseteq Jars \ {0}
  /\ request \in [Requests -> Going \cup {Idle, [state |-> "refused"]}]
  /\ configErr \/ (jar # 0 /\ inner = [way |-> proxyURL, verify |-> verify])

(* After ClearCookies neither the jar nor GetCookies shows a cookie of a     *)
(* request that began before, however late its response is.                  *)
ClearedStaysCleared == stored[jar] \subseteq {jar} /\ observed \subseteq {jar}
===============================================================================
