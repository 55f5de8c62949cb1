------------------------------- MODULE HTTPClient ------------------------------
(*****************************************************************************)
(* httpclient.Client: the settings that its requests share, all of them      *)
(* behind mu.  A request takes the transport, the jar and the configuration  *)
(* error as they are when it begins and keeps them to its end, whatever is   *)
(* set in between.                                                           *)
(*                                                                           *)
(* Jars are numbered: ClearCookies makes another one.  A jar is as good as   *)
(* the requests that have set cookies in it, so it holds their numbers.      *)
(*****************************************************************************)
EXTENDS Naturals

CONSTANTS Proxies,    \* proxies that can be used
          Requests,
          MaxJars     \* bounds ClearCookies

ProxiesAssumption == "direct" \notin Proxies /\ "invalid" \notin Proxies
MaxJarsAssumption == MaxJars \in Nat \ {0}

VARIABLES transport,  \* the settings it was built with
          proxyURL, verify, configErr,
          jar,        \* number of the current jar
          stored,     \* stored[j]: the jars of the requests whose cookies jar j holds
          observed,   \* the same of observedCookies
          request,    \* request[r]: what request r took when it began
          asked       \* the way that ConfigureProxy was last asked for

settings == <<transport, proxyURL, verify, configErr>>
cookies  == <<jar, stored, observed>>
vars == <<settings, cookies, request, asked>>

Ways == Proxies \cup {"direct"}
Jars == 1 .. MaxJars
Idle == [state |-> "idle"]

(* New, or NewWithConfig with a proxy or none.                               *)
Init == /\ verify \in BOOLEAN
        /\ asked \in Ways \cup {"invalid"}
        /\ proxyURL = IF asked = "invalid" THEN "direct" ELSE asked
        /\ configErr = (asked = "invalid")
        /\ transport = [way |-> proxyURL, verify |-> verify]
        /\ jar = 1 /\ stored = [j \in Jars |-> {}] /\ observed = {}
        /\ request = [r \in Requests |-> Idle]

-------------------------------------------------------------------------------
(* rebuildTransportLocked, which the code lets fail for a proxy.             *)
Rebuild(way, v, ok) == transport' = IF ok THEN [way |-> way, verify |-> v] ELSE transport
MayFail(way) == way # "direct"

ConfigureInvalid ==
  /\ proxyURL' = "direct" /\ configErr' = TRUE /\ asked' = "invalid"
  /\ Rebuild("direct", verify, TRUE)
  /\ UNCHANGED <<verify, cookies, request>>

ConfigureProxy(way, ok) ==
  /\ ok \/ MayFail(way)
  /\ proxyURL' = way
  /\ configErr' = ~ ok
  /\ asked' = IF ok THEN way ELSE "invalid"
  /\ Rebuild(way, verify, ok)
  /\ UNCHANGED <<verify, cookies, request>>

(* A mutant: a new transport that works clears the error.                    *)
SetVerifyClears(v, ok) ==
  /\ v # verify
  /\ ok \/ MayFail(proxyURL)
  /\ verify' = v
  /\ configErr' = ~ ok
  /\ Rebuild(proxyURL, v, ok)
  /\ UNCHANGED <<proxyURL, cookies, request, asked>>

SetVerify(v, ok) ==
  /\ v # verify
  /\ ok \/ MayFail(proxyURL)
  /\ verify' = v
  /\ configErr' = (configErr \/ ~ ok)
  /\ Rebuild(proxyURL, v, ok)
  /\ UNCHANGED <<proxyURL, cookies, request, asked>>

ClearCookies ==
  /\ jar < MaxJars
  /\ jar' = jar + 1 /\ observed' = {}
  /\ UNCHANGED <<settings, stored, request, asked>>

-------------------------------------------------------------------------------
(* doRequest                                                                 *)

Begin(r) ==
  /\ request[r] = Idle
  /\ request' = [request EXCEPT ![r] =
       IF configErr THEN [state |-> "refused"]
       ELSE [state |-> "sent", way |-> transport.way, verify |-> transport.verify, jar |-> jar]]
  /\ UNCHANGED <<settings, cookies, asked>>

(* The jar of the request takes the cookies of a response, then the client   *)
(* takes note of them, under its lock.                                       *)
TakeCookies(r) ==
  /\ request[r].state = "sent"
  /\ stored' = [stored EXCEPT ![request[r].jar] = @ \cup {request[r].jar}]
  /\ request' = [request EXCEPT ![r] = [@ EXCEPT !.state = "observing"]]
  /\ UNCHANGED <<settings, jar, observed, asked>>

Observe(r) ==
  /\ request[r].state = "observing"
  /\ observed' = observed \cup {request[r].jar}
  /\ request' = [request EXCEPT ![r] = [@ EXCEPT !.state = "sent"]]
  /\ UNCHANGED <<settings, jar, stored, asked>>

End(r) ==
  /\ request[r].state \in {"sent", "refused"}
  /\ request' = [request EXCEPT ![r] = Idle]
  /\ UNCHANGED <<settings, cookies, asked>>

Request(r) == Begin(r) \/ TakeCookies(r) \/ Observe(r) \/ End(r)

-------------------------------------------------------------------------------
Next == \/ ConfigureInvalid \/ ClearCookies
        \/ \E w \in Ways, ok \in BOOLEAN : ConfigureProxy(w, ok)
        \/ \E v \in BOOLEAN, ok \in BOOLEAN : SetVerify(v, ok)
        \/ \E r \in Requests : Request(r)

Spec == Init /\ [][Next]_vars

-------------------------------------------------------------------------------
Route(q) == CASE q.state = "idle" -> [state |-> "idle"]
              [] q.state = "refused" -> [state |-> "refused"]
              [] OTHER -> [state |-> "sent", way |-> q.way, verify |-> q.verify]

Policy == INSTANCE HTTPPolicy WITH route <- [r \in Requests |-> Route(request[r])]

(* Requests go the way that was asked for last, or not at all.               *)
FollowsPolicy == Policy!Spec

Going == [state : {"sent", "observing"}, way : Ways, verify : BOOLEAN, jar : Jars]

(* Types; the cookies of a request that began before ClearCookies are not in *)
(* the new jar; and without an error the transport is built from the         *)
(* settings.                                                                 *)
TypeOK ==
  /\ proxyURL \in Ways /\ verify \in BOOLEAN /\ configErr \in BOOLEAN
  /\ asked \in Ways \cup {"invalid"}
  /\ transport \in [way : Ways, verify : BOOLEAN]
  /\ jar \in Jars /\ stored \in [Jars -> SUBSET Jars] /\ observed \subseteq Jars
  /\ \A j \in Jars : stored[j] \subseteq {j}
  /\ request \in [Requests -> Going \cup {Idle, [state |-> "refused"]}]
  /\ configErr \/ transport = [way |-> proxyURL, verify |-> verify]

===============================================================================
