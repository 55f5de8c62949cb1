------------------------------- MODULE DoRequest -------------------------------
(*****************************************************************************)
(* httpclient.Client.doRequest over a chain of redirects: which value of one *)
(* cookie goes to which host.  The caller's explicit value is a header that  *)
(* net/http copies from hop to hop, and drops by rules of its own; the value *)
(* of the jar is added by filteringCookieJar, which holds it back where it   *)
(* believes that the explicit one goes along.                                *)
(*                                                                           *)
(* net/http is external, and the code may be built with any.  Since Go       *)
(* 1.23.5 the header stays dropped for the rest of a chain that has left the *)
(* domain of the first host (sticky); before, each hop was compared with the *)
(* one before it, which is what the filter does.                             *)
(*****************************************************************************)
EXTENDS Integers

CONSTANTS Hosts,
          Home,       \* the host of the first URL
          Within,     \* <<g, h>>: h is g, or a subdomain of it
          Opaque,     \* hosts that idna.Lookup rejects, as it does IPv6 addresses
          Limits,     \* the values of maxRedirects
          MaxHops     \* bounds a chain without a limit

HomeAssumption == Home \in Hosts
WithinAssumption ==
  /\ Within \subseteq Hosts \X Hosts
  /\ \A h \in Hosts : <<h, h>> \in Within
  /\ \A f, g, h \in Hosts : <<f, g>> \in Within /\ <<g, h>> \in Within => <<f, h>> \in Within
BoundsAssumption == Limits \subseteq Int /\ MaxHops \in Nat

VARIABLES call,      \* the caller's options
          pc, hop,
          host,      \* of the current URL
          sticky,    \* the net/http that the program is built with
          explicit,  \* net/http still knows the explicit value
          carried,   \* and the header of this hop carries it
          stripped,  \* the chain has left the domain of Home
          overrides, \* filteringCookieJar.overrides holds the cookie
          previous,  \* its previousURL
          jar,       \* the hosts that the jar has the cookie for
          wire,      \* the values a request is sent with
          response,
          course     \* history: the redirects have kept to the domain of the
                     \* host before ("down"), or not ("out"), and one host
                     \* at least has no name that can be compared ("opaque")

headerVars == <<sticky, explicit, carried, stripped>>
filterVars == <<overrides, previous>>
vars == <<call, pc, hop, host, headerVars, filterVars, jar, wire, response, course>>

Calls == [explicit : BOOLEAN, allow : BOOLEAN, limit : Limits]
NewCookies == {"none", "host", "domain", "expired"}
Responses == [location : Hosts \cup {"none", "bad"}, cookie : NewCookies]
NoResponse == [location |-> "none", cookie |-> "none"]

Init == /\ call \in Calls
        /\ pc = "ready" /\ hop = 0 /\ host = Home
        /\ sticky \in BOOLEAN
        /\ explicit \in BOOLEAN /\ (explicit <=> call.explicit)
        /\ carried = explicit /\ stripped = FALSE
        /\ overrides = explicit /\ previous = Home
        /\ jar \in SUBSET Hosts
        /\ wire = {} /\ response = NoResponse
        /\ course = IF Home \in Opaque THEN "opaque" ELSE "down"

-------------------------------------------------------------------------------
(* canForwardCookieHeader                                                    *)
CanForward(from, to) == from \notin Opaque /\ to \notin Opaque /\ <<from, to>> \in Within

(* filteringCookieJar.Cookies                                                *)
JarValue == IF host \in jar /\ ~ (CanForward(previous, host) /\ overrides)
            THEN {"jar"} ELSE {}

Send ==
  /\ pc = "ready"
  /\ pc' = "sent"
  /\ wire' = JarValue \cup (IF carried THEN {"explicit"} ELSE {})
  /\ previous' = host
  /\ UNCHANGED <<call, hop, host, headerVars, overrides, jar, response, course>>

(* What the jar makes of a Set-Cookie of the host.                           *)
Stored(cookie) == CASE cookie = "none" -> jar
                    [] cookie = "host" -> jar \cup {host}
                    [] cookie = "domain" -> jar \cup {h \in Hosts : <<host, h>> \in Within}
                    [] cookie = "expired" -> jar \ {host}

(* A mutant: the filter goes on although the server has set the cookie.      *)
SetCookiesOnly(cookie) == jar' = Stored(cookie) /\ UNCHANGED overrides

(* filteringCookieJar.SetCookies                                             *)
SetCookies(cookie) ==
  /\ jar' = Stored(cookie)
  /\ overrides' = (overrides /\ cookie = "none")

Respond(r) ==
  /\ pc = "sent"
  /\ pc' = "answered"
  /\ response' = r
  /\ SetCookies(r.cookie)
  /\ UNCHANGED <<call, hop, host, headerVars, previous, wire, course>>

(* The server, the network or the timeout of the request.                    *)
Fail ==
  /\ pc \in {"sent", "answered"}
  /\ pc = "answered" => response.location = "bad"
  /\ pc' = "failed"
  /\ UNCHANGED <<call, hop, host, headerVars, filterVars, jar, wire, response, course>>

(* CheckRedirect, where via holds hop + 1 requests.                          *)
Stops == ~ call.allow \/ (call.limit >= 0 /\ hop + 1 >= call.limit)

Return ==
  /\ pc = "answered"
  /\ response.location = "none" \/ (response.location \in Hosts /\ Stops)
  /\ pc' = "returned"
  /\ UNCHANGED <<call, hop, host, headerVars, filterVars, jar, wire, response, course>>

(* net/http's next request, with the header that it copies.                  *)
Leaves(next) == <<Home, next>> \notin Within

Redirect ==
  /\ pc = "answered"
  /\ response.location \in Hosts /\ ~ Stops
  /\ hop < MaxHops
  /\ pc' = "ready" /\ hop' = hop + 1 /\ host' = response.location
  /\ explicit' = (explicit /\ response.cookie = "none")
  /\ stripped' = (stripped \/ Leaves(response.location))
  /\ carried' = (explicit' /\ IF sticky THEN ~ stripped' ELSE <<host, response.location>> \in Within)
  /\ course' = IF course = "opaque" \/ response.location \in Opaque THEN "opaque"
               ELSE IF CanForward(host, response.location) THEN course ELSE "out"
  /\ UNCHANGED <<call, sticky, filterVars, jar, wire, response>>

Next == \/ Send \/ Fail \/ Return \/ Redirect
        \/ \E r \in Responses : Respond(r)

Spec == Init /\ [][Next]_vars

-------------------------------------------------------------------------------
(* Types; there are no more requests than maxRedirects, but one.             *)
TypeOK ==
  /\ call \in Calls
  /\ pc \in {"ready", "sent", "answered", "returned", "failed"}
  /\ host \in Hosts /\ previous \in Hosts /\ jar \subseteq Hosts
  /\ sticky \in BOOLEAN /\ course \in {"down", "out", "opaque"}
  /\ explicit \in BOOLEAN /\ carried \in BOOLEAN /\ stripped \in BOOLEAN /\ overrides \in BOOLEAN
  /\ wire \subseteq {"explicit", "jar"} /\ response \in Responses
  /\ hop \in 0 .. MaxHops
  /\ hop > 0 => call.allow /\ (call.limit < 0 \/ hop < call.limit)

(* The documented precedence of the explicit value over the jar's, for any   *)
(* chain: no request is sent with both, and a host that the jar has a cookie *)
(* for gets the one or the other.                                            *)
OneValue == wire # {"explicit", "jar"}
NothingWithheld == host \in jar => wire # {}
Precedence == pc = "sent" => OneValue /\ NothingWithheld

(* What is true of it.  Once a response has set the cookie, or if the caller *)
(* gave none, the jar's value goes where the jar has one, and nothing else.  *)
(* Until then the explicit value goes, alone, along redirects into the same  *)
(* domain.  The rest of the documented precedence holds where each hop is    *)
(* compared with the one before it, between hosts that can be compared.      *)
RightValue ==
  pc = "sent" =>
    /\ ~ explicit => wire = IF host \in jar THEN {"jar"} ELSE {}
    /\ explicit /\ course = "down" => wire = {"explicit"}
    /\ ~ sticky /\ course # "opaque" => OneValue /\ NothingWithheld

(* A redirect is returned to the caller only after maxRedirects others have  *)
(* been followed.                                                            *)
FollowsAsMany ==
  pc = "returned" /\ response.location \in Hosts /\ call.allow => hop >= call.limit
===============================================================================
