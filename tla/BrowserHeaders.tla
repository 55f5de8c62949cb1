----------------------------- MODULE BrowserHeaders -----------------------------
(*****************************************************************************)
(* The headers of httpclienttls that tell a server about the context of a    *)
(* request, over a chain of redirects: Sec-Fetch-Site, which says how far    *)
(* the chain has been from who began it, and the client hints, with which    *)
(* Sec-Fetch-Mode, -Dest and -User come and go.                              *)
(*****************************************************************************)

CONSTANTS Targets,   \* URLs
          Origin,    \* the origin of each, and
          Site,      \* its scheme and registrable domain
          Https,     \* those with https, and
          Loopback,  \* those on this machine
          NoURL

URLsAssumption == /\ Https \subseteq Targets /\ Loopback \subseteq Targets
                  /\ NoURL \notin Targets /\ "null" \notin Targets \cup {NoURL}

VARIABLES mode,      \* options.BrowserMode
          given,     \* state.explicit
          source,    \* state.source
          site,      \* state.site
          target,
          referer,   \* the header
          sent,      \* the headers of the request
          visited    \* history: the targets so far

headerVars == <<mode, given, source, site, target, referer, sent, visited>>

Modes == {"identity", "navigation", "script", "fetch"}   \* json is like fetch
Keys  == {"site", "hints"}

(* clientHintsAllowed                                                        *)
Trusted == Https \cup Loopback

(* An Origin of "null" has no host, and is far from everything.              *)
FetchSite(from, to) ==
  CASE from = NoURL -> IF mode = "navigation" THEN "none" ELSE "absent"
    [] from = "null" -> "cross-site"
    [] from \in Targets -> IF Origin[from] = Origin[to] THEN "same-origin"
                           ELSE IF Site[from] = Site[to] THEN "same-site"
                           ELSE "cross-site"

(* What the caller gave stays; the rest is for trustworthy targets only.     *)
Headers(to, where) ==
  [k \in Keys |-> IF k \in given THEN "given"
                  ELSE IF to \notin Trusted THEN "absent"
                  ELSE IF k = "site" THEN where
                  ELSE "generated"]

(* newBrowserHeaderState, and the headers of the first request.  The source  *)
(* of a fetch is its Origin, if it has one.                                  *)
Init == /\ mode \in Modes
        /\ given \in SUBSET Keys
        /\ target \in Targets /\ visited = {target}
        /\ referer \in Targets \cup {NoURL}
        /\ source \in IF mode = "fetch" THEN Targets \cup {"null", referer} ELSE {referer}
        /\ site = IF mode = "identity" THEN "absent" ELSE FetchSite(source, target)
        /\ sent = Headers(target, site)

(* A mutant: only the last redirect counts. *)
FartherAtLast(was, now) == now

Farther(was, now) ==
  IF \/ was \in {"none", "cross-site"}
     \/ was = "same-site" /\ now # "cross-site"
  THEN was ELSE now

(* setReferer, then browserHeaderState.redirect.                             *)
Redirect(next) ==
  /\ referer' = IF target \in Https /\ next \notin Https THEN NoURL ELSE target
  /\ site' = IF mode = "identity" THEN site
             ELSE Farther(site, FetchSite(source, next))
  /\ sent' = Headers(next, site')
  /\ target' = next /\ visited' = visited \cup {next}
  /\ UNCHANGED <<mode, given, source>>

Next == \E next \in Targets : Redirect(next)

Spec == Init /\ [][Next]_headerVars

-------------------------------------------------------------------------------
TypeOK == /\ site \in {"absent", "none", "same-origin", "same-site", "cross-site"}
          /\ referer \in Targets \cup {NoURL}
          /\ target \in visited /\ visited \subseteq Targets

(* How far from its source a chain has been.                                 *)
Farthest ==
  LET been == {FetchSite(source, u) : u \in visited}
  IN CHOOSE s \in been :
       /\ "cross-site" \in been => s = "cross-site"
       /\ been = {"same-origin", "same-site"} => s = "same-site"

(* Sec-Fetch-Site tells a trustworthy target, unless the caller gave it, how *)
(* far the chain has been from who began it, and no other target anything.   *)
SiteIsHonest ==
  "site" \notin given =>
    sent["site"] = IF target \in Trusted /\ mode # "identity" THEN Farthest ELSE "absent"

(* A hint sent to a trustworthy target does not go on to another.            *)
HintsFollowTrust ==
  "hints" \notin given => (sent["hints"] = "generated" <=> target \in Trusted)
===============================================================================
