------------------------------- MODULE DoStream --------------------------------
(*****************************************************************************)
(* httpclienttls.Client.DoStream: one call, with its chain of redirects.     *)
(* Hop h sends a request, perhaps with an upload, and gets a response; the   *)
(* call must close, or hand over, every body it holds, whichever of its many *)
(* returns it takes.  A context with a cause binds the hops, their uploads   *)
(* and the stream that is returned; a timer cancels it when the headers of a *)
(* hop are late.                                                             *)
(*                                                                           *)
(* The transport is external: it answers or fails, late or never before the  *)
(* context ends, and closes an upload when it likes.                         *)
(*****************************************************************************)
EXTENDS Naturals

CONSTANTS MaxRedirects,  \* maxRedirects
          Origins,       \* scheme, host and port of a URL
          Home           \* that of the first one

ASSUME MaxRedirectsAssumption == MaxRedirects \in Nat
ASSUME HomeAssumption == Home \in Origins

VARIABLES call,       \* what the caller asked for
          pc, outcome,
          cause, timer,
          hop, origin,
          body,       \* currentBody # nil
          replay,     \* request.GetBody # nil
          auth,       \* the headers hold Authorization or Cookie
          explicit,   \* explicitCookies hold the cookie of the model
          jar,        \* the origins the jar has that cookie of
          away,       \* history: the call has been redirected away from Home
          answer,     \* what inner.Do returned
          uploads,    \* uploads[h]: the body sent in hop h
          responses   \* responses[h]: the body received in hop h

headVars == <<call, hop, origin, body, replay, auth, explicit, jar, away>>
ctxVars  == <<cause, timer>>
vars == <<headVars, ctxVars, pc, outcome, answer, uploads, responses>>

Hops == 0 .. MaxRedirects
Calls == [body : {"none", "replay", "once"}, allow : BOOLEAN, header : BOOLEAN]
Statuses == {"ok", "see", "keep"}            \* 2xx.., 301-303, 307 and 308
Locations == Origins \cup {"none", "bad"}
Answers == [status : Statuses, location : Locations, cookie : BOOLEAN]
Failed == [status |-> "failed", location |-> "none", cookie |-> FALSE]

(* A reader is the call's own from the start; bytes need no closing.         *)
Init == /\ call \in Calls
        /\ pc = "setup" /\ outcome = "none"
        /\ cause = "none" /\ timer = "off"
        /\ hop = 0 /\ origin = Home
        /\ body \in BOOLEAN /\ (body <=> call.body # "none")
        /\ replay \in BOOLEAN /\ (replay <=> call.body = "replay")
        /\ auth = TRUE /\ explicit = TRUE /\ jar = {} /\ away = FALSE
        /\ answer = Failed
        /\ uploads = [h \in Hops |-> IF h = 0 /\ call.body = "once" THEN "mine" ELSE "none"]
        /\ responses = [h \in Hops |-> "none"]

-------------------------------------------------------------------------------
Cancel(why) == cause' = IF cause = "none" THEN why ELSE cause

(* The deferred functions: cleanup, and pendingBody.Close.                   *)
Dropped == [h \in Hops |-> IF uploads[h] = "mine" THEN "closed" ELSE uploads[h]]
ClosedHere == [responses EXCEPT ![hop] = IF @ = "open" THEN "closed" ELSE @]

Fail ==
  /\ pc' = "done" /\ outcome' = "error"
  /\ Cancel("canceled")
  /\ uploads' = Dropped

(* Bad options, an unusable body, a client misconfigured or closed.          *)
SetupFails ==
  /\ pc = "setup"
  /\ pc' = "done" /\ outcome' = "error"
  /\ uploads' = Dropped
  /\ UNCHANGED <<headVars, ctxVars, answer, responses>>

Setup ==
  /\ pc = "setup"
  /\ pc' = "top"
  /\ UNCHANGED <<headVars, ctxVars, outcome, answer, uploads, responses>>

(* fhttp rejects the request, or its length differs from the body's.         *)
RequestFails ==
  /\ pc = "top"
  /\ Fail
  /\ UNCHANGED <<headVars, timer, answer, responses>>

(* A mutant: only the first hop is timed.                                    *)
SendUntimed ==
  /\ pc = "top"
  /\ pc' = "sent"
  /\ timer' = IF call.header /\ hop = 0 THEN "armed" ELSE "off"
  /\ uploads' = [uploads EXCEPT ![hop] = IF body THEN "sent" ELSE "none"]
  /\ UNCHANGED <<headVars, cause, outcome, answer, responses>>

Send ==
  /\ pc = "top"
  /\ pc' = "sent"
  /\ timer' = IF call.header THEN "armed" ELSE "off"
  /\ uploads' = [uploads EXCEPT ![hop] = IF body THEN "sent" ELSE "none"]
  /\ UNCHANGED <<headVars, cause, outcome, answer, responses>>

Answer ==
  /\ pc = "sent"
  /\ pc' = "joining"
  /\ answer' \in Answers
  /\ responses' = [responses EXCEPT ![hop] = "open"]
  /\ UNCHANGED <<headVars, ctxVars, outcome, uploads>>

(* inner.Do fails; it may return a response all the same.                    *)
AnswerFails ==
  /\ pc = "sent"
  /\ pc' = "joining"
  /\ answer' = Failed
  /\ \E r \in {"none", "open"} : responses' = [responses EXCEPT ![hop] = r]
  /\ UNCHANGED <<headVars, ctxVars, outcome, uploads>>

(* A mutant: an expired timer is not waited for.                             *)
JoinEarly ==
  /\ pc = "joining"
  /\ timer' = IF timer = "armed" THEN "off" ELSE timer
  /\ IF cause # "none" \/ answer = Failed
     THEN Fail /\ responses' = ClosedHere
     ELSE pc' = "judging" /\ UNCHANGED <<cause, outcome, uploads, responses>>
  /\ UNCHANGED <<headVars, answer>>

(* stopHeaderTimer, which waits for a timer that has fired; then the cause   *)
(* is looked at, before the error.                                           *)
Join ==
  /\ pc = "joining"
  /\ timer # "fired"
  /\ timer' = "off"
  /\ IF cause # "none" \/ answer = Failed
     THEN Fail /\ responses' = ClosedHere
     ELSE pc' = "judging" /\ UNCHANGED <<cause, outcome, uploads, responses>>
  /\ UNCHANGED <<headVars, answer>>

-------------------------------------------------------------------------------
(* The response decides.                                                     *)

Preserve == answer.status = "keep"

(* A mutant: a body that cannot be sent again is no reason to stop.          *)
LastForced == \/ ~ call.allow \/ answer.status = "ok"
              \/ answer.location = "none" \/ hop >= MaxRedirects

Last == \/ ~ call.allow \/ answer.status = "ok"
        \/ answer.location = "none" \/ hop >= MaxRedirects
        \/ (Preserve /\ body /\ ~ replay)

(* Response cookies go to the jar and end the explicit ones of their names;  *)
(* all of these end when home is FALSE.                                      *)
TakeCookies(home) ==
  /\ jar' = IF answer.cookie THEN jar \cup {origin} ELSE jar
  /\ explicit' = (explicit /\ ~ answer.cookie /\ home)

Handover ==
  /\ pc = "judging" /\ Last
  /\ pc' = "done" /\ outcome' = "stream"
  /\ TakeCookies(TRUE)
  /\ responses' = [responses EXCEPT ![hop] = "handed"]
  /\ UNCHANGED <<call, hop, origin, body, replay, auth, away, ctxVars, answer, uploads>>

(* The location makes no URL, or GetBody fails after the response is closed. *)
RedirectFails ==
  /\ pc = "judging" /\ ~ Last
  /\ answer.location = "bad" \/ (Preserve /\ replay)
  /\ Fail
  /\ TakeCookies(TRUE)
  /\ responses' = ClosedHere
  /\ UNCHANGED <<call, hop, origin, body, replay, auth, away, timer, answer>>

(* A mutant: with the body dropped, GetBody stays.                           *)
NextBodyKept ==
  IF Preserve
  THEN /\ body' = replay /\ UNCHANGED replay
       /\ uploads' = [uploads EXCEPT ![hop + 1] = IF replay THEN "mine" ELSE "none"]
  ELSE body' = FALSE /\ UNCHANGED <<replay, uploads>>

NextBody ==
  IF Preserve
  THEN /\ body' = replay /\ UNCHANGED replay
       /\ uploads' = [uploads EXCEPT ![hop + 1] = IF replay THEN "mine" ELSE "none"]
  ELSE body' = FALSE /\ replay' = FALSE /\ UNCHANGED uploads

(* A mutant: ports and schemes are not compared.                             *)
CanForwardByHost(next) == next \in Origins

CanForward(next) == next = Home

(* The next hop.  Credentials of the caller never come back once dropped.    *)
Redirect ==
  /\ pc = "judging" /\ ~ Last
  /\ answer.location \in Origins
  /\ pc' = "top"
  /\ responses' = ClosedHere
  /\ NextBody
  /\ origin' = answer.location
  /\ auth' = (auth /\ CanForward(answer.location))
  /\ TakeCookies(CanForward(answer.location))
  /\ away' = (away \/ answer.location # Home)
  /\ hop' = hop + 1
  /\ UNCHANGED <<call, ctxVars, outcome, answer>>

-------------------------------------------------------------------------------
(* Around the call: its timer, its deadline or its caller's context, the     *)
(* transport, and whoever closes the stream.                                 *)

Fire ==
  /\ timer = "armed"
  /\ timer' = "fired"
  /\ UNCHANGED <<headVars, cause, pc, outcome, answer, uploads, responses>>

Fired ==
  /\ timer = "fired"
  /\ Cancel("header")
  /\ timer' = "joined"
  /\ UNCHANGED <<headVars, pc, outcome, answer, uploads, responses>>

EndExchange ==
  /\ pc # "setup" /\ cause = "none"
  /\ Cancel("total")
  /\ UNCHANGED <<headVars, timer, pc, outcome, answer, uploads, responses>>

TransportCloses(h) ==
  /\ uploads[h] = "sent"
  /\ uploads' = [uploads EXCEPT ![h] = "closed"]
  /\ UNCHANGED <<headVars, ctxVars, pc, outcome, answer, responses>>

(* context.AfterFunc of newUploadBody.                                       *)
UploadCancelled(h) ==
  /\ uploads[h] = "sent" /\ cause # "none"
  /\ uploads' = [uploads EXCEPT ![h] = "closed"]
  /\ UNCHANGED <<headVars, ctxVars, pc, outcome, answer, responses>>

CloseStream ==
  /\ responses[hop] = "handed"
  /\ responses' = [responses EXCEPT ![hop] = "closed"]
  /\ Cancel("canceled")
  /\ UNCHANGED <<headVars, timer, pc, outcome, answer, uploads>>

-------------------------------------------------------------------------------
Returned == pc = "done" /\ UNCHANGED vars

Step == \/ SetupFails \/ Setup \/ RequestFails \/ Send \/ Join
        \/ Handover \/ RedirectFails \/ Redirect

Next == \/ Step \/ Answer \/ AnswerFails
        \/ Fire \/ Fired \/ EndExchange \/ CloseStream
        \/ \E h \in Hops : TransportCloses(h) \/ UploadCancelled(h)
        \/ Returned

Spec == Init /\ [][Next]_vars

(* The call goes on, timers fire, functions registered with AfterFunc run,   *)
(* and the transport answers once the context is cancelled.                  *)
FairSpec ==
  /\ Spec
  /\ WF_vars(Step) /\ WF_vars(Fire) /\ WF_vars(Fired)
  /\ WF_vars(cause # "none" /\ (Answer \/ AnswerFails))
  /\ \A h \in Hops : WF_vars(UploadCancelled(h))

-------------------------------------------------------------------------------
(* Types; a response is held only between its arrival and the decision.      *)
TypeOK ==
  /\ call \in Calls
  /\ pc \in {"setup", "top", "sent", "joining", "judging", "done"}
  /\ outcome \in {"none", "error", "stream"}
  /\ cause \in {"none", "canceled", "total", "header"}
  /\ timer \in {"off", "armed", "fired", "joined"}
  /\ hop \in Hops /\ origin \in Origins /\ jar \subseteq Origins
  /\ body \in BOOLEAN /\ replay \in BOOLEAN /\ auth \in BOOLEAN /\ explicit \in BOOLEAN
  /\ away \in BOOLEAN
  /\ answer \in Answers \cup {Failed}
  /\ pc = "judging" => answer \in Answers
  /\ uploads \in [Hops -> {"none", "mine", "sent", "closed"}]
  /\ responses \in [Hops -> {"none", "open", "handed", "closed"}]

(* Whichever way the call returns, no response stays open but the one handed *)
(* to the caller, it holds no upload of its own any more, and after an error *)
(* the context that closes the others is cancelled.                          *)
NothingLeaks ==
  /\ \A h \in Hops : responses[h] \in {"open", "handed"} => h = hop
  /\ pc = "done" =>
       /\ \A h \in Hops : uploads[h] # "mine" /\ responses[h] # "open"
       /\ outcome = "error" =>
            \A h \in Hops : responses[h] # "handed" /\ (uploads[h] = "sent" => cause # "none")

(* Authorization and the caller's own cookies are sent to no origin but the  *)
(* first; they do not come back with a redirect back to it; and as long as   *)
(* no redirect has left it all of them go along, but for a cookie that the   *)
(* server has set.                                                           *)
CredentialsStayHome ==
  pc \in {"top", "sent"} =>
    /\ auth \/ explicit => origin = Home
    /\ auth = ~ away
    /\ explicit = (~ away /\ jar = {})

(* A reader that cannot be opened again is sent once, and a body that was    *)
(* dropped by a redirect is not sent by a later one.                         *)
BodyNotResent ==
  /\ call.body = "once" => \A h \in Hops : h > 0 => uploads[h] = "none"
  /\ \A g, h \in Hops : g < h /\ uploads[g] = "none" => uploads[h] = "none"

(* A redirect that asks for the same request again gets its body too, or is  *)
(* not followed.                                                             *)
RedirectKeepsBody == [][hop' # hop /\ Preserve => body' = body]_vars

(* The stream is not one that the header timer has cancelled, or still may.  *)
HeaderTimerJoined == outcome = "stream" => timer = "off" /\ cause # "header"

(* What the call hands over is the caller's alone, and it keeps nothing      *)
(* else.                                                                     *)
HandoverIsClean == NothingLeaks /\ HeaderTimerJoined

(* With a header timeout the call returns, whatever the server does.         *)
CallReturns == call.header ~> pc = "done"
===============================================================================
