---------------------------- MODULE DoStreamProofs -----------------------------
(* Theorems about DoStream, for any number of redirects and any origins.     *)
EXTENDS DoStream, TLAPS

(* Hops ahead have nothing yet, but for the body just opened; earlier hops   *)
(* have given all up.                                                        *)
HopInv ==
  /\ \A h \in Hops : h > hop => uploads[h] = "none" /\ responses[h] = "none"
  /\ \A h \in Hops : h < hop => responses[h] \in {"none", "closed"}
  /\ \A h \in Hops : uploads[h] = "mine" => h = hop /\ pc \in {"setup", "top"} /\ body
  /\ pc = "setup" => hop = 0 /\ uploads[0] # "sent"
  /\ pc \in {"setup", "top", "sent"} => responses[hop] = "none"
  /\ responses[hop] = "open" => pc \in {"joining", "judging"}
  /\ responses[hop] = "handed" => pc = "done" /\ outcome = "stream"
  /\ outcome # "none" <=> pc = "done"

(* A body that was sent in one hop was sent in all before it, and one that   *)
(* cannot be sent again is not kept for a second hop.                        *)
BodyInv ==
  /\ BodyNotResent
  /\ replay => body
  /\ call.body = "once" => ~ replay /\ (body => hop = 0)
  /\ body => \A g \in Hops : g < hop => uploads[g] # "none"
  /\ uploads[hop] # "none" => body
  /\ body /\ pc \in {"sent", "joining", "judging"} => uploads[hop] # "none"

(* The credentials go along until a redirect leaves the first origin.        *)
HomeInv ==
  /\ ~ away => origin = Home
  /\ auth <=> ~ away
  /\ explicit <=> ~ away /\ jar = {}

CallInv ==
  /\ TypeOK /\ HopInv /\ NothingLeaks /\ HeaderTimerJoined /\ HomeInv
  /\ pc \in {"setup", "top", "judging", "done"} => timer = "off"
  /\ pc = "setup" => cause = "none"
  /\ pc = "judging" => cause # "header"

CallIInv == CallInv /\ BodyInv

Acts == \/ Step \/ Answer \/ AnswerFails \/ Fire \/ Fired \/ EndExchange \/ CloseStream
        \/ \E h \in Hops : TransportCloses(h) \/ UploadCancelled(h)

(* The initial states satisfy the invariant.                                 *)
LEMMA CallInit == Init => CallIInv
<1> SUFFICES ASSUME Init PROVE CallIInv
  OBVIOUS
<1> USE MaxRedirectsAssumption, HomeAssumption DEF Init
<1>1. 0 \in Hops /\ \A h \in Hops : h >= 0
  BY DEF Hops
<1>2. TypeOK
  <2>1. body \in BOOLEAN /\ replay \in BOOLEAN
    BY Zenon
  <2>2. \A h \in Hops : (IF h = 0 /\ call.body = "once" THEN "mine" ELSE "none") \in {"none", "mine", "sent", "closed"}
    OBVIOUS
  <2>3. /\ uploads \in [Hops -> {"none", "mine", "sent", "closed"}]
        /\ responses \in [Hops -> {"none", "open", "handed", "closed"}]
    BY <2>2
  <2>4. /\ call \in Calls /\ pc = "setup" /\ outcome = "none" /\ cause = "none" /\ timer = "off"
        /\ hop \in Hops /\ origin \in Origins /\ jar = {} /\ auth \in BOOLEAN /\ explicit \in BOOLEAN
        /\ away \in BOOLEAN /\ answer = Failed
    BY <1>1
  <2> HIDE DEF Init
  <2> QED
    BY <2>1, <2>3, <2>4 DEF TypeOK
<1>3. \A h \in Hops : /\ uploads[h] = IF h = 0 /\ call.body = "once" THEN "mine" ELSE "none"
                      /\ responses[h] = "none"
  OBVIOUS
<1>4. HopInv /\ NothingLeaks /\ BodyInv
  BY <1>1, <1>3 DEF HopInv, NothingLeaks, BodyInv, BodyNotResent, Calls, Hops
<1>5. HomeInv
  BY DEF HomeInv
<1> QED
  BY <1>2, <1>4, <1>5 DEF CallIInv, CallInv, HeaderTimerJoined

(* Every step keeps the types.                                               *)
LEMMA TypeNext == CallIInv /\ Acts => TypeOK'
<1> SUFFICES ASSUME CallIInv, Acts PROVE TypeOK'
  OBVIOUS
<1> USE MaxRedirectsAssumption
    DEF CallIInv, CallInv, TypeOK, headVars, ctxVars, Cancel, Dropped, ClosedHere, Fail
<1>1. CASE SetupFails \/ Setup \/ RequestFails
  BY <1>1 DEF SetupFails, Setup, RequestFails
<1>2. CASE Send
  BY <1>2 DEF Send
<1>3. CASE Answer \/ AnswerFails
  BY <1>3 DEF Answer, AnswerFails
<1>4. CASE Join
  BY <1>4 DEF Join
<1>5. CASE Handover
  BY <1>5 DEF Handover, TakeCookies
<1>6. CASE RedirectFails
  BY <1>6 DEF RedirectFails, TakeCookies
<1>7. CASE Redirect
  <2>1. hop + 1 \in Hops
    BY <1>7 DEF Redirect, Last, Hops
  <2> QED
    BY <1>7, <2>1 DEF Redirect, TakeCookies, NextBody, CanForward, Answers
<1>8. CASE Fire \/ Fired \/ EndExchange \/ CloseStream
  BY <1>8 DEF Fire, Fired, EndExchange, CloseStream
<1>9. CASE \E h \in Hops : TransportCloses(h) \/ UploadCancelled(h)
  BY <1>9 DEF TransportCloses, UploadCancelled
<1> QED
  BY <1>1, <1>2, <1>3, <1>4, <1>5, <1>6, <1>7, <1>8, <1>9 DEF Acts, Step

(* Every step keeps what is known of the hops behind and ahead.              *)
LEMMA HopNext == CallIInv /\ Acts => HopInv'
<1> SUFFICES ASSUME CallIInv, Acts PROVE HopInv'
  OBVIOUS
<1> USE MaxRedirectsAssumption
    DEF CallIInv, CallInv, TypeOK, HopInv, headVars, ctxVars, Cancel, Dropped, ClosedHere, Fail, Hops
<1>1. CASE SetupFails \/ Setup \/ RequestFails
  BY <1>1 DEF SetupFails, Setup, RequestFails
<1>2. CASE Send
  BY <1>2 DEF Send
<1>3. CASE Answer \/ AnswerFails
  BY <1>3 DEF Answer, AnswerFails
<1>4. CASE Join
  <2>1. CASE cause # "none" \/ answer = Failed
    <3>1. /\ pc' = "done" /\ outcome' = "error" /\ UNCHANGED hop
          /\ responses' = ClosedHere /\ uploads' = Dropped
      BY <1>4, <2>1 DEF Join
    <3>2. pc = "joining" /\ hop \in Hops
      BY <1>4 DEF Join
    <3>3. \A h \in Hops : responses'[h] = IF h = hop /\ responses[h] = "open" THEN "closed" ELSE responses[h]
      BY <3>1, <3>2
    <3>4. \A h \in Hops : uploads[h] # "mine" /\ uploads'[h] = uploads[h]
      BY <3>1, <3>2
    <3>5. \A h \in Hops : responses[h] # "handed"
      BY <3>2
    <3>6. \A h \in Hops : /\ h > hop => uploads'[h] = "none" /\ responses'[h] = "none"
                          /\ h < hop => responses'[h] \in {"none", "closed"}
                          /\ uploads'[h] # "mine"
                          /\ responses'[h] \notin {"open", "handed"}
      BY <3>2, <3>3, <3>4, <3>5
    <3> HIDE DEF CallIInv, CallInv, TypeOK, ClosedHere, Dropped, Hops
    <3> QED
      BY <3>1, <3>2, <3>6
  <2>2. CASE ~ (cause # "none" \/ answer = Failed)
    BY <1>4, <2>2 DEF Join
  <2> QED
    BY <2>1, <2>2
<1>5. CASE Handover
  BY <1>5 DEF Handover
<1>6. CASE RedirectFails
  BY <1>6 DEF RedirectFails
<1>7. CASE Redirect
  <2>1. /\ pc = "judging" /\ pc' = "top" /\ hop' = hop + 1 /\ hop' \in Hops
        /\ UNCHANGED outcome /\ responses' = ClosedHere
    BY <1>7 DEF Redirect, Last
  <2>2. \A h \in Hops : responses'[h] = IF h = hop /\ responses[h] = "open" THEN "closed" ELSE responses[h]
    BY <2>1
  <2>3. \A h \in Hops : uploads[h] # "mine" /\ (h # hop' => uploads'[h] = uploads[h])
    BY <1>7, <2>1 DEF Redirect, NextBody
  <2>4. uploads'[hop'] = "mine" => body'
    BY <1>7, <2>1, <2>3 DEF Redirect, NextBody
  <2>5. \A h \in Hops : /\ h > hop' => h > hop /\ h # hop'
                        /\ h < hop' => h < hop \/ h = hop
    BY <2>1
  <2>6. \A h \in Hops : /\ h > hop' => uploads'[h] = "none" /\ responses'[h] = "none"
                        /\ h < hop' => responses'[h] \in {"none", "closed"}
                        /\ uploads'[h] = "mine" => h = hop'
    BY <2>1, <2>2, <2>3, <2>5
  <2>7. responses'[hop'] = "none"
    BY <2>1, <2>2
  <2> HIDE DEF CallIInv, CallInv, TypeOK, ClosedHere, Dropped, Hops
  <2>8. outcome = "none"
    BY <2>1 DEF CallIInv, CallInv
  <2> QED
    BY <2>1, <2>4, <2>6, <2>7, <2>8
<1>8. CASE Fire \/ Fired \/ EndExchange \/ CloseStream
  BY <1>8 DEF Fire, Fired, EndExchange, CloseStream
<1>9. CASE \E h \in Hops : TransportCloses(h) \/ UploadCancelled(h)
  BY <1>9 DEF TransportCloses, UploadCancelled
<1> QED
  BY <1>1, <1>2, <1>3, <1>4, <1>5, <1>6, <1>7, <1>8, <1>9 DEF Acts, Step

(* Every step keeps what is known of the bodies that were sent.              *)
LEMMA BodyNext == CallIInv /\ Acts => BodyInv'
<1> SUFFICES ASSUME CallIInv, Acts PROVE BodyInv'
  OBVIOUS
<1> USE MaxRedirectsAssumption
    DEF CallIInv, CallInv, TypeOK, HopInv, BodyInv, BodyNotResent, headVars, ctxVars, Dropped, Fail, Hops
<1>1. CASE SetupFails \/ Setup \/ RequestFails
  BY <1>1 DEF SetupFails, Setup, RequestFails
<1>2. CASE Send
  BY <1>2 DEF Send
<1>3. CASE Answer \/ AnswerFails
  BY <1>3 DEF Answer, AnswerFails
<1>4. CASE Join
  BY <1>4 DEF Join
<1>5. CASE Handover
  BY <1>5 DEF Handover
<1>6. CASE RedirectFails
  BY <1>6 DEF RedirectFails
<1>7. CASE Redirect
  BY <1>7 DEF Redirect, NextBody, Last
<1>8. CASE Fire \/ Fired \/ EndExchange \/ CloseStream
  BY <1>8 DEF Fire, Fired, EndExchange, CloseStream
<1>9. CASE \E h \in Hops : TransportCloses(h) \/ UploadCancelled(h)
  BY <1>9 DEF TransportCloses, UploadCancelled
<1> QED
  BY <1>1, <1>2, <1>3, <1>4, <1>5, <1>6, <1>7, <1>8, <1>9 DEF Acts, Step

(* Every step keeps what is known of the credentials.                        *)
LEMMA HomeNext == CallIInv /\ Acts => HomeInv'
<1> SUFFICES ASSUME CallIInv, Acts PROVE HomeInv'
  OBVIOUS
<1>0. HomeInv
  BY DEF CallIInv, CallInv
<1>1. CASE UNCHANGED headVars
  BY <1>0, <1>1 DEF HomeInv, headVars
<1>2. CASE Handover \/ RedirectFails
  <2>1. UNCHANGED <<origin, auth, away>> /\ TakeCookies(TRUE)
    BY <1>2 DEF Handover, RedirectFails
  <2>2. CASE answer.cookie
    <3>1. jar' # {} /\ ~ explicit'
      BY <2>1, <2>2 DEF TakeCookies
    <3> QED
      BY <1>0, <2>1, <3>1 DEF HomeInv
  <2>3. CASE ~ answer.cookie
    <3>1. jar' = jar /\ (explicit' <=> explicit)
      BY <2>1, <2>3 DEF TakeCookies
    <3> QED
      BY <1>0, <2>1, <3>1 DEF HomeInv
  <2> QED
    BY <2>2, <2>3
<1>3. CASE Redirect
  <2>1. /\ origin' = answer.location
        /\ auth' <=> auth /\ origin' = Home
        /\ away' <=> away \/ origin' # Home
        /\ TakeCookies(answer.location = Home)
    BY <1>3, Zenon DEF Redirect, CanForward
  <2>2. CASE answer.cookie
    <3>1. jar' # {} /\ ~ explicit'
      BY <2>1, <2>2 DEF TakeCookies
    <3> QED
      BY <1>0, <2>1, <3>1 DEF HomeInv
  <2>3. CASE ~ answer.cookie
    <3>1. jar' = jar /\ (explicit' <=> explicit /\ origin' = Home)
      BY <2>1, <2>3 DEF TakeCookies
    <3> QED
      BY <1>0, <2>1, <3>1 DEF HomeInv
  <2> QED
    BY <2>2, <2>3
<1>4. CASE \/ SetupFails \/ Setup \/ RequestFails \/ Send \/ Join \/ Answer \/ AnswerFails
           \/ Fire \/ Fired \/ EndExchange \/ CloseStream
           \/ \E h \in Hops : TransportCloses(h) \/ UploadCancelled(h)
  BY <1>1, <1>4 DEF SetupFails, Setup, RequestFails, Send, Join, Answer, AnswerFails, Fire, Fired,
     EndExchange, CloseStream, TransportCloses, UploadCancelled
<1> QED
  BY <1>2, <1>3, <1>4 DEF Acts, Step

(* Every step keeps what is known of the context and its timer.              *)
LEMMA ContextNext ==
  CallIInv /\ Acts =>
    /\ HeaderTimerJoined'
    /\ (pc \in {"setup", "top", "judging", "done"} => timer = "off")'
    /\ (pc = "setup" => cause = "none")'
    /\ (pc = "judging" => cause # "header")'
<1> USE DEF CallIInv, CallInv, TypeOK, HopInv, headVars, ctxVars, Cancel, Fail, HeaderTimerJoined
<1>1. ASSUME CallIInv, SetupFails \/ Setup \/ RequestFails \/ Send \/ Answer \/ AnswerFails
      PROVE  ContextNext!2
  BY <1>1 DEF SetupFails, Setup, RequestFails, Send, Answer, AnswerFails
<1>2. ASSUME CallIInv, Join PROVE ContextNext!2
  BY <1>2 DEF Join
<1>3. ASSUME CallIInv, Handover \/ RedirectFails PROVE ContextNext!2
  <2>1. /\ pc = "judging" /\ timer = "off" /\ UNCHANGED timer
        /\ pc' = "done" /\ (outcome' = "stream" => cause' = cause)
    BY <1>3 DEF Handover, RedirectFails
  <2> QED
    BY <1>3, <2>1
<1>6. ASSUME CallIInv, Redirect PROVE ContextNext!2
  <2>1. /\ pc = "judging" /\ timer = "off" /\ pc' = "top" /\ UNCHANGED <<timer, cause, outcome>>
    BY <1>6 DEF Redirect
  <2> QED
    BY <1>6, <2>1
<1>4. ASSUME CallIInv, Fire \/ Fired \/ EndExchange \/ CloseStream PROVE ContextNext!2
  BY <1>4 DEF Fire, Fired, EndExchange, CloseStream
<1>5. ASSUME CallIInv, NEW h \in Hops, TransportCloses(h) \/ UploadCancelled(h) PROVE ContextNext!2
  BY <1>5 DEF TransportCloses, UploadCancelled
<1> QED
  BY <1>1, <1>2, <1>3, <1>4, <1>5, <1>6 DEF Acts, Step

(* Nothing is lost by any step.                                              *)
LEMMA LeakNext == CallIInv /\ Acts /\ TypeOK' /\ HopInv' => NothingLeaks'
<1> SUFFICES ASSUME CallIInv, Acts, TypeOK', HopInv' PROVE NothingLeaks'
  OBVIOUS
<1>1. \A h \in Hops : responses'[h] \in {"open", "handed"} => h = hop'
  <2>1. hop' \in Hops /\ \A h \in Hops : h < hop' \/ h = hop' \/ h > hop'
    BY MaxRedirectsAssumption DEF TypeOK, Hops
  <2> QED
    BY <2>1 DEF HopInv
<1>2. ASSUME pc' = "done", NEW h \in Hops PROVE uploads'[h] # "mine" /\ responses'[h] # "open"
  BY <1>1, <1>2 DEF HopInv
<1>3. ASSUME pc' = "done", outcome' = "error", NEW h \in Hops PROVE responses'[h] # "handed"
  BY <1>1, <1>3 DEF HopInv
<1>4. ASSUME pc' = "done", outcome' = "error", NEW h \in Hops, uploads'[h] = "sent"
      PROVE  cause' # "none"
  <2> USE <1>4 DEF CallIInv, CallInv, TypeOK, HopInv, NothingLeaks, headVars, ctxVars, Cancel, Fail, Dropped
  <2>1. CASE SetupFails
    <3>1. uploads[h] = "sent" /\ pc = "setup" /\ hop = 0
      BY <2>1 DEF SetupFails
    <3>2. h = 0
      BY <3>1, MaxRedirectsAssumption DEF Hops
    <3> QED
      BY <3>1, <3>2
  <2>2. CASE RequestFails \/ Join \/ RedirectFails
    BY <2>2 DEF RequestFails, Join, RedirectFails
  <2>3. CASE Setup \/ Send \/ Answer \/ AnswerFails \/ Handover \/ Redirect
    BY <2>3 DEF Setup, Send, Answer, AnswerFails, Handover, Redirect
  <2>4. CASE Fire \/ Fired \/ EndExchange \/ CloseStream
    BY <2>4 DEF Fire, Fired, EndExchange, CloseStream
  <2>5. CASE \E k \in Hops : TransportCloses(k) \/ UploadCancelled(k)
    BY <2>5 DEF TransportCloses, UploadCancelled
  <2> QED
    BY <2>1, <2>2, <2>3, <2>4, <2>5 DEF Acts, Step
<1> QED
  BY <1>1, <1>2, <1>3, <1>4 DEF NothingLeaks

(* Every step preserves the invariant.                                       *)
LEMMA CallNext == CallIInv /\ [Next]_vars => CallIInv'
<1>1. CASE Acts
  BY <1>1, TypeNext, HopNext, BodyNext, HomeNext, ContextNext, LeakNext DEF CallIInv, CallInv
<1>2. CASE UNCHANGED vars
  BY <1>2 DEF vars, headVars, ctxVars, CallIInv, CallInv, TypeOK, HopInv, BodyInv, BodyNotResent,
              NothingLeaks, HeaderTimerJoined, HomeInv
<1> QED
  BY <1>1, <1>2 DEF Next, Acts, Returned

(* In every reachable state the types hold: there is no redirect too many.   *)
THEOREM TypeCorrect == Spec => []TypeOK
<1>1. CallIInv => TypeOK
  BY DEF CallIInv, CallInv
<1> QED
  BY <1>1, CallInit, CallNext, PTL DEF Spec

(* Every return of the call closes what it held.                             *)
THEOREM NeverLeaks == Spec => []NothingLeaks
<1>1. CallIInv => NothingLeaks
  BY DEF CallIInv, CallInv
<1> QED
  BY <1>1, CallInit, CallNext, PTL DEF Spec

(* Credentials go to no other origin, stay away once dropped, and are kept   *)
(* until then.                                                               *)
THEOREM CredentialsNeverLeaveHome == Spec => []CredentialsStayHome
<1>1. CallIInv => CredentialsStayHome
  BY Zenon DEF CallIInv, CallInv, HomeInv, TypeOK, CredentialsStayHome
<1> QED
  BY <1>1, CallInit, CallNext, PTL DEF Spec

(* No body is sent that cannot or must not be sent again.                    *)
THEOREM NeverResent == Spec => []BodyNotResent
<1>1. CallIInv => BodyNotResent
  BY DEF CallIInv, BodyInv
<1> QED
  BY <1>1, CallInit, CallNext, PTL DEF Spec

(* The stream that is handed over is safe from the header timer.             *)
THEOREM StreamOutlivesTimer == Spec => []HeaderTimerJoined
<1>1. CallIInv => HeaderTimerJoined
  BY DEF CallIInv, CallInv
<1> QED
  BY <1>1, CallInit, CallNext, PTL DEF Spec

(* The call hands over a stream that nothing will cancel, and keeps nothing. *)
THEOREM HandsOverCleanly == Spec => []HandoverIsClean
<1>1. NothingLeaks /\ HeaderTimerJoined => HandoverIsClean
  BY DEF HandoverIsClean
<1> QED
  BY <1>1, NeverLeaks, StreamOutlivesTimer, PTL

(* A redirect that repeats the request keeps its body.                       *)
THEOREM BodyGoesAlong == Spec => RedirectKeepsBody
<1>1. ASSUME CallIInv, Redirect, Preserve PROVE body' = body
  <2>1. (replay <=> body) /\ body \in BOOLEAN /\ replay \in BOOLEAN
    BY <1>1 DEF CallIInv, CallInv, TypeOK, BodyInv, Redirect, Last
  <2>2. body' = replay
    BY <1>1 DEF Redirect, NextBody
  <2> QED
    BY <2>1, <2>2, Zenon
<1>2. ASSUME [Next]_vars, ~ Redirect PROVE hop' = hop
  BY <1>2 DEF Next, Step, Returned, vars, headVars, SetupFails, Setup, RequestFails, Send, Join, Handover,
       RedirectFails, Answer, AnswerFails, Fire, Fired, EndExchange, CloseStream, TransportCloses, UploadCancelled
<1>3. CallIInv /\ [Next]_vars => [hop' # hop /\ Preserve => body' = body]_vars
  BY <1>1, <1>2
<1> QED
  BY <1>3, CallInit, CallNext, PTL DEF Spec, RedirectKeepsBody
===============================================================================
