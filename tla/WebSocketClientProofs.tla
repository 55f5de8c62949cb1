------------------------- MODULE WebSocketClientProofs -------------------------
(* Theorems about WebSocketClient, for any number of calls and writers.      *)
EXTENDS WebSocketClient, TLAPS

Installed(c) == call[c] \in {"start", "spawn", "returned"}

(* What is known of a connection from where the call that dialled it is.     *)
ConnInv ==
  /\ \A c \in Calls : /\ socket[c] # "none" => call[c] = "install" \/ Installed(c)
                      /\ call[c] = "install" => socket[c] # "none"
  /\ conn # None => Installed(conn) /\ socket[conn] # "none"
  /\ stopCh # None => call[stopCh] \in {"spawn", "returned"}
  /\ \A c \in closedCh : call[c] \in {"spawn", "returned"}
  /\ \A k \in Calls : call[k] \in {"frame", "shut"} =>
       Installed(taken[k]) /\ socket[taken[k]] # "none"
  /\ taken \in [Calls -> Calls \cup {None}]
  /\ target \in [Writers -> Calls \cup {None}]

ClientInv == TypeOK /\ NoConnLeaks /\ ShutOnce /\ ConnInv

(* The initial states satisfy the invariant.                                 *)
LEMMA ClientInit == Init => ClientInv
<1> SUFFICES ASSUME Init PROVE ClientInv
  OBVIOUS
<1>1. TypeOK
  BY CallsAssumption DEF Init, TypeOK, Results
<1>2. NoConnLeaks /\ ShutOnce /\ ConnInv
  BY DEF Init, NoConnLeaks, ShutOnce, ConnInv
<1> QED
  BY <1>1, <1>2 DEF ClientInv

(* Where AfterClose leads to.                                                *)
LEMMA AfterCloseResult ==
  ASSUME NEW c \in Calls, NEW err
  PROVE  AfterClose(c, err) \in {"returned", "closeFailed", "check"}
  BY DEF AfterClose

(* Every step preserves the invariant: one case per action.                  *)
LEMMA ClientNext == ClientInv /\ [Next]_vars => ClientInv'
<1> SUFFICES ASSUME ClientInv, [Next]_vars PROVE ClientInv'
  OBVIOUS
<1> USE CallsAssumption
    DEF ClientInv, TypeOK, NoConnLeaks, ShutOnce, ConnInv, Installed, Results,
        connVars, bgVars, writeVars, closeVars, listenVars, Goto
<1>1. ASSUME NEW c \in Calls, Check(c) PROVE ClientInv'
  BY <1>1 DEF Check
<1>2. ASSUME NEW c \in Calls, Dial(c) PROVE ClientInv'
  BY <1>2 DEF Dial
<1>3. ASSUME NEW c \in Calls, Install(c) PROVE ClientInv'
  <2>1. CASE conn = None
    <3>1. socket' = socket /\ conn' = c /\ call' = [call EXCEPT ![c] = "start"]
      BY <1>3, <2>1 DEF Install
    <3>2. UNCHANGED <<stopCh, closedCh, writer, target, taken, signalled, closeErr,
                      listener, ctxDone>>
      BY <1>3 DEF Install
    <3>3. call[c] = "install"
      BY <1>3 DEF Install
    <3>4. TypeOK'
      BY <3>1, <3>2, <3>3
    <3>5. NoConnLeaks' /\ ShutOnce'
      BY <2>1, <3>1, <3>2, <3>3
    <3>6. ConnInv'
      BY <3>1, <3>2, <3>3
    <3> QED
      BY <3>4, <3>5, <3>6
  <2>2. CASE conn # None
    <3>1. conn' = conn /\ socket' = [socket EXCEPT ![c] = "closed"]
          /\ call' = [call EXCEPT ![c] = "returned"]
      BY <1>3, <2>2 DEF Install
    <3>2. UNCHANGED <<stopCh, closedCh, writer, target, taken, signalled, closeErr,
                      listener, ctxDone>>
      BY <1>3 DEF Install
    <3>3. call[c] = "install"
      BY <1>3 DEF Install
    <3>4. TypeOK'
      BY <3>1, <3>2, <3>3
    <3>5. NoConnLeaks' /\ ShutOnce'
      BY <2>2, <3>1, <3>2, <3>3
    <3>6. ConnInv'
      BY <3>1, <3>2, <3>3
    <3> QED
      BY <3>4, <3>5, <3>6
  <2> QED
    BY <2>1, <2>2
<1>4. ASSUME NEW c \in Calls, StartBackground(c) PROVE ClientInv'
  BY <1>4 DEF StartBackground
<1>5. ASSUME NEW c \in Calls, Spawn(c) PROVE ClientInv'
  BY <1>5 DEF Spawn
<1>6. ASSUME NEW c \in Calls, SignalBackground(c) PROVE ClientInv'
  BY <1>6 DEF SignalBackground
<1>7. ASSUME NEW c \in Calls, Take(c) PROVE ClientInv'
  <2>1. call[c] = "take" /\ conn' = None /\ taken' = [taken EXCEPT ![c] = conn]
        /\ UNCHANGED <<socket, stopCh, closedCh, writer, target, signalled, closeErr,
                       listener, ctxDone>>
    BY <1>7 DEF Take
  <2> DEFINE pc == IF conn # None THEN "frame"
                   ELSE IF signalled[c] THEN "wait" ELSE AfterClose(c, FALSE)
  <2>2. call' = [call EXCEPT ![c] = pc]
    BY <1>7 DEF Take
  <2>3. /\ pc \in {"frame", "wait", "returned", "closeFailed", "check"}
        /\ pc = "frame" <=> conn # None
    BY AfterCloseResult
  <2> HIDE DEF pc
  <2>4. TypeOK'
    BY <2>1, <2>2, <2>3
  <2>5. NoConnLeaks'
    BY <2>1, <2>2, <2>3
  <2>6. ShutOnce'
    BY <2>1, <2>2, <2>3
  <2>7. ConnInv'
    BY <2>1, <2>2, <2>3
  <2> QED
    BY <2>4, <2>5, <2>6, <2>7
<1>8. ASSUME NEW c \in Calls, SendFrame(c) PROVE ClientInv'
  BY <1>8 DEF SendFrame
<1>9. ASSUME NEW c \in Calls, Shut(c) PROVE ClientInv'
  BY <1>9, AfterCloseResult DEF Shut
<1>10. ASSUME NEW c \in Calls, Wait(c) \/ WaitReturns(c) PROVE ClientInv'
  BY <1>10, AfterCloseResult DEF Wait, WaitReturns
<1>11. ASSUME NEW c \in Calls, Listen(c) \/ Listening(c) PROVE ClientInv'
  BY <1>11 DEF Listen, Listening, Recv, Read, Disarm
<1>12. ASSUME NEW c \in Calls, Break(c) \/ Cancel(c) PROVE ClientInv'
  BY <1>12 DEF Break, Cancel
<1>13. ASSUME NEW w \in Writers, Write(w) \/ HeartbeatStops(w) PROVE ClientInv'
  BY <1>13 DEF Write, Require, LockSend, WriteOk, WriteFails, HeartbeatStops, Done
<1>14. CASE UNCHANGED vars
  BY <1>14 DEF vars
<1> QED
  BY <1>1, <1>2, <1>3, <1>4, <1>5, <1>6, <1>7, <1>8, <1>9, <1>10, <1>11, <1>12,
     <1>13, <1>14
  DEF Next, Connect, CloseRest, Writers

(* In every reachable state the types hold; in particular Close never closes *)
(* a stop channel twice, and whoever writes holds a connection that was      *)
(* dialled.                                                                  *)
THEOREM TypeCorrect == Spec => []TypeOK
<1>1. ClientInv => TypeOK
  BY DEF ClientInv
<1> QED
  BY <1>1, ClientInit, ClientNext, PTL DEF Spec

(* Connect, Close, Reconnect and Listen, however they interleave, leave no   *)
(* connection open that nobody will close.                                   *)
THEOREM ConnectionsNeverLeak == Spec => []NoConnLeaks
<1>1. ClientInv => NoConnLeaks
  BY DEF ClientInv
<1> QED
  BY <1>1, ClientInit, ClientNext, PTL DEF Spec

(* Each connection is shut by one call, and never while it is the client's.  *)
THEOREM EachShutOnce == Spec => []ShutOnce
<1>1. ClientInv => ShutOnce
  BY DEF ClientInv
<1> QED
  BY <1>1, ClientInit, ClientNext, PTL DEF Spec
==============================================================================
