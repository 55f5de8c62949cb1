---------------------------- MODULE WebSocketClient ----------------------------
(*****************************************************************************)
(* websocket.Client: one connection at a time, shared by every goroutine     *)
(* that connects, closes, reconnects, listens or sends, and by the heartbeat *)
(* goroutines a connect starts.  mu guards conn and bgMu guards stopCh, each *)
(* for one step at a time; sendMu is held for the length of a write; bgWG    *)
(* counts the heartbeats.                                                    *)
(*                                                                           *)
(* A connection, and the stop channel made for it, are named by the call     *)
(* that dialled it.  The peer or the network may break a connection at any   *)
(* time, and a write may block for as long as its connection is open.        *)
(*****************************************************************************)
EXTENDS Naturals, FiniteSets

CONSTANTS Calls,    \* the calls of Connect, Close, Reconnect and Listen
          Kind,     \* Kind[c]: which of them c is
          Senders,  \* the calls of Send, Ping and Pong
          Beats,    \* the heartbeats that are enabled
          None      \* nil

Kinds == {"connect", "close", "reconnect", "listen"}

ASSUME CallsAssumption == Kind \in [Calls -> Kinds] /\ None \notin Calls \cup Senders
ASSUME SendersAssumption == Senders \cap (Calls \X Beats) = {}
ASSUME FiniteAssumption == IsFiniteSet(Calls) /\ IsFiniteSet(Beats)

Heartbeats == Calls \X Beats           \* <<c, b>>: started by call c
Writers    == Senders \cup Heartbeats  \* whoever takes sendMu

VARIABLES conn,       \* the connection of the client, or None
          socket,     \* socket[c]: the connection dialled by call c
          stopCh,     \* the stop channel of the client, or None
          closedCh,   \* the stop channels that have been closed
          writer,     \* writer[w]: where a sender or a heartbeat is
          target,     \* target[w]: the connection it took
          call,       \* call[c]: where the call is, or its result
          taken,      \* taken[c]: the connection a closing call took away
          signalled,  \* signalled[c]: it closed a stop channel
          closeErr,   \* closeErr[c]: its close frame or its close has failed
          listener,   \* listener[c]: where the loop of a Listen is
          ctxDone     \* the Listen calls whose context has ended

connVars   == <<conn, socket>>
bgVars     == <<stopCh, closedCh>>
writeVars  == <<writer, target>>
closeVars  == <<taken, signalled, closeErr>>
listenVars == <<listener, ctxDone>>
vars == <<connVars, bgVars, writeVars, call, closeVars, listenVars>>

-------------------------------------------------------------------------------
Alive(w) == writer[w] \in {"tick", "lock", "write"}

(* bgWG and sendMu.                                                          *)
Counted    == {h \in Heartbeats : Alive(h)}
SendMuFree == \A w \in Writers : writer[w] # "write"

Init == /\ conn = None
        /\ socket = [c \in Calls |-> "none"]
        /\ stopCh = None
        /\ closedCh = {}
        /\ writer = [w \in Writers |-> "none"]
        /\ target = [w \in Writers |-> None]
        /\ call = [c \in Calls |-> "new"]
        /\ taken = [c \in Calls |-> None]
        /\ signalled = [c \in Calls |-> FALSE]
        /\ closeErr = [c \in Calls |-> FALSE]
        /\ listener = [c \in Calls |-> "none"]
        /\ ctxDone = {}

Goto(c, pc) == call' = [call EXCEPT ![c] = pc]

-------------------------------------------------------------------------------
(* ConnectContext, called by itself or by Reconnect once Close went well.    *)

Check(c) ==
  /\ \/ Kind[c] = "connect" /\ call[c] = "new"
     \/ call[c] = "check"
  /\ Goto(c, IF conn = None THEN "dial" ELSE "returned")
  /\ UNCHANGED <<connVars, bgVars, writeVars, closeVars, listenVars>>

Dial(c) ==
  /\ call[c] = "dial"
  /\ \/ Goto(c, "install") /\ socket' = [socket EXCEPT ![c] = "open"]
     \/ Goto(c, "dialFailed") /\ UNCHANGED socket
  /\ UNCHANGED <<conn, bgVars, writeVars, closeVars, listenVars>>

(* A mutant: the connection of a faster call is overwritten.                 *)
InstallAlways(c) ==
  /\ call[c] = "install"
  /\ conn' = c
  /\ Goto(c, "start")
  /\ UNCHANGED <<socket, bgVars, writeVars, closeVars, listenVars>>

(* The second look: a connection that came too late is closed.               *)
Install(c) ==
  /\ call[c] = "install"
  /\ IF conn = None
     THEN conn' = c /\ Goto(c, "start") /\ UNCHANGED socket
     ELSE /\ socket' = [socket EXCEPT ![c] = "closed"]
          /\ Goto(c, "returned")
          /\ UNCHANGED conn
  /\ UNCHANGED <<bgVars, writeVars, closeVars, listenVars>>

(* startBackground: a new stop channel, then the heartbeats.                 *)
StartBackground(c) ==
  /\ call[c] = "start"
  /\ stopCh' = c
  /\ Goto(c, "spawn")
  /\ UNCHANGED <<connVars, closedCh, writeVars, closeVars, listenVars>>

Spawn(c) ==
  /\ call[c] = "spawn"
  /\ writer' = [w \in Writers |-> IF w \in {c} \X Beats THEN "tick" ELSE writer[w]]
  /\ Goto(c, "returned")
  /\ UNCHANGED <<connVars, bgVars, target, closeVars, listenVars>>

-------------------------------------------------------------------------------
(* CloseWithReason, called by itself, by Reconnect and by the goroutine a    *)
(* Listen leaves waiting for its context.                                    *)

SignalBackground(c) ==
  /\ \/ Kind[c] \in {"close", "reconnect"} /\ call[c] = "new"
     \/ call[c] = "armed" /\ c \in ctxDone
  /\ signalled' = [signalled EXCEPT ![c] = stopCh # None]
  /\ closedCh' = closedCh \cup ({stopCh} \ {None})
  /\ stopCh' = None
  /\ Goto(c, "take")
  /\ UNCHANGED <<connVars, writeVars, taken, closeErr, listenVars>>

(* What follows the end of CloseWithReason.                                  *)
AfterClose(c, err) ==
  IF Kind[c] # "reconnect" THEN "returned"
  ELSE IF err THEN "closeFailed" ELSE "check"

(* A mutant: the connection stays with the client.                           *)
TakeLeaving(c) ==
  /\ call[c] = "take"
  /\ taken' = [taken EXCEPT ![c] = conn]
  /\ Goto(c, IF conn # None THEN "frame"
             ELSE IF signalled[c] THEN "wait" ELSE AfterClose(c, FALSE))
  /\ UNCHANGED <<connVars, bgVars, writeVars, signalled, closeErr, listenVars>>

Take(c) ==
  /\ call[c] = "take"
  /\ taken' = [taken EXCEPT ![c] = conn]
  /\ conn' = None
  /\ Goto(c, IF conn # None THEN "frame"
             ELSE IF signalled[c] THEN "wait" ELSE AfterClose(c, FALSE))
  /\ UNCHANGED <<socket, bgVars, writeVars, signalled, closeErr, listenVars>>

(* A mutant: Lock instead of TryLock.                                        *)
SendFrameLocking(c) ==
  /\ call[c] = "frame"
  /\ SendMuFree
  /\ \E err \in BOOLEAN : closeErr' = [closeErr EXCEPT ![c] = err]
  /\ Goto(c, "shut")
  /\ UNCHANGED <<connVars, bgVars, writeVars, taken, signalled, listenVars>>

(* The close frame, unless some writer has sendMu.  It cannot be sent once   *)
(* the peer has closed, or in time when the peer does not read.              *)
SendFrame(c) ==
  /\ call[c] = "frame"
  /\ \E err \in BOOLEAN : /\ err => SendMuFree
                          /\ closeErr' = [closeErr EXCEPT ![c] = err]
  /\ Goto(c, "shut")
  /\ UNCHANGED <<connVars, bgVars, writeVars, taken, signalled, listenVars>>

(* The connection is closed even by a close that fails, as a TLS one does    *)
(* when its alert cannot be sent; the two errors are joined.                 *)
Shut(c) ==
  /\ call[c] = "shut"
  /\ socket' = [socket EXCEPT ![taken[c]] = "closed"]
  /\ \E connErr \in BOOLEAN : LET err == closeErr[c] \/ connErr IN
       /\ closeErr' = [closeErr EXCEPT ![c] = err]
       /\ Goto(c, IF signalled[c] THEN "wait" ELSE AfterClose(c, err))
  /\ UNCHANGED <<conn, bgVars, writeVars, taken, signalled, listenVars>>

(* WaitGroup.Wait: return if the counter is zero, else sleep.                *)
Wait(c) ==
  /\ call[c] = "wait"
  /\ Goto(c, IF Counted = {} THEN AfterClose(c, closeErr[c]) ELSE "waiting")
  /\ UNCHANGED <<connVars, bgVars, writeVars, closeVars, listenVars>>

(* A woken Wait panics if the counter is not zero any more.                  *)
WaitReturns(c) ==
  /\ call[c] = "woken"
  /\ Goto(c, IF Counted = {} THEN AfterClose(c, closeErr[c]) ELSE "panicked")
  /\ UNCHANGED <<connVars, bgVars, writeVars, closeVars, listenVars>>

-------------------------------------------------------------------------------
(* Senders and heartbeats                                                    *)

(* A heartbeat is done: WaitGroup.Done, which wakes the waiters at zero.     *)
Done(h) ==
  /\ writer' = [writer EXCEPT ![h] = "done"]
  /\ call' = IF h \in Heartbeats /\ Counted = {h}
             THEN [c \in Calls |-> IF call[c] = "waiting" THEN "woken" ELSE call[c]]
             ELSE call

(* A mutant: a heartbeat does not mind that there is no connection.          *)
RequireRetrying(w) ==
  /\ writer[w] = IF w \in Senders THEN "none" ELSE "tick"
  /\ IF conn = None
     THEN UNCHANGED <<writeVars, call>>
     ELSE /\ writer' = [writer EXCEPT ![w] = "lock"]
          /\ target' = [target EXCEPT ![w] = conn]
          /\ UNCHANGED call
  /\ UNCHANGED <<connVars, bgVars, closeVars, listenVars>>

(* requireConn: for a sender when it is called, for a heartbeat at a tick.   *)
Require(w) ==
  /\ writer[w] = IF w \in Senders THEN "none" ELSE "tick"
  /\ IF conn = None
     THEN Done(w) /\ UNCHANGED target
     ELSE /\ writer' = [writer EXCEPT ![w] = "lock"]
          /\ target' = [target EXCEPT ![w] = conn]
          /\ UNCHANGED call
  /\ UNCHANGED <<connVars, bgVars, closeVars, listenVars>>

LockSend(w) ==
  /\ writer[w] = "lock"
  /\ SendMuFree
  /\ writer' = [writer EXCEPT ![w] = "write"]
  /\ UNCHANGED <<connVars, bgVars, target, call, closeVars, listenVars>>

WriteOk(w) ==
  /\ writer[w] = "write"
  /\ socket[target[w]] = "open"
  /\ IF w \in Senders THEN Done(w)
     ELSE writer' = [writer EXCEPT ![w] = "tick"] /\ UNCHANGED call
  /\ UNCHANGED <<connVars, bgVars, target, closeVars, listenVars>>

(* Also by its timeout while the connection is open.  A heartbeat ends.      *)
WriteFails(w) ==
  /\ writer[w] = "write"
  /\ Done(w)
  /\ UNCHANGED <<connVars, bgVars, target, closeVars, listenVars>>

HeartbeatStops(h) ==
  /\ writer[h] = "tick"
  /\ h[1] \in closedCh
  /\ Done(h)
  /\ UNCHANGED <<connVars, bgVars, target, closeVars, listenVars>>

-------------------------------------------------------------------------------
(* Listen                                                                    *)

Listen(c) ==
  /\ Kind[c] = "listen"
  /\ call[c] = "new"
  /\ Goto(c, "armed")
  /\ listener' = [listener EXCEPT ![c] = "loop"]
  /\ UNCHANGED <<connVars, bgVars, writeVars, closeVars, ctxDone>>

(* Recv takes the connection, or the loop sees that its context has ended.   *)
Recv(c) ==
  /\ listener[c] = "loop"
  /\ \/ /\ c \notin ctxDone /\ conn # None
        /\ listener' = [listener EXCEPT ![c] = conn]
     \/ /\ c \in ctxDone \/ conn = None
        /\ listener' = [listener EXCEPT ![c] = "returned"]
  /\ UNCHANGED <<connVars, bgVars, writeVars, call, closeVars, ctxDone>>

(* A message the handler accepts, or an error: of the handler, of a read     *)
(* timeout, or of a connection that is broken or closed.                     *)
Read(c) ==
  /\ listener[c] \in Calls
  /\ \/ /\ socket[listener[c]] = "open"
        /\ listener' = [listener EXCEPT ![c] = "loop"]
     \/ listener' = [listener EXCEPT ![c] = "returned"]
  /\ UNCHANGED <<connVars, bgVars, writeVars, call, closeVars, ctxDone>>

(* The goroutine that waits for the context ends with the loop.              *)
Disarm(c) ==
  /\ call[c] = "armed"
  /\ listener[c] = "returned"
  /\ Goto(c, "returned")
  /\ UNCHANGED <<connVars, bgVars, writeVars, closeVars, listenVars>>

-------------------------------------------------------------------------------
(* The environment: the peer, the network and the contexts.                  *)

Break(c) ==
  /\ socket[c] = "open"
  /\ socket' = [socket EXCEPT ![c] = "broken"]
  /\ UNCHANGED <<conn, bgVars, writeVars, call, closeVars, listenVars>>

Cancel(c) ==
  /\ Kind[c] = "listen"
  /\ c \notin ctxDone
  /\ ctxDone' = ctxDone \cup {c}
  /\ UNCHANGED <<connVars, bgVars, writeVars, call, closeVars, listener>>

-------------------------------------------------------------------------------
Connect(c)   == Check(c) \/ Dial(c) \/ Install(c) \/ StartBackground(c) \/ Spawn(c)
CloseRest(c) == Take(c) \/ SendFrame(c) \/ Shut(c) \/ Wait(c) \/ WaitReturns(c)
Listening(c) == Recv(c) \/ Read(c) \/ Disarm(c)
Write(w)     == Require(w) \/ LockSend(w) \/ WriteOk(w) \/ WriteFails(w)

Next == \/ \E c \in Calls : \/ Connect(c) \/ SignalBackground(c) \/ CloseRest(c)
                            \/ Listen(c) \/ Listening(c) \/ Break(c) \/ Cancel(c)
        \/ \E w \in Writers : Write(w)
        \/ \E h \in Heartbeats : HeartbeatStops(h)

Spec == Init /\ [][Next]_vars

(* Goroutines run, dials end, tickers tick and a write on a connection that  *)
(* is not open fails; one on an open connection need not end, and nobody has *)
(* to make a call.                                                           *)
FairSpec ==
  /\ Spec
  /\ \A c \in Calls :
       /\ WF_vars(call[c] # "new" /\ Connect(c))
       /\ WF_vars(CloseRest(c))
       /\ WF_vars(Listening(c))
  /\ \A w \in Writers :
       /\ WF_vars(writer[w] = "tick" /\ Require(w))
       /\ WF_vars(LockSend(w))
       /\ WF_vars(/\ writer[w] = "write" /\ socket[target[w]] # "open"
                  /\ WriteFails(w))
  /\ \A h \in Heartbeats : WF_vars(HeartbeatStops(h))

-------------------------------------------------------------------------------
Results == {"returned", "dialFailed", "closeFailed"}

(* Types; stopCh is never a channel already closed (closing it again would   *)
(* panic), and whoever writes has a connection to write to.                  *)
TypeOK ==
  /\ conn \in Calls \cup {None}
  /\ socket \in [Calls -> {"none", "open", "broken", "closed"}]
  /\ stopCh \in (Calls \ closedCh) \cup {None} /\ closedCh \subseteq Calls
  /\ writer \in [Writers -> {"none", "tick", "lock", "write", "done"}]
  /\ \A w \in Writers : writer[w] \in {"lock", "write"} =>
                          target[w] \in Calls /\ socket[target[w]] # "none"
  /\ call \in [Calls -> {"new", "check", "dial", "install", "start", "spawn", "armed",
                         "take", "frame", "shut", "wait", "waiting", "woken", "panicked"} \cup Results]
  /\ \A c \in Calls : call[c] \in {"frame", "shut"} => taken[c] \in Calls
  /\ signalled \in [Calls -> BOOLEAN] /\ closeErr \in [Calls -> BOOLEAN]
  /\ listener \in [Calls -> Calls \cup {"none", "loop", "returned"}]
  /\ ctxDone \subseteq Calls

(* No connection is leaked: one that is not closed is the client's, or a     *)
(* connect has still to install it, or a close has still to shut it.         *)
NoConnLeaks ==
  \A c \in Calls : socket[c] \in {"open", "broken"} =>
    \/ conn = c \/ call[c] = "install"
    \/ \E k \in Calls : call[k] \in {"frame", "shut"} /\ taken[k] = c

(* Close, Reconnect and a cancelled Listen never shut one connection twice,  *)
(* nor one the client still uses.                                            *)
ShutOnce ==
  \A k \in Calls : call[k] \in {"frame", "shut"} =>
    /\ taken[k] # conn
    /\ \A l \in Calls : call[l] \in {"frame", "shut"} /\ taken[l] = taken[k] => l = k

(* Once the client stays without a connection, all its heartbeats end, those *)
(* of a connect that Close overtook included.                                *)
HeartbeatsEnd == <>[](conn = None) => <>[](Counted = {})

(* The state before a WaitGroup is reused under a waiter it has woken: a     *)
(* connect is about to start its heartbeats.                                 *)
Overtaken(c) == call[c] = "woken" /\ \E d \in Calls : call[d] = "spawn"

(* A closing call returns, even while a writer is blocked on the connection  *)
(* with sendMu in its hands, once the client stays without a connection: the *)
(* heartbeats of a later one keep the shared WaitGroup up.  Only a call that *)
(* such heartbeats overtake as it wakes may panic instead; that one ends.    *)
CloseReturns ==
  <>[](conn = None) =>
    \A c \in Calls :
      /\ call[c] \in {"take", "frame"} ~> call[c] \in Results \/ Overtaken(c)
      /\ Overtaken(c) ~> call[c] \in Results \cup {"panicked"}

-------------------------------------------------------------------------------
(* Claims of the source that interleavings refute.                           *)

(* Close stops the heartbeats: no second loop of one kind is left running.   *)
OneHeartbeatLoop ==
  \A g, h \in Counted : g[2] = h[2] /\ {g[1], h[1]} \cap closedCh = {} => g = h

(* Reconnect connects again: it does not give up before it has dialled.      *)
ReconnectDials == \A c \in Calls : call[c] # "closeFailed"

(* Close closes the connection and stops the heartbeats; it does not panic.  *)
CloseNeverPanics == \A c \in Calls : call[c] # "panicked"
==============================================================================
