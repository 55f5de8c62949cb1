------------------------------- MODULE StreamBody ------------------------------
(*****************************************************************************)
(* httpclienttls.streamBody: the body of a streamed response.  One goroutine *)
(* reads it while others may close it; a read that gets no data for too long *)
(* is ended by a timer, and the whole exchange by its own context.  readMu   *)
(* keeps the body below from being closed under a read; once lets one Close  *)
(* do the work and the others wait for it.                                   *)
(*                                                                           *)
(* The body below is the transport's: a read of it may take for ever unless  *)
(* the context of the exchange is cancelled.                                 *)
(*****************************************************************************)
EXTENDS Naturals

CONSTANTS Closers,  \* the calls of Close from outside
          Reader,   \* the goroutine that reads
          Idle      \* is there an idle timeout?

ASSUME ReaderAssumption == Reader \notin Closers
ASSUME IdleAssumption == Idle \in BOOLEAN

Closing == Closers \cup {Reader}   \* the reader closes after an error

VARIABLES cause,        \* why the context was cancelled, "none" if it was not
          timer,        \* the idle timer
          reader,       \* where the reader is
          result,       \* what the last Read returned
          terminalErr,  \* the error every later Read repeats
          closer,       \* closer[c]: where a Close is
          closed,       \* the body is closed for reading
          rawCloses     \* how often the body below was closed

ctxVars   == <<cause, timer>>
readVars  == <<reader, result, terminalErr>>
closeVars == <<closer, closed, rawCloses>>
vars == <<ctxVars, readVars, closeVars>>

Causes == {"canceled", "idle", "total"}
Errors == Causes \cup {"eof", "rawErr", "afterClose"}

Init == /\ cause = "none"
        /\ timer = "off"
        /\ reader = "out"
        /\ result = "data"
        /\ terminalErr = "none"
        /\ closer = [c \in Closing |-> "new"]
        /\ closed = FALSE
        /\ rawCloses = 0

-------------------------------------------------------------------------------
ReadMuFree == reader \notin {"raw", "joining"}

(* CancelCauseFunc: the first cause stays.                                   *)
Cancel(why) == cause' = IF cause = "none" THEN why ELSE cause

(* What a Read returns; with an error the reader goes on to close the body.  *)
Return(err) ==
  /\ result' = err
  /\ IF err = "data"
     THEN reader' = "out" /\ UNCHANGED closer
     ELSE reader' = "failed" /\ closer' = [closer EXCEPT ![Reader] = "new"]

Known == IF terminalErr # "none" THEN terminalErr
         ELSE IF closed THEN "afterClose" ELSE cause

(* A mutant: the idle timer is forgotten.                                    *)
ReadUntimed ==
  /\ reader = "out"
  /\ IF Known = "none" THEN reader' = "raw" /\ UNCHANGED <<result, closer>> ELSE Return(Known)
  /\ UNCHANGED <<ctxVars, terminalErr, closed, rawCloses>>

(* A Read, up to the read of the body below.                                 *)
Read ==
  /\ reader = "out"
  /\ IF Known = "none"
     THEN /\ reader' = "raw"
          /\ timer' = IF Idle THEN "armed" ELSE "off"
          /\ UNCHANGED <<result, closer>>
     ELSE Return(Known) /\ UNCHANGED timer
  /\ UNCHANGED <<cause, terminalErr, closed, rawCloses>>

RawReads(r) ==
  /\ reader = "raw"
  /\ reader' = "joining"
  /\ result' = r
  /\ UNCHANGED <<ctxVars, terminalErr, closeVars>>

Outcome == IF cause # "none" THEN cause ELSE result

(* A mutant: the error is not kept for later reads.                          *)
JoinForgetting ==
  /\ reader = "joining"
  /\ timer # "fired"
  /\ timer' = "off"
  /\ Return(Outcome)
  /\ UNCHANGED <<cause, terminalErr, closed, rawCloses>>

(* The timer is stopped, or waited for if it has fired; its cause, or        *)
(* another one, then goes before what the body below returned.               *)
Join ==
  /\ reader = "joining"
  /\ timer # "fired"
  /\ timer' = "off"
  /\ terminalErr' = IF Outcome # "data" THEN Outcome ELSE terminalErr
  /\ Return(Outcome)
  /\ UNCHANGED <<cause, closed, rawCloses>>

ReadReturns ==
  /\ reader = "failed"
  /\ closer[Reader] = "done"
  /\ reader' = "out"
  /\ UNCHANGED <<ctxVars, result, terminalErr, closeVars>>

-------------------------------------------------------------------------------
(* Close                                                                     *)

OnceFree == \A c \in Closing : closer[c] \notin {"cleanup", "lock"}
OnceDone == rawCloses > 0

MayClose(c) == c = Reader => reader = "failed"

BeginClose(c) ==
  /\ closer[c] = "new" /\ MayClose(c)
  /\ OnceFree
  /\ closer' = [closer EXCEPT ![c] = IF OnceDone THEN "done" ELSE "cleanup"]
  /\ UNCHANGED <<ctxVars, readVars, closed, rawCloses>>

(* A mutant: the read is waited for before it is cancelled.                  *)
CleanupLast(c) ==
  /\ closer[c] = "cleanup"
  /\ ReadMuFree
  /\ closer' = [closer EXCEPT ![c] = "lock"]
  /\ Cancel("canceled")
  /\ UNCHANGED <<timer, readVars, closed, rawCloses>>

(* cleanup: the context is cancelled, so that a blocked read ends.           *)
Cleanup(c) ==
  /\ closer[c] = "cleanup"
  /\ Cancel("canceled")
  /\ closer' = [closer EXCEPT ![c] = "lock"]
  /\ UNCHANGED <<timer, readVars, closed, rawCloses>>

(* A mutant: readMu is not taken.                                            *)
CloseRawUnlocked(c) ==
  /\ closer[c] = "lock"
  /\ closed' = TRUE
  /\ rawCloses' = rawCloses + 1
  /\ closer' = [closer EXCEPT ![c] = "done"]
  /\ UNCHANGED <<ctxVars, readVars>>

CloseRaw(c) ==
  /\ closer[c] = "lock"
  /\ ReadMuFree
  /\ closed' = TRUE
  /\ rawCloses' = rawCloses + 1
  /\ closer' = [closer EXCEPT ![c] = "done"]
  /\ UNCHANGED <<ctxVars, readVars>>

Close(c) == BeginClose(c) \/ Cleanup(c) \/ CloseRaw(c)

-------------------------------------------------------------------------------
(* The idle timer, and the context of the exchange: its deadline or a caller *)
(* who cancels it.                                                           *)

Fire ==
  /\ timer = "armed"
  /\ timer' = "fired"
  /\ UNCHANGED <<cause, readVars, closeVars>>

Fired ==
  /\ timer = "fired"
  /\ Cancel("idle")
  /\ timer' = "joined"
  /\ UNCHANGED <<readVars, closeVars>>

EndExchange ==
  /\ cause = "none"
  /\ Cancel("total")
  /\ UNCHANGED <<timer, readVars, closeVars>>

-------------------------------------------------------------------------------
Next == \/ Read \/ Join \/ ReadReturns \/ Fire \/ Fired \/ EndExchange
        \/ \E r \in {"data", "eof", "rawErr"} : RawReads(r)
        \/ \E c \in Closing : Close(c)

Spec == Init /\ [][Next]_vars

(* A read of the body below ends once the context is cancelled, timers fire, *)
(* and a Close that has begun, or that a failed read has to make, goes on.   *)
Fairness ==
  /\ WF_vars(cause # "none" /\ \E r \in {"data", "eof", "rawErr"} : RawReads(r))
  /\ WF_vars(Join) /\ WF_vars(ReadReturns) /\ WF_vars(Fire) /\ WF_vars(Fired)
  /\ WF_vars(Close(Reader))
  /\ \A c \in Closers : WF_vars(Cleanup(c) \/ CloseRaw(c))

-------------------------------------------------------------------------------
(* Types; the body below is closed once.                                     *)
TypeOK ==
  /\ cause \in Causes \cup {"none"}
  /\ timer \in {"off", "armed", "fired", "joined"}
  /\ reader \in {"out", "raw", "joining", "failed"}
  /\ result \in Errors \cup {"data"} /\ terminalErr \in Errors \cup {"none"}
  /\ closer \in [Closing -> {"new", "cleanup", "lock", "done"}]
  /\ closed \in BOOLEAN /\ rawCloses = IF closed THEN 1 ELSE 0

(* The body below is not read after it was closed, nor closed while a read   *)
(* of it goes on.                                                            *)
NoUseAfterClose == reader = "raw" => ~ closed

(* The idle timer of a read never outlives it: it cannot cancel the exchange *)
(* once the read has told its caller that all is well.                       *)
TimerIsJoined == reader \in {"out", "failed"} => timer = "off"

(* What a Read uses, it uses while it goes on and no longer.                 *)
ReadsEndCleanly == NoUseAfterClose /\ TimerIsJoined

(* A reader that has come to the end stays there: CopyTo reads once more to  *)
(* learn that the body was not longer than its limit.                        *)
EndIsFinal == [][result = "eof" /\ reader # "joining" => result' = "eof"]_vars

(* With an idle timeout every Read returns, and a failed one leaves the body *)
(* below closed.                                                             *)
ReadEnds == /\ Idle => (reader # "out" ~> reader = "out")
            /\ reader = "failed" ~> closed
===============================================================================
