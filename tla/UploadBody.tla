------------------------------- MODULE UploadBody ------------------------------
(*****************************************************************************)
(* httpclienttls.uploadBody: the body of a request while the transport sends *)
(* it.  The transport reads it and closes it, perhaps several times and from *)
(* several goroutines; the context of the exchange closes it too, by a       *)
(* function registered with context.AfterFunc.  A body of known length must  *)
(* end where it says.                                                        *)
(*****************************************************************************)
EXTENDS Integers

CONSTANTS Closers,  \* calls of Close
          Length    \* Content-Length; not positive: unknown

LengthAssumption == Length \in Int

Chunk == 2   \* the most a Read yields

VARIABLES cancelled,  \* the context is
          callback,   \* the registered function
          closer,     \* closer[c]: where a Close is
          rawCloses,  \* how often the body below was closed
          remaining,
          sent,       \* bytes the transport has got
          last        \* what the last Read said

closeVars == <<cancelled, callback, closer, rawCloses>>
readVars  == <<remaining, sent, last>>
vars == <<closeVars, readVars>>

Checked == Length > 0

Init == /\ cancelled = FALSE
        /\ callback = "waiting"
        /\ closer = [c \in Closers |-> "new"]
        /\ rawCloses = 0
        /\ remaining = Length /\ sent = 0 /\ last = "ok"

-------------------------------------------------------------------------------
(* Reading                                                                   *)

(* What Read says of n bytes and an error of the body below.                 *)
Says(n, err) ==
  IF ~ Checked THEN err
  ELSE IF n > remaining THEN "exceeds"
  ELSE IF err = "eof" /\ remaining - n > 0 THEN "unexpectedEOF"
  ELSE err

(* The transport reads until it is told of an error; unknown lengths are cut *)
(* at Chunk bytes.                                                           *)
Read(n, err) ==
  /\ last = "ok"
  /\ Checked \/ sent + n <= Chunk
  /\ last' = Says(n, err)
  /\ sent' = sent + n
  /\ remaining' = IF Checked /\ n <= remaining THEN remaining - n ELSE remaining
  /\ UNCHANGED closeVars

-------------------------------------------------------------------------------
(* Closing                                                                   *)

(* rawOnce.                                                                  *)
CloseRaw == rawCloses' = IF rawCloses = 0 THEN 1 ELSE rawCloses

OnceFree == \A c \in Closers : closer[c] \notin {"wait", "raw"}
OnceDone == \E c \in Closers : closer[c] = "done"

(* A mutant: the callback is not waited for.                                 *)
BeginCloseEarly(c) ==
  /\ closer[c] = "new" /\ OnceFree
  /\ callback' = IF callback = "waiting" /\ ~ OnceDone THEN "stopped" ELSE callback
  /\ closer' = [closer EXCEPT ![c] = IF OnceDone THEN "done" ELSE "raw"]
  /\ UNCHANGED <<cancelled, rawCloses, readVars>>

(* closeOnce, and stop: it says whether the callback was stopped in time.    *)
BeginClose(c) ==
  /\ closer[c] = "new" /\ OnceFree
  /\ callback' = IF callback = "waiting" /\ ~ OnceDone THEN "stopped" ELSE callback
  /\ closer' = [closer EXCEPT ![c] = IF OnceDone THEN "done"
                                     ELSE IF callback = "waiting" THEN "raw" ELSE "wait"]
  /\ UNCHANGED <<cancelled, rawCloses, readVars>>

Joined(c) ==
  /\ closer[c] = "wait"
  /\ callback = "done"
  /\ closer' = [closer EXCEPT ![c] = "raw"]
  /\ UNCHANGED <<cancelled, callback, rawCloses, readVars>>

EndClose(c) ==
  /\ closer[c] = "raw"
  /\ CloseRaw
  /\ closer' = [closer EXCEPT ![c] = "done"]
  /\ UNCHANGED <<cancelled, callback, readVars>>

Close(c) == BeginClose(c) \/ Joined(c) \/ EndClose(c)

Cancel ==
  /\ ~ cancelled
  /\ cancelled' = TRUE
  /\ callback' = IF callback = "waiting" THEN "running" ELSE callback
  /\ UNCHANGED <<closer, rawCloses, readVars>>

(* The callback, in a goroutine of its own.                                  *)
Callback ==
  /\ callback = "running"
  /\ CloseRaw
  /\ callback' = "done"
  /\ UNCHANGED <<cancelled, closer, readVars>>

-------------------------------------------------------------------------------
Next == \/ Cancel \/ Callback
        \/ \E c \in Closers : Close(c)
        \/ \E n \in 0 .. Chunk, err \in {"ok", "eof"} : Read(n, err)

Spec == Init /\ [][Next]_vars

-------------------------------------------------------------------------------
(* Types; the body below is closed once at most.                             *)
TypeOK ==
  /\ cancelled \in BOOLEAN
  /\ callback \in {"waiting", "running", "stopped", "done"}
  /\ closer \in [Closers -> {"new", "wait", "raw", "done"}]
  /\ rawCloses \in 0 .. 1
  /\ remaining \in Int /\ sent \in Nat
  /\ last \in {"ok", "eof", "unexpectedEOF", "exceeds"}

(* When any Close has returned the body below is closed, and no callback     *)
(* will touch it any more: its owner may use it again.                       *)
CloseIsFinal ==
  \A c \in Closers : closer[c] = "done" => rawCloses = 1 /\ callback \in {"stopped", "done"}

(* A body of known length that ends without an error has had that length.    *)
EndsWhereItSays == Checked /\ last = "eof" => sent = Length
===============================================================================
