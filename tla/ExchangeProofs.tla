---------------------------- MODULE ExchangeProofs -----------------------------
(*****************************************************************************)
(* Theorems about Exchange, for any number of closers, any number of calls   *)
(* of the transport and any length of the upload: about each half, and about *)
(* the two together.                                                         *)
(*****************************************************************************)
EXTENDS Exchange, Integers, TLAPS

Busy(c) == closer[c] \in {"cleanup", "lock"}

(* once lets one Close work, and none after the body below was closed; what  *)
(* a reader is told at the end it is told again.                             *)
BodyInv ==
  /\ TypeOK /\ NoUseAfterClose /\ TimerIsJoined
  /\ \A c, d \in Closing : Busy(c) /\ Busy(d) => c = d
  /\ \A c \in Closing : Busy(c) => rawCloses = 0
  /\ result = "eof" /\ reader # "joining" => terminalErr = "eof" /\ reader # "raw"

(* The initial states satisfy the invariant.                                 *)
LEMMA BodyInit == Init => BodyInv
  BY DEF Init, BodyInv, TypeOK, NoUseAfterClose, TimerIsJoined, Busy, Causes, Errors

(* Every step preserves the invariant: one case per action.                  *)
LEMMA BodyNext == BodyInv /\ [Next]_vars => BodyInv'
<1> SUFFICES ASSUME BodyInv, [Next]_vars PROVE BodyInv'
  OBVIOUS
<1> USE IdleAssumption
    DEF BodyInv, TypeOK, NoUseAfterClose, TimerIsJoined, Busy, Causes, Errors,
        ctxVars, readVars, closeVars
<1>1. CASE Read
  <2>1. CASE Known = "none"
    <3>1. /\ reader = "out" /\ reader' = "raw" /\ timer' \in {"armed", "off"}
          /\ UNCHANGED <<cause, result, terminalErr, closeVars>>
      BY <1>1, <2>1 DEF Read
    <3>2. terminalErr = "none" /\ ~ closed
      BY <2>1 DEF Known
    <3> QED
      BY <3>1, <3>2
  <2>2. CASE Known # "none"
    <3>1. /\ reader = "out" /\ Return(Known)
          /\ UNCHANGED <<ctxVars, terminalErr, closed, rawCloses>>
      BY <1>1, <2>2 DEF Read
    <3>2. Known \in Errors /\ (result = "eof" => Known = "eof") /\ (Known = "eof" => terminalErr = "eof")
      BY <2>2, <3>1 DEF Known
    <3>3. result' = Known /\ reader' = "failed" /\ closer' = [closer EXCEPT ![Reader] = "new"]
      BY <3>1, <3>2 DEF Return
    <3> HIDE DEF Known
    <3> QED
      BY <3>1, <3>2, <3>3
  <2> QED
    BY <2>1, <2>2
<1>2. ASSUME NEW r \in {"data", "eof", "rawErr"}, RawReads(r) PROVE BodyInv'
  BY <1>2 DEF RawReads
<1>3. CASE Join
  BY <1>3 DEF Join, Outcome, Return
<1>4. CASE ReadReturns
  BY <1>4 DEF ReadReturns
<1>5. ASSUME NEW c \in Closing, BeginClose(c) PROVE BodyInv'
  BY <1>5 DEF BeginClose, OnceFree, OnceDone
<1>6. ASSUME NEW c \in Closing, Cleanup(c) PROVE BodyInv'
  BY <1>6 DEF Cleanup, Cancel
<1>7. ASSUME NEW c \in Closing, CloseRaw(c) PROVE BodyInv'
  BY <1>7 DEF CloseRaw, ReadMuFree
<1>8. CASE Fire \/ Fired \/ EndExchange
  BY <1>8 DEF Fire, Fired, EndExchange, Cancel
<1>9. CASE UNCHANGED vars
  BY <1>9 DEF vars
<1> QED
  BY <1>1, <1>2, <1>3, <1>4, <1>5, <1>6, <1>7, <1>8, <1>9 DEF Next, Close

-------------------------------------------------------------------------------
(* What the callback has done when a Close waits for it, is past it, or has  *)
(* returned; and that only a Close which is past it can have stopped it.     *)
UploadCloseInv ==
  /\ \A c \in Transports :
       /\ uploadCloser[c] = "wait" => callback \in {"running", "done"}
       /\ uploadCloser[c] = "raw"  => callback \in {"stopped", "done"}
       /\ uploadCloser[c] = "done" => uploadRawCloses = 1 /\ callback \in {"stopped", "done"}
  /\ callback = "stopped" => \E c \in Transports : uploadCloser[c] \in {"raw", "done"}

(* A length that is checked is what was sent and what remains, until more    *)
(* comes than it allows; an end is said only when nothing remains.           *)
UploadReadInv ==
  Upload!Checked =>
    /\ remaining >= 0
    /\ last # "exceeds" => sent + remaining = Length
    /\ last = "eof" => remaining = 0

UploadInv == Upload!TypeOK /\ UploadCloseInv /\ UploadReadInv

(* An upload that has not begun satisfies it.                                *)
LEMMA UploadStarts == Upload!Init => UploadInv
<1> SUFFICES ASSUME Upload!Init PROVE UploadInv
  OBVIOUS
<1> USE UploadAssumption DEF Upload!Init, Upload!LengthAssumption
<1>1. Upload!TypeOK
  <2>1. (cause # "none") \in BOOLEAN
    BY Zenon
  <2>2. uploadCloser \in [Transports -> {"new", "wait", "raw", "done"}]
    OBVIOUS
  <2>3. uploadRawCloses \in 0 .. 1 /\ remaining \in Int /\ sent \in Nat
    OBVIOUS
  <2> QED BY <2>1, <2>2, <2>3 DEF Upload!TypeOK
<1>2. UploadCloseInv
  BY DEF UploadCloseInv
<1>3. UploadReadInv
  BY DEF UploadReadInv, Upload!Checked
<1> QED BY <1>1, <1>2, <1>3 DEF UploadInv

(* Every step of the upload preserves it: one case per action.               *)
LEMMA UploadStep == UploadInv /\ [Upload!Next]_(Upload!vars) => UploadInv'
<1> SUFFICES ASSUME UploadInv, [Upload!Next]_(Upload!vars) PROVE UploadInv'
  OBVIOUS
<1> USE UploadAssumption DEF UploadInv, Upload!TypeOK, UploadCloseInv, UploadReadInv, Upload!Checked,
            Upload!LengthAssumption
<1>1. CASE Upload!Cancel
  BY <1>1 DEF Upload!Cancel, Upload!readVars
<1>2. CASE Upload!Callback
  BY <1>2 DEF Upload!Callback, Upload!CloseRaw, Upload!readVars
<1>3. ASSUME NEW c \in Transports, Upload!Close(c) PROVE UploadInv'
  <2>1. CASE Upload!BeginClose(c)
    <3>1. Upload!TypeOK'
      BY <2>1 DEF Upload!BeginClose, Upload!readVars
    <3>2. UploadCloseInv'
      <4>1. CASE Upload!OnceDone
        BY <4>1, <2>1 DEF Upload!BeginClose, Upload!OnceDone, Upload!readVars
      <4>2. CASE ~ Upload!OnceDone
        <5>1. Upload!OnceFree /\ \A d \in Transports : uploadCloser[d] = "new"
          <6>1. Upload!OnceFree
            BY <2>1 DEF Upload!BeginClose
          <6> QED BY <6>1, <4>2 DEF Upload!OnceDone, Upload!OnceFree
        <5>2. uploadCloser' = [uploadCloser EXCEPT ![c] = IF callback = "waiting" THEN "raw" ELSE "wait"]
          BY <4>2, <2>1 DEF Upload!BeginClose
        <5>3. callback' = IF callback = "waiting" THEN "stopped" ELSE callback
          BY <4>2, <2>1 DEF Upload!BeginClose
        <5>4. callback # "stopped"
          BY <5>1
        <5> QED BY <5>1, <5>2, <5>3, <5>4
      <4> QED BY <4>1, <4>2
    <3>3. UploadReadInv'
      BY <2>1 DEF Upload!BeginClose, Upload!readVars
    <3> QED BY <3>1, <3>2, <3>3
  <2>2. CASE Upload!Joined(c)
    BY <2>2 DEF Upload!Joined, Upload!readVars
  <2>3. CASE Upload!EndClose(c)
    BY <2>3 DEF Upload!EndClose, Upload!CloseRaw, Upload!readVars
  <2> QED BY <1>3, <2>1, <2>2, <2>3 DEF Upload!Close
<1>4. ASSUME NEW n \in 0 .. Upload!Chunk, NEW err \in {"ok", "eof"}, Upload!Read(n, err) PROVE UploadInv'
  <2>1. n \in Nat
    BY DEF Upload!Chunk
  <2>2. (Upload!TypeOK /\ UploadCloseInv)'
    BY <1>4, <2>1 DEF Upload!Read, Upload!Says, Upload!closeVars
  <2>3. UploadReadInv'
    BY <1>4, <2>1 DEF Upload!Read, Upload!Says
  <2> QED BY <2>2, <2>3
<1>5. CASE UNCHANGED Upload!vars
  BY <1>5 DEF Upload!vars, Upload!closeVars, Upload!readVars
<1> QED BY <1>1, <1>2, <1>3, <1>4, <1>5 DEF Upload!Next

-------------------------------------------------------------------------------
(* A step of an exchange is one of the response, or of the upload, or of     *)
(* both: when the response ends the context, the upload is cancelled.        *)
LEMMA HalvesStep ==
  ASSUME [ExchangeNext]_allVars
  PROVE  [Next]_vars /\ [Upload!Next]_(Upload!vars)
<1>1. CASE UNCHANGED allVars
  BY <1>1 DEF allVars, uploadVars, vars, ctxVars, Upload!vars, Upload!closeVars, Upload!readVars
<1>2. CASE Response
  <2>1. CASE cause' = cause
    BY <1>2, <2>1 DEF Response, uploadVars, Upload!vars, Upload!closeVars, Upload!readVars
  <2>2. CASE cause' # cause
    BY <1>2, <2>2 DEF Response, ContextEnds, Upload!Next
  <2> QED BY <1>2, <2>1, <2>2 DEF Response
<1>3. CASE Callback
  BY <1>3 DEF Callback, Upload!Next
<1>4. CASE Transport
  BY <1>4 DEF Transport, Upload!Next, Upload!Close
<1>5. ASSUME NEW c \in Transports, GoOn(c) PROVE [Next]_vars /\ [Upload!Next]_(Upload!vars)
  BY <1>5 DEF GoOn, Upload!Next, Upload!Close
<1> QED BY <1>1, <1>2, <1>3, <1>4, <1>5 DEF ExchangeNext

(* In an exchange each half does what it does alone: the response is what    *)
(* StreamBody says of it, the upload what UploadBody says.                   *)
THEOREM HalvesKeepToThemselves == ExchangeSpec => Init /\ [][Next]_vars /\ Upload!Spec
<1> QED BY HalvesStep, PTL DEF ExchangeSpec, ExchangeInit, Upload!Spec

(* In every reachable state the types hold; the body below the response, and *)
(* the one below the upload, are closed at most once, however many close.    *)
THEOREM TypeCorrect == ExchangeSpec => [](TypeOK /\ Upload!TypeOK)
<1>1. BodyInv /\ UploadInv => TypeOK /\ Upload!TypeOK
  BY DEF BodyInv, UploadInv
<1> QED
  BY <1>1, BodyInit, BodyNext, UploadStarts, UploadStep, HalvesKeepToThemselves, PTL DEF Upload!Spec

(* Nothing a Read of the response uses outlives it: the body below is not    *)
(* read after it was closed, nor does an idle timer stay armed.              *)
THEOREM CleanReads == ExchangeSpec => []ReadsEndCleanly
<1>1. BodyInv => ReadsEndCleanly
  BY DEF BodyInv, ReadsEndCleanly
<1> QED BY <1>1, BodyInit, BodyNext, HalvesKeepToThemselves, PTL

(* When any Close of the upload has returned, the body below is closed and   *)
(* the callback of the context will not touch it any more; and an upload of  *)
(* known length that ends without an error has had that length.              *)
THEOREM UploadsKeepTheirWord == ExchangeSpec => []UploadKeepsItsWord
<1>1. UploadInv => UploadKeepsItsWord
  BY UploadAssumption
  DEF UploadInv, Upload!TypeOK, UploadCloseInv, UploadReadInv, UploadKeepsItsWord,
         Upload!CloseIsFinal, Upload!EndsWhereItSays, Upload!Checked, Upload!LengthAssumption
<1> QED BY <1>1, UploadStarts, UploadStep, HalvesKeepToThemselves, PTL DEF Upload!Spec

(* The end of a body is final for its reader, whatever is closed or          *)
(* cancelled afterwards.                                                     *)
THEOREM EndStaysFinal == ExchangeSpec => EndIsFinal
<1>1. ASSUME BodyInv, [Next]_vars, result = "eof", reader # "joining" PROVE result' = "eof"
  <2>1. terminalErr = "eof" /\ reader # "raw"
    BY <1>1 DEF BodyInv
  <2>2. CASE Read
    <3>1. Known = "eof"
      BY <2>1 DEF Known
    <3> QED
      BY <2>2, <3>1 DEF Read, Return
  <2>3. CASE UNCHANGED result
    BY <1>1, <2>3
  <2> QED
    BY <1>1, <2>1, <2>2, <2>3
    DEF Next, Join, ReadReturns, Fire, Fired, EndExchange, RawReads, Close, BeginClose,
        Cleanup, CloseRaw, readVars, vars
<1>2. BodyInv /\ [Next]_vars => [result = "eof" /\ reader # "joining" => result' = "eof"]_vars
  BY <1>1
<1> QED
  BY <1>2, BodyInit, BodyNext, HalvesKeepToThemselves, PTL DEF EndIsFinal
===============================================================================
