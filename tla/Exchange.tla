------------------------------- MODULE Exchange -------------------------------
(*****************************************************************************)
(* The two halves of an exchange of httpclienttls: the streamed response of  *)
(* StreamBody and the request body of UploadBody.  With HTTP/2 the upload    *)
(* may go on while the response is read.  They share the context of the      *)
(* exchange: whoever ends it (a Close of the stream, the idle timer, the     *)
(* deadline or the caller) also starts the callback that closes the upload.  *)
(*****************************************************************************)
EXTENDS StreamBody

CONSTANTS Transports,  \* the transport's calls of the upload's Close
          Length       \* the Content-Length of the upload

VARIABLES callback, uploadCloser, uploadRawCloses, remaining, sent, last

Upload == INSTANCE UploadBody WITH
  Closers   <- Transports,
  cancelled <- cause # "none",
  closer    <- uploadCloser,
  rawCloses <- uploadRawCloses

ASSUME UploadAssumption == Upload!LengthAssumption

uploadVars == <<callback, uploadCloser, uploadRawCloses, remaining, sent, last>>
allVars == <<vars, uploadVars>>

-------------------------------------------------------------------------------
ExchangeInit == Init /\ Upload!Init

(* The step of the response that ends the context is the upload's Cancel.    *)
ContextEnds == Upload!Cancel

Response ==
  /\ Next
  /\ IF cause' = cause THEN UNCHANGED uploadVars ELSE ContextEnds

Callback   == UNCHANGED vars /\ Upload!Callback
GoOn(c)    == UNCHANGED vars /\ (Upload!Joined(c) \/ Upload!EndClose(c))
Transport  ==
  /\ UNCHANGED vars
  /\ \/ \E c \in Transports : Upload!BeginClose(c)
     \/ \E n \in 0 .. Upload!Chunk, err \in {"ok", "eof"} : Upload!Read(n, err)

ExchangeNext == Response \/ Callback \/ Transport \/ \E c \in Transports : GoOn(c)

(* In addition to the fairness of the response, the callback runs and a      *)
(* Close of the upload goes on; the transport need not close the upload.     *)
ExchangeSpec ==
  /\ ExchangeInit /\ [][ExchangeNext]_allVars
  /\ Fairness
  /\ WF_allVars(Callback)
  /\ \A c \in Transports : WF_allVars(GoOn(c))

-------------------------------------------------------------------------------
(* When any Close of the upload has returned, the callback of the context    *)
(* will not touch the request body any more: its owner may use it again.  An *)
(* upload of known length that ends without an error has had that length.    *)
UploadKeepsItsWord == Upload!CloseIsFinal /\ Upload!EndsWhereItSays

(* A Close of the stream that has begun returns, even while a read waits for *)
(* a silent peer, and the upload that still goes on is closed with it.       *)
CloseEndsExchange ==
  \A c \in Closing : closer[c] = "cleanup" ~>
                       closer[c] = "done" /\ uploadRawCloses = 1

(* Whatever waits for a silent peer ends.                                    *)
ExchangeEnds == ReadEnds /\ CloseEndsExchange
===============================================================================
