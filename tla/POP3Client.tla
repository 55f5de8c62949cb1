------------------------------ MODULE POP3Client ------------------------------
(*****************************************************************************)
(* pop3client.POP3Client: one session.  A command is a line to the server;   *)
(* its answer is read line by line from what the server still has due, each  *)
(* line under a deadline of its own.  Nothing on the wire tells which        *)
(* command a line answers: n does, for the properties only.  A call that     *)
(* gives up midway leaves lines behind.  One goroutine uses a client.        *)
(*****************************************************************************)
EXTENDS Naturals, Sequences

CONSTANTS ShortCmds,  \* commands answered by one line
          LongCmds,   \* commands answered by lines up to "."
          Implicit,   \* TLS from the start (port 995)
          MaxCalls,   \* bound on the commands of a session
          NoValue

CommandsAssumption == /\ ShortCmds \cap LongCmds = {} /\ MaxCalls \in Nat
                      /\ "quit" \in ShortCmds /\ "stls" \notin LongCmds
                      /\ "connect" \notin ShortCmds \cup LongCmds
                      /\ Implicit \in BOOLEAN

VARIABLES
  conn, tlsEstablished,
  call,     \* the call under way or returned: command, stage, what it read
  issued,   \* commands sent on this connection
  due,      \* lines of the server the client has not read
  hears,    \* what the server speaks: "plain", "tls", or it expects a handshake,
            \* or it is out of the talk for good ("deaf")
  slipped   \* history: a call gave up before the end of its answer

popVars == <<conn, tlsEstablished, call, issued, due, hears, slipped>>

(* "stuffed" is a line of text that begins with a dot, sent as "..";         *)
(* "long" one beyond maxLineLength.                                          *)
Kinds == {"plus", "err", "text", "stuffed", "dot", "long"}

Line(n, kind, val) == [n |-> n, kind |-> kind, val |-> val]
NewCall(cmd, stage) == [cmd |-> cmd, stage |-> stage, own |-> TRUE, got |-> {}]
Idle == call.stage = "ok" \/ (call.stage = "failed" /\ call.cmd # "connect")

Init == /\ conn = "none"
        /\ tlsEstablished = FALSE
        /\ call = NewCall("connect", "dial")
        /\ issued = 0
        /\ due = <<>>
        /\ hears = "plain"
        /\ slipped = FALSE

-------------------------------------------------------------------------------
(* A call returns.  connect closes the connection when it fails, Quit closes *)
(* it whatever happened.                                                     *)
Closes(outcome) == call.cmd = "quit" \/ (call.cmd = "connect" /\ outcome = "failed")

Return(outcome) ==
  /\ call' = [call EXCEPT !.stage = outcome]
  /\ conn' = IF Closes(outcome) THEN "none" ELSE conn

Welcome == Line(0, "plus", NoValue)

(* connect: the dial, then TLS before anything else on port 995.             *)
Dial ==
  /\ call.stage = "dial"
  /\ \/ /\ Return("failed")
        /\ UNCHANGED <<due, hears>>
     \/ /\ conn' = "plain"
        /\ call' = [call EXCEPT !.stage = IF Implicit THEN "handshake" ELSE "resp"]
        /\ due' = IF Implicit THEN <<>> ELSE <<Welcome>>
        /\ hears' = IF Implicit THEN "handshake" ELSE "plain"
  /\ UNCHANGED <<tlsEstablished, issued, slipped>>

(* wrapTLS, from connect or STLS.  It succeeds when the server expects it    *)
(* and every line left behind is in the reader that STLS throws away.  When  *)
(* it fails, STLS keeps the connection as it was before.                     *)
WrapTLS ==
  /\ call.stage = "handshake"
  /\ \/ /\ hears = "handshake"
        /\ conn' = "tls"
        /\ tlsEstablished' = TRUE
        /\ hears' = "tls"
        /\ IF call.cmd = "connect"
           THEN due' = <<Welcome>> /\ call' = [call EXCEPT !.stage = "resp"]
           ELSE due' = <<>> /\ call' = [call EXCEPT !.stage = "ok"]
     \/ /\ Return("failed")
        /\ hears' = "deaf"
        /\ due' = <<>>
        /\ UNCHANGED tlsEstablished
  /\ UNCHANGED <<issued, slipped>>

-------------------------------------------------------------------------------
Numbered(answer) ==
  [i \in 1 .. Len(answer) |-> [answer[i] EXCEPT !.n = issued + 1]]

(* putLine: the command goes out and the server, if it hears it, answers; or *)
(* the connection is closed, or found broken by the write.                   *)
Issue(cmd, answer) ==
  /\ Idle /\ issued < MaxCalls
  /\ issued' = issued + 1
  /\ UNCHANGED <<tlsEstablished, slipped>>
  /\ \/ /\ call' = NewCall(cmd, "failed")
        /\ conn' = IF cmd = "quit" THEN "none" ELSE conn
        /\ UNCHANGED <<due, hears>>
     \/ /\ conn # "none"
        /\ call' = NewCall(cmd, "resp")
        /\ due' = IF hears = conn THEN due \o Numbered(answer) ELSE due
        /\ hears' = IF cmd = "stls" /\ hears = conn /\ answer[1].kind = "plus"
                    THEN "handshake" ELSE hears
        /\ UNCHANGED conn

(* What getLine hands on: the line is consumed, whatever it is.              *)
Reads(line) == /\ due # <<>> /\ line = Head(due)
               /\ due' = Tail(due)

Take(line, stage) ==
  call' = [call EXCEPT !.stage = stage, !.own = @ /\ line.n = issued,
                       !.got = @ \cup ({line.val} \ {NoValue})]

(* getResp.  Anything but "+" is an error, and then no line follows.         *)
GetResp ==
  /\ call.stage = "resp"
  /\ \E line \in {due[i] : i \in 1 .. Len(due)} :
       /\ Reads(line)
       /\ IF line.kind = "plus"
          THEN LET stage == IF call.cmd \in LongCmds THEN "lines"
                            ELSE IF call.cmd = "stls" THEN "handshake" ELSE "ok"
               IN /\ Take(line, stage)
                  /\ conn' = IF stage = "ok" /\ Closes("ok") THEN "none" ELSE conn
          ELSE Return("failed")
       /\ slipped' = (slipped \/ line.kind = "long")
  /\ UNCHANGED <<tlsEstablished, issued, hears>>

(* A mutant: any line that begins with a dot ends the answer. *)
EndsAtAnyDot(line) == line.kind \in {"dot", "stuffed"}

EndsAnswer(line) == line.kind = "dot"

(* The loop of getLongResp.                                                  *)
GetLine ==
  /\ call.stage = "lines"
  /\ \E line \in {due[i] : i \in 1 .. Len(due)} :
       /\ Reads(line)
       /\ IF line.kind = "long" THEN call' = [call EXCEPT !.stage = "failed"]
          ELSE Take(line, IF EndsAnswer(line) THEN "ok" ELSE "lines")
       /\ slipped' = (slipped \/ line.kind = "long")
  /\ UNCHANGED <<conn, tlsEstablished, issued, hears>>

(* The deadline passes.  A part of the next line may have been read and is   *)
(* lost: what is left of the line may look like anything.                    *)
Timeout ==
  /\ call.stage \in {"resp", "lines"}
  /\ Return("failed")
  /\ slipped' = TRUE
  /\ \/ UNCHANGED due
     \/ due # <<>> /\ \E kind \in Kinds : due' = [due EXCEPT ![1].kind = kind]
  /\ UNCHANGED <<tlsEstablished, issued, hears>>

(* The connection breaks: nothing more can be read or is heard.              *)
Break ==
  /\ call.stage \in {"resp", "lines"}
  /\ Return("failed")
  /\ due' = <<>>
  /\ hears' = "deaf"
  /\ UNCHANGED <<tlsEstablished, issued, slipped>>

(* Close, by the user of the client.                                         *)
Close == /\ Idle /\ conn # "none"
         /\ conn' = "none"
         /\ UNCHANGED <<tlsEstablished, call, issued, due, hears, slipped>>

(* STLS refuses a second time, and has nothing to do on port 995.            *)
STLS(answer) ==
  \/ /\ ~Implicit /\ ~tlsEstablished
     /\ Issue("stls", answer)
  \/ /\ Idle /\ issued < MaxCalls /\ (Implicit \/ tlsEstablished)
     /\ call' = NewCall("stls", IF tlsEstablished THEN "failed" ELSE "ok")
     /\ issued' = issued + 1
     /\ tlsEstablished' = TRUE
     /\ UNCHANGED <<conn, due, hears, slipped>>

-------------------------------------------------------------------------------
(* What a server may answer when nothing else says so.                       *)
Refusal == <<Line(0, "err", NoValue)>>
ShortAnswers == {<<Line(0, kind, NoValue)>> : kind \in {"plus", "err", "long"}}
LongAnswers  == {<<Line(0, "plus", NoValue)>> \o text \o <<Line(0, "dot", NoValue)>> :
                   text \in {<<Line(0, kind, NoValue)>> : kind \in {"text", "stuffed", "long"}}}
                \cup {Refusal}

(* Stat, Noop, User, Pass, Dele, Rset, Quit, ... and List, Retr, Top, Uidl,  *)
(* Capa: each is one command.                                                *)
Command == \/ \E cmd \in ShortCmds \ {"stls"}, a \in ShortAnswers : Issue(cmd, a)
           \/ \E cmd \in LongCmds, a \in LongAnswers : Issue(cmd, a)
           \/ \E a \in ShortAnswers : STLS(a)

Exchange == Dial \/ WrapTLS \/ GetResp \/ GetLine \/ Timeout \/ Break

Next == Exchange \/ Command \/ Close

Spec == Init /\ [][Next]_popVars

-------------------------------------------------------------------------------
TypeOK == /\ conn \in {"none", "plain", "tls"}
          /\ tlsEstablished \in BOOLEAN /\ slipped \in BOOLEAN
          /\ call.cmd \in ShortCmds \cup LongCmds \cup {"connect", "stls"}
          /\ call.stage \in {"dial", "handshake", "resp", "lines", "ok", "failed"}
          /\ call.own \in BOOLEAN
          /\ issued \in 0 .. MaxCalls
          /\ hears \in {"plain", "tls", "handshake", "deaf"}
          /\ \A i \in 1 .. Len(due) : due[i].n \in 0 .. issued /\ due[i].kind \in Kinds

(* A call that succeeds has read the answer to its own command, unless an    *)
(* earlier call on the connection timed out or met a line too long: an error *)
(* that the server answers, and a connection that breaks, do no harm.        *)
InStep == call.stage = "ok" /\ ~slipped => call.own

(* No command goes out unencrypted on port 995, and a client that says TLS   *)
(* is established talks TLS.                                                 *)
TalksTLS == conn # "none" =>
              /\ tlsEstablished => conn = "tls"
              /\ Implicit /\ Idle => conn = "tls"
===============================================================================
