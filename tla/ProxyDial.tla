------------------------------- MODULE ProxyDial --------------------------------
(*****************************************************************************)
(* The dials through a proxy, one at a time: those of httpclienttls, where a *)
(* context ends the dial of a tunnel or of SOCKS5; that of websocket, which  *)
(* leaves SOCKS5 to a goroutine and waits for it or for its context; and     *)
(* those of pop3client, which know a timeout only.  Until it returns nobody  *)
(* else has the connection.  Bytes that the proxy sends with its answer are  *)
(* left out, and answers of 1xx, which make the call wait as before.         *)
(*****************************************************************************)

VARIABLES dialer,
          pc,
          raw,        \* the connection to the proxy
          deadline,   \* it has one
          ctx,        \* the context of the dial
          callback,   \* the AfterFunc that closes raw
          failed,     \* err # nil
          helper,     \* the goroutine of websocket
          result

dialVars == <<dialer, pc, raw, deadline, ctx, callback, failed, helper, result>>

(* "tunnel" and "secure": CONNECT through http and https proxies, "context": *)
(* SOCKS5, of httpclienttls; "helper": SOCKS5 of websocket; "mail" and       *)
(* "mailsocks": CONNECT and SOCKS5 of pop3client.                            *)
Dialers == {"tunnel", "secure", "context", "helper", "mail", "mailsocks"}
Tunnels == {"tunnel", "secure"}
Timed   == {"mail", "mailsocks"}

Init == /\ dialer \in Dialers
        /\ pc = "dial"
        /\ raw = "none" /\ deadline = FALSE
        /\ ctx = "live" /\ callback = "none"
        /\ failed = FALSE
        /\ helper = "none"
        /\ result = "none"

-------------------------------------------------------------------------------
GoTo(step) == pc' = step /\ UNCHANGED <<dialer, ctx, helper, result>>

Fails(step) == GoTo(step) /\ failed' = TRUE

(* The connection to the proxy.  SOCKS5 of httpclienttls is all of it: the   *)
(* library gives up when the context ends.                                   *)
Dial ==
  /\ pc = "dial" /\ dialer # "helper"
  /\ \/ Fails(IF dialer = "context" THEN "check" ELSE "return") /\ UNCHANGED raw
     \/ /\ raw' = "open" /\ UNCHANGED failed
        /\ GoTo(CASE dialer \in Tunnels \cup {"mail"} -> "deadline"
                  [] dialer = "context" -> "check"
                  [] dialer = "mailsocks" -> "handshake")
  /\ UNCHANGED <<deadline, callback>>

(* Without a connection that can take it the dial of httpclienttls ends.     *)
SetDeadline ==
  /\ pc = "deadline"
  /\ \/ /\ dialer \in Tunnels
        /\ Fails("close") /\ UNCHANGED deadline
     \/ /\ deadline' = TRUE /\ UNCHANGED failed
        /\ GoTo(IF dialer \in Tunnels THEN "arm" ELSE "request")
  /\ UNCHANGED <<raw, callback>>

(* context.AfterFunc.                                                        *)
Arm == /\ pc = "arm"
       /\ callback' = IF ctx = "ended" THEN "running" ELSE "armed"
       /\ GoTo(IF dialer = "secure" THEN "handshake" ELSE "request")
       /\ UNCHANGED <<raw, deadline, failed>>

(* Where an error leads: to the deferred functions, or to a Close.           *)
AfterError == IF dialer \in Tunnels THEN "join" ELSE "close"

Waits == {"handshake", "request", "response"}

(* TLS with the proxy, or all of SOCKS5; the request; the answer, which may  *)
(* refuse.  Each needs the connection and may fail although it is open.      *)
Talk == /\ pc \in Waits
        /\ \/ Fails(AfterError)
           \/ /\ raw = "open" /\ UNCHANGED failed
              /\ GoTo(CASE pc = "handshake" -> IF dialer = "secure" THEN "request" ELSE "return"
                        [] pc = "request"   -> "response"
                        [] pc = "response"  -> "clear")
        /\ UNCHANGED <<raw, deadline, callback>>

(* The tunnel must outlive the timeout of the dial.                          *)
ClearDeadline ==
  /\ pc = "clear"
  /\ \/ /\ dialer \in Tunnels /\ raw = "closed"
        /\ Fails("join") /\ UNCHANGED deadline
     \/ /\ raw = "open"
        /\ deadline' = FALSE /\ UNCHANGED failed
        /\ GoTo(IF dialer \in Tunnels THEN "join" ELSE "return")
  /\ UNCHANGED <<raw, callback>>

(* stop(), or the wait for the callback that it came too late for.           *)
Join == /\ pc = "join" /\ callback # "running"
        /\ callback' = IF callback = "armed" THEN "stopped" ELSE callback
        /\ GoTo("check")
        /\ UNCHANGED <<raw, deadline, failed>>

(* A mutant: only the error that was met counts. *)
CheckErrorOnly == /\ pc = "check"
                  /\ GoTo(IF dialer \in Tunnels THEN "close" ELSE "return")
                  /\ UNCHANGED <<raw, deadline, callback, failed>>

(* A context that has ended is an error, whatever was reached.               *)
Check == /\ pc = "check"
         /\ IF ctx = "ended"
            THEN /\ raw' = IF raw = "open" THEN "closed" ELSE raw
                 /\ failed' = TRUE
            ELSE UNCHANGED <<raw, failed>>
         /\ GoTo(IF dialer \in Tunnels THEN "close" ELSE "return")
         /\ UNCHANGED <<deadline, callback>>

CloseRaw == /\ pc = "close"
            /\ raw' = IF failed THEN "closed" ELSE raw
            /\ GoTo("return")
            /\ UNCHANGED <<deadline, callback, failed>>

Return == /\ pc = "return"
          /\ pc' = "done"
          /\ result' = IF failed THEN "error" ELSE "conn"
          /\ ctx' = IF dialer \in Timed THEN ctx ELSE "ended"     \* cancel
          /\ UNCHANGED <<dialer, raw, deadline, callback, failed, helper>>

-------------------------------------------------------------------------------
(* websocket: the goroutine connects and shakes hands, without a context and *)
(* without a deadline for the handshake; the channel for what it gets holds  *)
(* one.                                                                      *)
Spawn == /\ pc = "dial" /\ dialer = "helper"
         /\ pc' = "select" /\ helper' = "dialling"
         /\ UNCHANGED <<dialer, raw, deadline, ctx, callback, failed, result>>

HelperDials == /\ helper = "dialling"
               /\ \/ helper' = "handshake" /\ raw' = "open"
                  \/ helper' = "error" /\ UNCHANGED raw
               /\ UNCHANGED <<dialer, pc, deadline, ctx, callback, failed, result>>

HelperShakes == /\ helper = "handshake"
                /\ \/ helper' = "conn" /\ UNCHANGED raw
                   \/ helper' = "error" /\ raw' = "closed"
                /\ UNCHANGED <<dialer, pc, deadline, ctx, callback, failed, result>>

Select == /\ pc = "select"
          /\ \/ ctx = "ended" /\ result' = "error" /\ UNCHANGED helper
             \/ helper = "error" /\ result' = "error" /\ UNCHANGED helper
             \/ helper = "conn" /\ result' = "conn" /\ helper' = "taken"
          /\ pc' = "done"
          /\ UNCHANGED <<dialer, raw, deadline, ctx, callback, failed>>

(* The context ends: the timeout of the dial, or its caller.                 *)
ContextEnds == /\ ctx = "live" /\ dialer \notin Timed
               /\ ctx' = "ended"
               /\ callback' = IF callback = "armed" THEN "running" ELSE callback
               /\ UNCHANGED <<dialer, pc, raw, deadline, failed, helper, result>>

Callback == /\ callback = "running"
            /\ raw' = "closed" /\ callback' = "done"
            /\ UNCHANGED <<dialer, pc, deadline, ctx, failed, helper, result>>

Next == \/ Dial \/ SetDeadline \/ Arm \/ Talk \/ ClearDeadline
        \/ Join \/ Check \/ CloseRaw \/ Return
        \/ Spawn \/ HelperDials \/ HelperShakes \/ Select
        \/ ContextEnds \/ Callback

Spec == Init /\ [][Next]_dialVars

-------------------------------------------------------------------------------
TypeOK == /\ raw \in {"none", "open", "closed"}
          /\ callback \in {"none", "armed", "running", "stopped", "done"}
          /\ callback # "none" => dialer \in Tunnels
          /\ result # "none" <=> pc = "done"

(* A connection handed out is open and stays so for all the dial can do: its *)
(* deadline is gone, and its callback will not run.                          *)
HandsOutOpen ==
  result = "conn" => raw = "open" /\ ~deadline /\ callback \in {"none", "stopped"}

(* A dial that fails leaves no connection behind, except that websocket's    *)
(* drops what its goroutine has, or gets, when the context has ended.        *)
FailureCloses ==
  result = "error" /\ raw = "open" => helper \in {"handshake", "conn"} /\ ctx = "ended"

(* Whenever a dial waits for the proxy, something will end the wait: the     *)
(* deadline, and a cancellation if it can be cancelled.  Only SOCKS5 of      *)
(* pop3client waits for as long as the proxy likes, and so does websocket's  *)
(* goroutine, whether anybody still waits for it or not.                     *)
WaitsEnd == pc \in Waits /\ dialer # "mailsocks" =>
              deadline /\ (dialer \in Tunnels => callback # "none")
===============================================================================
