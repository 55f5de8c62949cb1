--------------------------- MODULE MCWebSocketClient ---------------------------
(* Instances of WebSocketClient for TLC.                                     *)
EXTENDS WebSocketClient

CONSTANTS c1, c2, k1, r1, l1

MCKind == [c \in Calls |-> CASE c \in {c1, c2} -> "connect"
                             [] c = k1 -> "close"
                             [] c = r1 -> "reconnect"
                             [] OTHER -> "listen"]
===============================================================================
