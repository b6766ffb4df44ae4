------------------------- MODULE MCWebSocketConnection -------------------------
(* A small instance of WebSocketConnection. *)
EXTENDS WebSocketConnection

================================================================================
