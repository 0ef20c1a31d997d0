------------------------- MODULE MCWebSocketsServer -------------------------
(***************************************************************************)
(* WebSocketsServer with two sockets, two client numbers and connections   *)
(* that use the sockets and the numbers again.                             *)
(***************************************************************************)
EXTENDS WebSocketsServer

CONSTANTS fd1, fd2

TwoFds == {fd1, fd2}

=============================================================================
