--------------------------- MODULE MCWebSocketServer ---------------------------
(***************************************************************************)
(* Small instances of WebSocketServer.                                     *)
(***************************************************************************)
EXTENDS WebSocketServer

CONSTANTS w1, w2, none

PingBodies == {<<>>, <<"pong">>}
MixedBodies == {<<>>, <<"message">>, <<"pong">>, <<"message", "pong">>, <<"pong", "message", "message">>}
=============================================================================
