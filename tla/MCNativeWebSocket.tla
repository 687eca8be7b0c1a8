---------------------------- MODULE MCNativeWebSocket ----------------------------
(***************************************************************************)
(* Instances of NativeWebSocket.                                           *)
(***************************************************************************)
EXTENDS NativeWebSocket

\* What one read may hold in front of a Close.
SingleBodies == {<<>>, <<"message">>, <<"pong">>}
PairBodies == SingleBodies \cup {<<"message", "pong">>, <<"message", "message">>}
=============================================================================
