-------------------------- MODULE MCNativeEnvironment --------------------------
(* Two sessions and two TLS contexts for TLC. *)
EXTENDS NativeEnvironment

CONSTANTS s1, s2, c1, c2

\* A server's own context, and the one of a name it also serves.
ServerNames == {<<c1, c1>>, <<c1, c2>>}
=============================================================================
