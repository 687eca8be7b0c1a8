----------------------------- MODULE MCSourceCache -----------------------------
(* Three installers for TLC, so that two of them may find what the third one left. *)
EXTENDS SourceCache

CONSTANTS a, b, c

OneHost == [p \in Installers |-> "host"]
=============================================================================
