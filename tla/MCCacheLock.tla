------------------------------ MODULE MCCacheLock ------------------------------
(* Three installers for TLC, two of them on one host. *)
EXTENDS CacheLock

CONSTANTS a, b, c

TwoHosts == [p \in Installers |-> IF p = c THEN "other" ELSE "host"]
=============================================================================
