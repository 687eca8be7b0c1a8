----------------------------- MODULE TLSCallbacks -----------------------------
(***************************************************************************)
(* The registry that stands between Node and the TLS connections this      *)
(* addon took over.  Node's callbacks sit in the SSL_CTX, which it shares  *)
(* among connections, and expect a TLSWrap behind every one of them.  The  *)
(* first owned connection of a context therefore puts a multiplexing       *)
(* callback in their place, which hides owned connections and passes the   *)
(* others on, and the last one restores what was there.  The session,      *)
(* lookup and keylog callbacks are handled alike; one stands for the three. *)
(* Every access is made under tlsCallbackMutex, so an operation is a step. *)
(***************************************************************************)
EXTENDS Naturals

CONSTANTS
    Contexts,        \* SSL_CTX, by address: a freed one may come back as another
    Callbacks,       \* what Node installs, a null callback included
    Multiplex        \* multiplexNewSession, multiplexGetSession or multiplexKeylog

ASSUME MultiplexAssumption == Multiplex \notin Callbacks

VARIABLES
    contexts,        \* for each: what is installed, and its entry of tlsContexts
    nodeHolds,       \* the contexts Node has a reference to
    nodeCallback     \* what Node installed last in each

tlsVars == <<contexts, nodeHolds, nodeCallback>>

\* Without owners there is no entry, and nothing saved in it.
Context(installed, saved, owners) == [installed |-> installed, saved |-> saved, owners |-> owners]
NoEntry(installed) == Context(installed, Multiplex, 0)

TLSInit ==
    /\ nodeCallback \in [Contexts -> Callbacks]
    /\ nodeHolds = Contexts
    /\ contexts = [c \in Contexts |-> NoEntry(nodeCallback[c])]

-----------------------------------------------------------------------------
(* Node *)

\* A listener of Node's is added: the callback goes into the context.
NodeInstalls(c, callback) ==
    /\ c \in nodeHolds
    /\ contexts' = [contexts EXCEPT ![c].installed = callback]
    /\ nodeCallback' = [nodeCallback EXCEPT ![c] = callback]
    /\ UNCHANGED nodeHolds

NodeDrops(c) ==
    /\ c \in nodeHolds /\ nodeHolds' = nodeHolds \ {c}
    /\ UNCHANGED <<contexts, nodeCallback>>

\* A new context at the address of one that nothing refers to any more.  What is in
\* tlsContexts for that address stays.
NodeCreates(c, inUse, callback) ==
    /\ c \in Contexts \ (nodeHolds \cup inUse)
    /\ contexts' = [contexts EXCEPT ![c].installed = callback]
    /\ nodeCallback' = [nodeCallback EXCEPT ![c] = callback]
    /\ nodeHolds' = nodeHolds \cup {c}

-----------------------------------------------------------------------------
(* The addon *)

\* The first owner saves what is installed and takes its place.
retainTLSContext(cs, c) ==
    [cs EXCEPT ![c] = IF cs[c].owners = 0 THEN Context(Multiplex, cs[c].installed, 1)
                      ELSE [cs[c] EXCEPT !.owners = @ + 1]]

\* Mutant: restores the saved callback although Node installed another meanwhile.
releaseTLSContext_Restores(cs, c) ==
    [cs EXCEPT ![c] = IF cs[c].owners = 1 THEN NoEntry(cs[c].saved)
                      ELSE [cs[c] EXCEPT !.owners = IF @ = 0 THEN 0 ELSE @ - 1]]

releaseTLSContext(cs, c) ==
    [cs EXCEPT ![c] =
        IF cs[c].owners = 0 THEN cs[c]
        ELSE IF cs[c].owners > 1 THEN [cs[c] EXCEPT !.owners = @ - 1]
        ELSE NoEntry(IF cs[c].installed = Multiplex THEN cs[c].saved ELSE cs[c].installed)]

\* A connection's server name may have moved it from the context it began with to another.
Used(ssl) == {ssl[1], ssl[2]}

\* retainTLSCallbacks() of a connection <<initial context, current context>>
retained(cs, ssl) ==
    LET first == retainTLSContext(cs, ssl[1])
    IN IF ssl[2] = ssl[1] THEN first ELSE retainTLSContext(first, ssl[2])

\* releaseTLSCallbacks()
released(cs, ssl) ==
    LET first == IF ssl[2] = ssl[1] THEN cs ELSE releaseTLSContext(cs, ssl[2])
    IN releaseTLSContext(first, ssl[1])

\* What an event of a connection reaches that Node still has: multiplexKeylog() and its like.
Hears(c) ==
    IF contexts[c].installed # Multiplex THEN contexts[c].installed ELSE contexts[c].saved
=============================================================================
