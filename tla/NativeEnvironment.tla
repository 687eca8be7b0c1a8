--------------------------- MODULE NativeEnvironment ---------------------------
(***************************************************************************)
(* Who frees what: the session handles that JavaScript has, the native     *)
(* transports attached to them, and the environment, one for each thread   *)
(* that loads the addon, whose cleanup hook has to get rid of all of them  *)
(* when the thread ends.  A handle and its transport point at each other,  *)
(* and either may go first: JavaScript disposes of a session, the garbage  *)
(* collector finalizes it, libuv reports a poll handle closed, or the      *)
(* thread ends while all that is under way.  Transports over TLS also own  *)
(* entries of the registry of module TLSCallbacks.                         *)
(*                                                                         *)
(* What a transport does while it is open is the subject of module         *)
(* NativeTransport; here it opens, closes and goes.                        *)
(***************************************************************************)
EXTENDS TLSCallbacks, FiniteSets

CONSTANTS
    Sessions,        \* createSession() calls, each with its handle
    Connections,     \* bound: the contexts that TLS connections began with and have now
    MaxStarts        \* bound: threads, one after the other, that get the same napi_env

ASSUME ConnectionsAssumption == Connections \subseteq Contexts \X Contexts /\ MaxStarts \in Nat

VARIABLES
    environment,     \* the thread's NativeEnvironment: "none", "running", "sweeping", "cleaning"
    registered,      \* whether nativeEnvironments has an entry of its napi_env
    starts,
    listed,          \* the environment's list, from head
    sweep,           \* the transports the cleanup hook has still to visit
    handle,          \* each SessionHandle: "none", "live", "disposed" or "deleted"
    holds,           \* whether its transport pointer is set
    object,          \* each NativeTransport: "none", "built" or "deleted"
    transport,       \* its members
    owned            \* ownedTLSConnections

environmentVars == <<environment, registered, starts, sweep>>
transportVars == <<object, transport, listed, owned, contexts>>
vars == <<environmentVars, handle, holds, transportVars, nodeHolds, nodeCallback>>

Plain == <<>>    \* the ssl_ of a TCP connection

\* The members of a transport: storage_ and session_ are set, its connection, and the rest.
New(ssl) == [storage |-> TRUE, session |-> TRUE, ssl |-> ssl, retained |-> FALSE, active |-> FALSE,
             closing |-> FALSE, poll |-> "none", destroyRequested |-> FALSE, cleaning |-> FALSE]

Init ==
    /\ TLSInit
    /\ environment = "none" /\ registered = FALSE /\ starts = 0
    /\ listed = {} /\ sweep = {} /\ owned = {}
    /\ handle = [h \in Sessions |-> "none"] /\ holds = [h \in Sessions |-> FALSE]
    /\ object = [h \in Sessions |-> "none"] /\ transport = [h \in Sessions |-> New(Plain)]

-----------------------------------------------------------------------------
(* Parts of several operations *)

\* closeNow()
Closed(t) == [t EXCEPT !.closing = TRUE,
                       !.poll = IF ~t.closing /\ @ = "open" THEN "closing" ELSE @]

\* Mutant: the destructor forgets the registry.
Delete_KeepsCallbacks(h, t) ==
    /\ transport' = [transport EXCEPT ![h] = [t EXCEPT !.ssl = Plain, !.retained = FALSE]]
    /\ object' = [object EXCEPT ![h] = "deleted"] /\ listed' = listed \ {h}
    /\ UNCHANGED <<owned, contexts>>

\* ~NativeTransport() of a transport whose members are t by then.
Delete(h, t) ==
    /\ transport' = [transport EXCEPT ![h] = [t EXCEPT !.ssl = Plain, !.retained = FALSE]]
    /\ object' = [object EXCEPT ![h] = "deleted"] /\ listed' = listed \ {h}
    /\ IF t.retained THEN owned' = owned \ {h} /\ contexts' = released(contexts, t.ssl)
       ELSE UNCHANGED <<owned, contexts>>

Keep(h, t) ==
    /\ transport' = [transport EXCEPT ![h] = t]
    /\ UNCHANGED <<object, listed, owned, contexts>>

\* Forgets the session and the handle, for the transport is to go.
Doomed(t) == [t EXCEPT !.destroyRequested = TRUE, !.session = FALSE, !.storage = FALSE]

\* Mutant: deletes a transport whose poll handle libuv still has.
DestroyNow_Always(t) == TRUE

\* Whether requestDestroy() deletes at once.
DestroyNow(t) == ~t.active \/ t.poll = "closed"

\* requestDestroy(), from outside of onPollClosed()
RequestDestroy(h) ==
    LET t == Doomed(Closed(transport[h]))
    IN IF DestroyNow(transport[h]) THEN Delete(h, t) ELSE Keep(h, t)

\* What dispose() and finalizeSession() do with a transport.
LetGo(h) ==
    /\ holds' = [holds EXCEPT ![h] = FALSE]
    /\ IF holds[h] THEN RequestDestroy(h) ELSE UNCHANGED transportVars

\* Mutant: the first transport that finishes takes the environment with it.
Complete_AtFirst == environment' = "none"

\* completeNativeEnvironmentCleanup()
Complete == environment' = IF listed' = {} THEN "none" ELSE environment

-----------------------------------------------------------------------------
(* The addon's functions, called by JavaScript *)

\* initializeNativeEnvironment()
Initialize ==
    /\ environment = "none" /\ starts < MaxStarts
    /\ \A h \in Sessions : handle[h] \in {"none", "deleted"}
    /\ starts' = starts + 1
    /\ IF registered THEN UNCHANGED <<environment, registered>>
       ELSE environment' = "running" /\ registered' = TRUE
    /\ UNCHANGED <<sweep, handle, holds, transportVars, nodeHolds, nodeCallback>>

CreateSession(h) ==
    /\ environment = "running" /\ handle[h] = "none"
    /\ handle' = [handle EXCEPT ![h] = "live"]
    /\ UNCHANGED <<environmentVars, holds, transportVars, nodeHolds, nodeCallback>>

\* attachTransport(), once for a handle.  Where it fails it gives back what it had taken.
Attach(h, ssl) ==
    /\ environment = "running" /\ handle[h] = "live" /\ object[h] = "none"
    /\ registered /\ (ssl # Plain => Used(ssl) \subseteq nodeHolds)
    /\ holds' = [holds EXCEPT ![h] = TRUE]
    /\ object' = [object EXCEPT ![h] = "built"]
    /\ transport' = [transport EXCEPT ![h] = New(ssl)]
    /\ listed' = listed \cup {h}
    /\ UNCHANGED <<environmentVars, handle, owned, contexts, nodeHolds, nodeCallback>>

\* retainTLSCallbacks() at the start of activate()
Retain(h) ==
    IF transport[h].ssl = Plain THEN UNCHANGED <<owned, contexts>>
    ELSE owned' = owned \cup {h} /\ contexts' = retained(contexts, transport[h].ssl)

\* activate(): the poll handle cannot be made, or is made and may be closed again when what
\* OpenSSL has buffered is a failure.  JavaScript tries once.
Activate(h) ==
    LET t == [transport[h] EXCEPT !.retained = transport[h].ssl # Plain]
        open == [t EXCEPT !.active = TRUE, !.poll = "open"]
    IN  /\ environment = "running" /\ handle[h] = "live" /\ holds[h]
        /\ ~transport[h].active /\ ~transport[h].closing /\ ~transport[h].retained
        /\ Retain(h)
        /\ \E after \in {t, open, Closed(open)} : transport' = [transport EXCEPT ![h] = after]
        /\ UNCHANGED <<environmentVars, handle, holds, object, listed, nodeHolds, nodeCallback>>

\* terminateTransport(), or a failure that onPoll() meets.
Close(h) ==
    /\ environment = "running" /\ object[h] = "built" /\ ~transport[h].closing
    /\ (handle[h] = "live" /\ holds[h]) \/ transport[h].poll = "open"
    /\ transport' = [transport EXCEPT ![h] = Closed(@)]
    /\ UNCHANGED <<environmentVars, handle, holds, object, listed, owned, contexts, nodeHolds,
                   nodeCallback>>

Dispose(h) ==
    /\ environment = "running" /\ handle[h] = "live"
    /\ handle' = [handle EXCEPT ![h] = "disposed"]
    /\ LetGo(h)
    /\ UNCHANGED <<environmentVars, nodeHolds, nodeCallback>>

\* The garbage collector finalizes a handle that JavaScript cannot reach: an attached
\* transport keeps its WebSocket alive, and with it the handle that was not disposed of.
\* Every handle that is left is finalized after the environment's hook was removed.
Finalize(h) ==
    /\ \/ environment \in {"running", "cleaning"} /\ handle[h] = "disposed"
       \/ environment \in {"running", "cleaning"} /\ handle[h] = "live" /\ object[h] # "built"
       \/ environment = "none" /\ handle[h] \in {"live", "disposed"}
    /\ handle' = [handle EXCEPT ![h] = "deleted"]
    /\ LetGo(h)
    /\ UNCHANGED <<environmentVars, nodeHolds, nodeCallback>>

-----------------------------------------------------------------------------
(* The event loop *)

\* onPollClosed() of a thread that goes on.  _onNativeClosed() disposes of the session, unless
\* it did already or the call cannot be made any more.
PollClosedRunning(h) ==
    LET t == [transport[h] EXCEPT !.poll = "closed"] IN
    /\ ~t.cleaning /\ UNCHANGED environment
    /\ \/ /\ handle[h] = "live" /\ holds[h]
          /\ handle' = [handle EXCEPT ![h] = "disposed"] /\ holds' = [holds EXCEPT ![h] = FALSE]
          /\ Delete(h, Doomed(t))
       \/ /\ IF t.destroyRequested THEN Delete(h, t) ELSE Keep(h, t)
          /\ UNCHANGED <<handle, holds>>

PollClosedCleaning(h) ==
    LET t == [transport[h] EXCEPT !.poll = "closed"] IN
    /\ t.cleaning /\ Delete(h, t) /\ Complete
    /\ UNCHANGED <<handle, holds>>

OnPollClosed(h) ==
    /\ environment # "sweeping" /\ object[h] = "built" /\ transport[h].poll = "closing"
    /\ PollClosedRunning(h) \/ PollClosedCleaning(h)
    /\ UNCHANGED <<registered, starts, sweep, nodeHolds, nodeCallback>>

-----------------------------------------------------------------------------
(* The end of the thread *)

\* cleanupNativeEnvironment(): from now on there is no JavaScript.
CleanupHook ==
    /\ environment = "running"
    /\ registered' = FALSE /\ sweep' = listed
    /\ environment' = IF listed = {} THEN "none" ELSE "sweeping"
    /\ UNCHANGED <<starts, handle, holds, transportVars, nodeHolds, nodeCallback>>

\* Mutant: a transport that is closing already is left to itself.
Begun_OnlyOpen(t) == IF t.closing THEN t ELSE Closed([Doomed(t) EXCEPT !.cleaning = TRUE])

\* beginEnvironmentCleanup()
Begun(t) == Closed([Doomed(t) EXCEPT !.cleaning = TRUE])

\* One turn of its loop: a transport without a poll handle goes at once.
Sweep(h) ==
    LET t == Begun(transport[h]) IN
    /\ environment = "sweeping" /\ h \in sweep /\ sweep' = sweep \ {h}
    /\ holds' = [holds EXCEPT ![h] = @ /\ ~transport[h].storage]
    /\ IF t.poll \in {"none", "closed"} THEN Delete(h, t) ELSE Keep(h, t)
    /\ environment' = IF listed' = {} THEN "none"
                      ELSE IF sweep' = {} THEN "cleaning" ELSE "sweeping"
    /\ UNCHANGED <<registered, starts, handle, nodeHolds, nodeCallback>>

-----------------------------------------------------------------------------
\* The contexts that SSL objects and initialTLSContext_ refer to.
InUse == UNION {Used(transport[h].ssl) :
                    h \in {s \in Sessions : object[s] = "built" /\ transport[s].ssl # Plain}}

Node ==
    /\ \E c \in Contexts :
        \/ NodeDrops(c)
        \/ \E callback \in Callbacks : NodeInstalls(c, callback) \/ NodeCreates(c, InUse, callback)
    /\ UNCHANGED <<environmentVars, handle, holds, object, transport, listed, owned>>

JavaScript(h) ==
    \/ CreateSession(h) \/ (\E ssl \in Connections \cup {Plain} : Attach(h, ssl)) \/ Activate(h)
    \/ Close(h) \/ Dispose(h) \/ Finalize(h)

Next ==
    \/ Initialize \/ CleanupHook \/ Node
    \/ \E h \in Sessions : JavaScript(h) \/ OnPollClosed(h) \/ Sweep(h)

Spec == Init /\ [][Next]_vars

\* The loop of a thread that ends runs until every cleanup hook is removed.
FairSpec == Spec /\ WF_vars(\E h \in Sessions : OnPollClosed(h) \/ Sweep(h))

-----------------------------------------------------------------------------
(* Properties *)

TypeOK ==
    /\ environment \in {"none", "running", "sweeping", "cleaning"} /\ registered \in BOOLEAN
    /\ starts \in 0..MaxStarts
    /\ listed \subseteq Sessions /\ sweep \subseteq Sessions /\ owned \subseteq Sessions
    /\ handle \in [Sessions -> {"none", "live", "disposed", "deleted"}]
    /\ holds \in [Sessions -> BOOLEAN]
    /\ object \in [Sessions -> {"none", "built", "deleted"}]
    /\ transport \in [Sessions ->
            [storage : BOOLEAN, session : BOOLEAN, ssl : Connections \cup {Plain},
             retained : BOOLEAN, active : BOOLEAN, closing : BOOLEAN,
             poll : {"none", "open", "closing", "closed"},
             destroyRequested : BOOLEAN, cleaning : BOOLEAN]]
    /\ contexts \in [Contexts -> [installed : Callbacks \cup {Multiplex},
                                  saved : Callbacks \cup {Multiplex}, owners : Nat]]
    /\ nodeHolds \subseteq Contexts /\ nodeCallback \in [Contexts -> Callbacks]

Built == {h \in Sessions : object[h] = "built"}

\* Whichever of handle, session, transport and poll handle goes first, on whatever path: no
\* pointer is left to one that is gone, and a transport outlives the poll handle in it.
PointersLive ==
    \A h \in Sessions :
        /\ holds[h] => object[h] = "built" /\ handle[h] # "deleted" /\ transport[h].storage
        /\ h \in Built /\ transport[h].storage => handle[h] = "live" /\ holds[h]
        /\ h \in Built /\ transport[h].session => handle[h] = "live"
        /\ object[h] = "deleted" => transport[h].poll \in {"none", "closed"}

\* The hook is removed and the environment freed after the last of its transports, and the
\* table of environments never holds one that is being cleaned up or gone.
EnvironmentLast ==
    /\ listed = Built
    /\ environment = "none" => Built = {}
    /\ registered <=> environment = "running"

\* Through failed activations, early terminations, finalizers and the end of the thread, an
\* entry of the registry counts the connections that retained it, and nothing else is left in
\* it that a new connection or context at the same address could be taken for.
RegistryExact ==
    /\ owned = {h \in Built : transport[h].retained}
    /\ \A c \in Contexts :
        contexts[c].owners = Cardinality({h \in owned : c \in Used(transport[h].ssl)})

\* A connection that Node still has hears what Node installed last, whether a multiplexer
\* is in between, was replaced by Node meanwhile or is gone again.
NodeHears == \A c \in nodeHolds \cup InUse : Hears(c) = nodeCallback[c]

\* A thread that ends gets rid of its transports, also of those never activated or closing
\* already, and its hook.
ThreadEnds == environment = "sweeping" ~> environment = "none"
=============================================================================
