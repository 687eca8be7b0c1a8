------------------------------- MODULE CacheLock -------------------------------
(***************************************************************************)
(* The lock of the source cache: acquireCacheLock() and recoverCacheLock() *)
(* of the install script.  Installers run as processes of their own, on    *)
(* one host or on several that share the cache, and may be killed at any   *)
(* time.  All they share is the file system; one step is one system call   *)
(* on it, or the process.kill() that asks whether another still runs.      *)
(*                                                                         *)
(* The lock is a directory that holds its owner's token.  It is published  *)
(* by renaming a filled directory, taken from a dead owner by renaming it  *)
(* to a name made of that owner's token, where it stays, and released by   *)
(* renaming it once more.  An installer and its token are the same here:   *)
(* every run of the script makes a token of its own.                       *)
(***************************************************************************)
CONSTANTS
    Installers,      \* runs of the script
    Host,            \* the host of each
    Absent,          \* no lock directory
    Ownerless        \* a lock directory without valid metadata

ASSUME InstallersAssumption ==
    Installers \cap {Absent, Ownerless} = {} /\ Absent # Ownerless

VARIABLES
    lock,            \* whose token is at the path of the lock
    recovered,       \* tokens whose tombstone exists
    pc,              \* what each installer does next
    seen,            \* the owner it found last
    robbed           \* whether a lock was ever taken for that of somebody else

lockVars == <<lock, recovered, pc, seen, robbed>>

Acquiring == {"look", "read", "publish", "recheck", "reread", "judge", "reclaim", "check"}
Owning == {"holding", "compare", "unlock"}
Steps == {"start", "build", "done", "gaveUp", "crashed"} \cup Acquiring \cup Owning

\* Ended, in whichever way: process.kill(pid, 0) would fail with ESRCH.
Ended(p) == pc[p] \in {"done", "gaveUp", "crashed"}
Holds(p) == pc[p] \in Owning

LockInit ==
    /\ lock \in {Absent, Ownerless}
    /\ recovered = {}
    /\ pc = [p \in Installers |-> "start"]
    /\ seen = [p \in Installers |-> Ownerless]
    /\ robbed = FALSE

At(p, step) == p \in Installers /\ pc[p] = step
Goto(p, step) == pc' = [pc EXCEPT ![p] = step]

-----------------------------------------------------------------------------
(* acquireCacheLock() *)

\* Its own directory is filled before the loop.
Start(p) ==
    /\ At(p, "start") /\ Goto(p, "look")
    /\ UNCHANGED <<lock, recovered, seen, robbed>>

\* inspectCacheLock(): is there a lock?
Look(p) ==
    /\ At(p, "look") /\ Goto(p, IF lock = Absent THEN "publish" ELSE "read")
    /\ UNCHANGED <<lock, recovered, seen, robbed>>

\* inspectCacheLock(): whose is it?  A lock that is gone by now has no owner.
Read(p) ==
    /\ At(p, "read")
    /\ seen' = [seen EXCEPT ![p] = IF lock = Absent THEN Ownerless ELSE lock]
    /\ Goto(p, IF lock \in Installers THEN "recheck" ELSE "check")
    /\ UNCHANGED <<lock, recovered, robbed>>

\* A directory cannot be renamed over another that is not empty.
Publish(p) ==
    /\ At(p, "publish")
    /\ IF lock = Absent THEN lock' = p /\ Goto(p, "holding")
       ELSE Goto(p, "check") /\ UNCHANGED lock
    /\ UNCHANGED <<recovered, seen, robbed>>

\* The deadline: wait and try again, or give up.
Check(p) ==
    /\ At(p, "check") /\ (Goto(p, "look") \/ Goto(p, "gaveUp"))
    /\ UNCHANGED <<lock, recovered, seen, robbed>>

-----------------------------------------------------------------------------
(* recoverCacheLock() *)

Recheck(p) ==
    /\ At(p, "recheck") /\ Goto(p, IF lock = Absent THEN "check" ELSE "reread")
    /\ UNCHANGED <<lock, recovered, seen, robbed>>

\* Mutant: compares with the wrong token.
Reread_OwnToken(p) ==
    /\ At(p, "reread") /\ Goto(p, IF lock = p THEN "judge" ELSE "check")
    /\ UNCHANGED <<lock, recovered, seen, robbed>>

Reread(p) ==
    /\ At(p, "reread") /\ Goto(p, IF lock = seen[p] THEN "judge" ELSE "check")
    /\ UNCHANGED <<lock, recovered, seen, robbed>>

\* Mutant: takes any error of process.kill() for the owner's end.
SeemsDead_AnyError(p) == Host[p] = Host[seen[p]]

\* What !cacheLockOwnerIsAlive() can find: a process of another host counts as alive.
SeemsDead(p) == Ended(seen[p]) /\ Host[p] = Host[seen[p]]

\* The pid of an owner that ended may be in use again.
JudgeAlive(p) ==
    /\ At(p, "judge") /\ Goto(p, "check")
    /\ UNCHANGED <<lock, recovered, seen, robbed>>

JudgeDead(p) ==
    /\ At(p, "judge") /\ SeemsDead(p) /\ Goto(p, "reclaim")
    /\ UNCHANGED <<lock, recovered, seen, robbed>>

\* Mutant: the tombstone's name is new each time.
Tombstone_Fresh(p) == FALSE

\* Whether the rename of the reclaimer finds a directory in its way.
Tombstone(p) == seen[p] \in recovered

\* The rename takes whatever lock is there by now.
Reclaim(p) ==
    /\ At(p, "reclaim")
    /\ IF lock = Absent \/ Tombstone(p)
         THEN Goto(p, "check") /\ UNCHANGED <<lock, recovered, robbed>>
         ELSE /\ lock' = Absent /\ recovered' = recovered \cup {seen[p]}
              /\ robbed' = IF lock = seen[p] THEN robbed ELSE TRUE
              /\ Goto(p, "look")
    /\ UNCHANGED seen

-----------------------------------------------------------------------------
(* The release, and the end *)

\* inspectCacheLock() again: a lock that is gone is left alone ...
Release(p) ==
    /\ At(p, "holding") /\ Goto(p, IF lock = Absent THEN "build" ELSE "compare")
    /\ UNCHANGED <<lock, recovered, seen, robbed>>

\* ... and so is another's.
Compare(p) ==
    /\ At(p, "compare") /\ Goto(p, IF lock = p THEN "unlock" ELSE "build")
    /\ UNCHANGED <<lock, recovered, seen, robbed>>

Unlock(p) ==
    /\ At(p, "unlock")
    /\ lock' = Absent
    /\ Goto(p, IF lock = Absent THEN "done" ELSE "build")
    /\ UNCHANGED <<recovered, seen, robbed>>

\* The build needs no lock, and then the process ends.
Finish(p) ==
    /\ At(p, "build") /\ Goto(p, "done")
    /\ UNCHANGED <<lock, recovered, seen, robbed>>

Crash(p) ==
    /\ p \in Installers /\ pc[p] \in Acquiring \cup Owning
    /\ Goto(p, "crashed")
    /\ UNCHANGED <<lock, recovered, seen, robbed>>

Acquire(p) ==
    \/ Start(p) \/ Look(p) \/ Read(p) \/ Publish(p) \/ Check(p)
    \/ Recheck(p) \/ Reread(p) \/ JudgeAlive(p) \/ JudgeDead(p) \/ Reclaim(p)
Leave(p) == Compare(p) \/ Unlock(p) \/ Finish(p)

LockNext == \E p \in Installers : Acquire(p) \/ Release(p) \/ Leave(p) \/ Crash(p)

LockSpec == LockInit /\ [][LockNext]_lockVars

-----------------------------------------------------------------------------
(* Properties *)

\* The type invariant of the lock.
LockTypeOK ==
    /\ lock \in Installers \cup {Absent, Ownerless}
    /\ recovered \subseteq Installers
    /\ pc \in [Installers -> Steps]
    /\ seen \in [Installers -> Installers \cup {Ownerless}]
    /\ robbed \in BOOLEAN
    /\ \A p \in Installers : pc[p] \in {"recheck", "reread", "judge", "reclaim"} => seen[p] \in Installers

\* Crashes, several reclaimers of one dead owner and releases at any time: at most one
\* installer at once works under the lock, unless a reclaimer took a lock it did not mean.
Exclusion ==
    ~robbed => \A p, q \in Installers : Holds(p) /\ Holds(q) => p = q

\* The tombstone keeps a late reclaimer from a lock acquired since the owner it judges
\* crashed.  What is left is an owner that released its lock, and therefore leaves no
\* tombstone, and ended between the reclaimer's two looks at it.
RobbedOnlyAfterRelease == robbed => \E t \in Installers : pc[t] = "done"

\* The comment of recoverCacheLock(): a delayed reclaimer "cannot rename a newly acquired
\* lock".
NeverRobbed == ~robbed

\* An installer waits for a lock that another one of its host left behind when it crashed.
WaitsForStale ==
    \E t, w \in Installers :
        lock = t /\ pc[t] = "crashed" /\ pc[w] \in Acquiring /\ Host[w] = Host[t]

\* That does not last: the lock is recovered, or its last waiter gives up.
StaleLockGoes == WaitsForStale ~> ~WaitsForStale
=============================================================================
