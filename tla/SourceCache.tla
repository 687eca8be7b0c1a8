------------------------------ MODULE SourceCache ------------------------------
(***************************************************************************)
(* The source cache of the install script: main() of build.js.  Under the  *)
(* lock of module CacheLock an installer looks whether Node's source tree  *)
(* is in the cache, and otherwise downloads, checks and unpacks the        *)
(* archive and replaces the tree.  Then it releases the lock and builds    *)
(* from the tree without it.                                               *)
(***************************************************************************)
EXTENDS CacheLock

VARIABLES
    source,          \* what is in the source directory
    archive,         \* the downloaded file: "none", "bad" or "good"
    task             \* what each installer does under the lock

vars == <<lockVars, source, archive, task>>

\* The files validateSource() looks for, all others, and the checksum file that the script
\* adds.  A tree without it was not unpacked by this script.
Parts == {"required", "others", "marker"}
Tasks == {"validate", "archive", "extract", "remove", "install", "succeeded", "failed"}

Init ==
    /\ LockInit
    /\ source \in (SUBSET {"required", "others"}) \cup {Parts}
    /\ archive \in {"none", "bad", "good"}
    /\ task = [p \in Installers |-> "validate"]

Do(p, step) == At(p, "holding") /\ task[p] = step
Then(p, step) == task' = [task EXCEPT ![p] = step]

\* Mutant: any tree that validates will do.
Cached_AnyTree == "required" \in source

Cached == "required" \in source /\ "marker" \in source

\* Without a valid tree the checksum is downloaded first, which may fail.
Validate(p) ==
    /\ Do(p, "validate")
    /\ IF Cached THEN Then(p, "succeeded") ELSE Then(p, "archive") \/ Then(p, "failed")
    /\ UNCHANGED <<lockVars, source, archive>>

\* An archive that is there already is used if its checksum is right.  Another one is
\* downloaded beside it, renamed over it, and removed again if it is wrong, too.
GetArchive(p) ==
    /\ Do(p, "archive")
    /\ \/ archive = "good" /\ Then(p, "extract") /\ UNCHANGED archive
       \/ archive # "good" /\ archive' = "good" /\ Then(p, "extract")
       \/ archive # "good" /\ archive' \in {archive, "bad", "none"} /\ Then(p, "failed")
    /\ UNCHANGED <<lockVars, source>>

\* Unpacks into a directory of its own, checks the tree and adds the marker.
Extract(p) ==
    /\ Do(p, "extract") /\ (Then(p, "remove") \/ Then(p, "failed"))
    /\ UNCHANGED <<lockVars, source, archive>>

\* rmSync() of the old tree, part by part in no particular order.
Remove(p) ==
    /\ Do(p, "remove")
    /\ IF source = {} THEN Then(p, "install") /\ UNCHANGED source
       ELSE (\E part \in source : source' = source \ {part}) /\ UNCHANGED task
    /\ UNCHANGED <<lockVars, archive>>

\* Mutant: the new tree is copied instead of renamed.
Install_Copies(p) ==
    /\ Do(p, "install")
    /\ IF source = Parts THEN Then(p, "succeeded") /\ UNCHANGED source
       ELSE (\E part \in Parts \ source : source' = source \cup {part}) /\ UNCHANGED task
    /\ UNCHANGED <<lockVars, archive>>

\* One rename puts the new tree, marker included, in place.
Install(p) ==
    /\ Do(p, "install")
    /\ IF source = {} THEN source' = Parts /\ Then(p, "succeeded")
       ELSE Then(p, "failed") /\ UNCHANGED source
    /\ UNCHANGED <<lockVars, archive>>

\* The lock is released after success and failure alike.
MayRelease(p) == task[p] \in {"succeeded", "failed"}

UnderLock(p) == Validate(p) \/ GetArchive(p) \/ Extract(p) \/ Remove(p) \/ Install(p)

Locking(p) ==
    /\ Acquire(p) \/ (MayRelease(p) /\ Release(p)) \/ Leave(p) \/ Crash(p)
    /\ UNCHANGED <<source, archive, task>>

Next == \E p \in Installers : Locking(p) \/ UnderLock(p)

Spec == Init /\ [][Next]_vars

\* A process that was not killed goes on, and the pid of one that ended is not in use for ever.
FairSpec ==
    /\ Spec
    /\ \A p \in Installers :
        /\ WF_vars(Acquire(p) /\ UNCHANGED <<source, archive, task>>)
        /\ SF_vars(JudgeDead(p) /\ UNCHANGED <<source, archive, task>>)

-----------------------------------------------------------------------------
(* Properties *)

\* The type invariant.
TypeOK ==
    /\ LockTypeOK
    /\ source \subseteq Parts /\ archive \in {"none", "bad", "good"}
    /\ task \in [Installers -> Tasks]

\* Wherever an installer is killed, also within the removal of an old tree: what the next
\* one takes for a cached tree is a whole one.
CacheIsWhole == Cached /\ ~robbed => source = Parts

\* The build reads the tree without the lock: nobody touches it meanwhile.
Builds(p) == pc[p] = "build" /\ task[p] = "succeeded"
BuildsWhole == ~robbed => \A p \in Installers : Builds(p) => source = Parts
=============================================================================
