--------------------------- MODULE SourceCacheProofs ---------------------------
(***************************************************************************)
(* Proofs about modules CacheLock and SourceCache, for any number of       *)
(* installers on any hosts, killed at any time: they exclude one another,  *)
(* and what they find in the cache and build from is whole.                *)
(***************************************************************************)
EXTENDS SourceCache, TLAPS

-----------------------------------------------------------------------------
(* The inductive invariant *)

\* Who works under the lock owns it.
HolderOwns == ~robbed => \A p \in Installers : Holds(p) => lock = p

\* Whose token is in the lock works under it or was killed: it did not release it.
OwnerHolds ==
    ~robbed => \A t \in Installers : lock = t => Holds(t) \/ pc[t] = "crashed"

\* A tombstone is that of an owner that was killed, and the lock is not its any more.
TombstonesAreOld ==
    ~robbed => \A t \in recovered : pc[t] = "crashed" /\ lock # t

\* What a reclaimer saw is still there, has a tombstone, or was released.
SeenIsKnown ==
    ~robbed => \A p \in Installers : pc[p] \in {"judge", "reclaim"} =>
        lock = seen[p] \/ seen[p] \in recovered \/ pc[seen[p]] \in {"build", "done"}

\* An owner judged dead is dead.
JudgedIsDead == \A p \in Installers : pc[p] = "reclaim" => Ended(seen[p])

IInv ==
    /\ LockTypeOK /\ HolderOwns /\ OwnerHolds /\ TombstonesAreOld /\ SeenIsKnown /\ JudgedIsDead
    /\ RobbedOnlyAfterRelease

-----------------------------------------------------------------------------
(* Steps *)

\* The type invariant holds at the start and after every step of the lock.
THEOREM TypeStep == LockTypeOK /\ [LockNext]_lockVars => LockTypeOK'
<1> SUFFICES ASSUME LockTypeOK, [LockNext]_lockVars PROVE LockTypeOK'
    OBVIOUS
<1> USE DEF LockTypeOK, Steps, Acquiring, Owning, At, Goto
<1>1. CASE UNCHANGED lockVars
    BY <1>1 DEF lockVars
<1>2. ASSUME NEW p \in Installers, Acquire(p) PROVE LockTypeOK'
    <2>1. CASE Start(p) BY <2>1 DEF Start
    <2>2. CASE Look(p) BY <2>2 DEF Look
    <2>3. CASE Read(p) BY <2>3, InstallersAssumption DEF Read
    <2>4. CASE Publish(p) BY <2>4 DEF Publish
    <2>5. CASE Check(p) BY <2>5 DEF Check
    <2>6. CASE Recheck(p) BY <2>6 DEF Recheck
    <2>7. CASE Reread(p) BY <2>7 DEF Reread
    <2>8. CASE JudgeAlive(p) BY <2>8 DEF JudgeAlive
    <2>9. CASE JudgeDead(p) BY <2>9 DEF JudgeDead
    <2>10. CASE Reclaim(p)
        <3>1. /\ lock' \in {lock, Absent} /\ recovered' \in {recovered, recovered \cup {seen[p]}}
              /\ robbed' \in {robbed, TRUE} /\ seen' = seen /\ pc[p] = "reclaim"
              /\ \E step \in {"check", "look"} : pc' = [pc EXCEPT ![p] = step]
            BY <2>10 DEF Reclaim
        <3>2. seen[p] \in Installers BY <3>1
        <3>3. \A q \in Installers : pc'[q] \in {"recheck", "reread", "judge", "reclaim"}
                  => seen'[q] \in Installers
            BY <3>1
        <3>4. pc' \in [Installers -> Steps] BY <3>1
        <3>5. recovered' \subseteq Installers /\ robbed' \in BOOLEAN BY <3>1, <3>2
        <3> QED BY <3>1, <3>3, <3>4, <3>5
    <2> QED BY <1>2, <2>1, <2>2, <2>3, <2>4, <2>5, <2>6, <2>7, <2>8, <2>9, <2>10 DEF Acquire
<1>3. ASSUME NEW p \in Installers, Release(p) \/ Leave(p) \/ Crash(p) PROVE LockTypeOK'
    <2>1. CASE Release(p) BY <2>1 DEF Release
    <2>2. CASE Compare(p) BY <2>2 DEF Compare
    <2>3. CASE Unlock(p) BY <2>3 DEF Unlock
    <2>4. CASE Finish(p) BY <2>4 DEF Finish
    <2>5. CASE Crash(p) BY <2>5 DEF Crash
    <2> QED BY <1>3, <2>1, <2>2, <2>3, <2>4, <2>5 DEF Leave
<1> QED BY <1>1, <1>2, <1>3 DEF LockNext

\* A step that moves no lock and no tombstone keeps the invariant, when its installer goes on
\* working under the lock if and only if it did before, and is not about to reclaim.
LEMMA QuietStep ==
    ASSUME IInv, LockTypeOK', NEW p \in Installers, NEW step \in Steps \ {"judge", "reclaim"},
           Goto(p, step), UNCHANGED <<lock, recovered, robbed>>,
           \A q \in Installers \ {p} : seen'[q] = seen[q],
           ~Ended(p),
           Holds(p) <=> step \in Owning,
           pc[p] = "build" => step = "done"
    PROVE  IInv'
<1> USE DEF LockTypeOK, Goto, Holds, Ended, Steps, Acquiring, Owning
<1>0. /\ IInv /\ pc \in [Installers -> Steps] /\ seen \in [Installers -> Installers \cup {Ownerless}]
      /\ recovered \subseteq Installers
      /\ \A q \in Installers : pc[q] \in {"judge", "reclaim"} => seen[q] \in Installers
    BY DEF IInv
<1>1. HolderOwns' BY <1>0 DEF IInv, HolderOwns
<1>2. OwnerHolds' BY <1>0 DEF IInv, OwnerHolds
<1>3. TombstonesAreOld' BY <1>0 DEF IInv, TombstonesAreOld
<1>4. SeenIsKnown' BY <1>0 DEF IInv, SeenIsKnown
<1>5. JudgedIsDead' BY <1>0 DEF IInv, JudgedIsDead
<1>6. RobbedOnlyAfterRelease' BY <1>0 DEF IInv, RobbedOnlyAfterRelease
<1> QED BY <1>1, <1>2, <1>3, <1>4, <1>5, <1>6 DEF IInv

\* Publishing takes a lock that was free.
LEMMA PublishStep ==
    ASSUME IInv, LockTypeOK', NEW p \in Installers, Publish(p), lock = Absent
    PROVE  IInv'
<1> USE DEF LockTypeOK, Goto, Holds, Ended, Steps, Acquiring, Owning, Publish, At
<1>0. /\ IInv /\ pc \in [Installers -> Steps] /\ pc[p] = "publish" /\ p \notin {Absent, Ownerless}
      /\ lock' = p /\ pc' = [pc EXCEPT ![p] = "holding"] /\ UNCHANGED <<recovered, seen, robbed>>
      /\ recovered \subseteq Installers /\ Absent \notin Installers
      /\ \A q \in Installers : pc[q] \in {"judge", "reclaim"} => seen[q] \in Installers
    BY InstallersAssumption DEF IInv
<1>1. HolderOwns' BY <1>0 DEF IInv, HolderOwns
<1>2. OwnerHolds' BY <1>0 DEF IInv, OwnerHolds
<1>3. TombstonesAreOld' BY <1>0 DEF IInv, TombstonesAreOld
<1>4. SeenIsKnown' BY <1>0 DEF IInv, SeenIsKnown
<1>5. JudgedIsDead' BY <1>0 DEF IInv, JudgedIsDead
<1>6. RobbedOnlyAfterRelease' BY <1>0 DEF IInv, RobbedOnlyAfterRelease
<1> QED BY <1>1, <1>2, <1>3, <1>4, <1>5, <1>6 DEF IInv

\* A reclaimer begins to judge an owner it found twice.
LEMMA RereadStep ==
    ASSUME IInv, LockTypeOK', NEW p \in Installers, Reread(p), lock = seen[p]
    PROVE  IInv'
<1> USE DEF LockTypeOK, Goto, Holds, Ended, Steps, Acquiring, Owning, Reread, At
<1>0. /\ IInv /\ pc \in [Installers -> Steps] /\ pc[p] = "reread"
      /\ pc' = [pc EXCEPT ![p] = "judge"] /\ UNCHANGED <<lock, recovered, seen, robbed>>
      /\ recovered \subseteq Installers
      /\ \A q \in Installers : pc[q] \in {"judge", "reclaim"} => seen[q] \in Installers
    BY DEF IInv
<1>1. HolderOwns' BY <1>0 DEF IInv, HolderOwns
<1>2. OwnerHolds' BY <1>0 DEF IInv, OwnerHolds
<1>3. TombstonesAreOld' BY <1>0 DEF IInv, TombstonesAreOld
<1>4. SeenIsKnown' BY <1>0 DEF IInv, SeenIsKnown
<1>5. JudgedIsDead' BY <1>0 DEF IInv, JudgedIsDead
<1>6. RobbedOnlyAfterRelease' BY <1>0 DEF IInv, RobbedOnlyAfterRelease
<1> QED BY <1>1, <1>2, <1>3, <1>4, <1>5, <1>6 DEF IInv

\* The owner is judged dead, and the dead stay so.
LEMMA JudgeStep ==
    ASSUME IInv, LockTypeOK', NEW p \in Installers, JudgeDead(p)
    PROVE  IInv'
<1> USE DEF LockTypeOK, Goto, Holds, Ended, Steps, Acquiring, Owning, JudgeDead, SeemsDead, At
<1>0. /\ IInv /\ pc \in [Installers -> Steps] /\ pc[p] = "judge" /\ Ended(seen[p])
      /\ pc' = [pc EXCEPT ![p] = "reclaim"] /\ UNCHANGED <<lock, recovered, seen, robbed>>
      /\ recovered \subseteq Installers
      /\ \A q \in Installers : pc[q] \in {"judge", "reclaim"} => seen[q] \in Installers
    BY DEF IInv
<1>1. HolderOwns' BY <1>0 DEF IInv, HolderOwns
<1>2. OwnerHolds' BY <1>0 DEF IInv, OwnerHolds
<1>3. TombstonesAreOld' BY <1>0 DEF IInv, TombstonesAreOld
<1>4. SeenIsKnown' BY <1>0 DEF IInv, SeenIsKnown
<1>5. JudgedIsDead' BY <1>0 DEF IInv, JudgedIsDead
<1>6. RobbedOnlyAfterRelease' BY <1>0 DEF IInv, RobbedOnlyAfterRelease
<1> QED BY <1>1, <1>2, <1>3, <1>4, <1>5, <1>6 DEF IInv

\* The rename of a reclaimer takes the lock of the owner it judged, which was killed and now
\* has a tombstone; or it takes another's, and the owner it judged had released its lock.
LEMMA ReclaimStep ==
    ASSUME IInv, LockTypeOK', NEW p \in Installers, Reclaim(p), lock # Absent, ~Tombstone(p)
    PROVE  IInv'
<1> USE DEF LockTypeOK, Goto, Holds, Ended, Steps, Acquiring, Owning, Reclaim, Tombstone, At
<1>0. /\ IInv /\ pc \in [Installers -> Steps] /\ pc[p] = "reclaim"
      /\ lock' = Absent /\ recovered' = recovered \cup {seen[p]}
      /\ robbed' = IF lock = seen[p] THEN robbed ELSE TRUE
      /\ pc' = [pc EXCEPT ![p] = "look"] /\ UNCHANGED seen
      /\ recovered \subseteq Installers /\ robbed \in BOOLEAN
      /\ seen[p] \in Installers \ recovered /\ seen[p] # p /\ Ended(seen[p])
      /\ Absent \notin Installers
      /\ \A q \in Installers : pc[q] \in {"judge", "reclaim"} => seen[q] \in Installers
    BY InstallersAssumption DEF IInv, JudgedIsDead
<1>1. CASE lock # seen[p]
    <2>1. ~robbed => pc[seen[p]] = "done"
        BY <1>0, <1>1 DEF IInv, SeenIsKnown
    <2>2. RobbedOnlyAfterRelease' BY <1>0, <2>1 DEF IInv, RobbedOnlyAfterRelease
    <2>3. robbed' BY <1>0, <1>1
    <2>4. JudgedIsDead' BY <1>0 DEF IInv, JudgedIsDead
    <2> QED BY <2>2, <2>3, <2>4 DEF IInv, HolderOwns, OwnerHolds, TombstonesAreOld, SeenIsKnown
<1>2. CASE lock = seen[p]
    <2>0. robbed' = robbed BY <1>0, <1>2
    <2>1. ~robbed => pc[seen[p]] = "crashed"
        BY <1>0, <1>2 DEF IInv, OwnerHolds
    <2>2. HolderOwns'
        BY <1>0, <1>2, <2>0, <2>1 DEF IInv, HolderOwns
    <2>3. OwnerHolds' BY <1>0 DEF OwnerHolds
    <2>4. TombstonesAreOld'
        BY <1>0, <2>0, <2>1 DEF IInv, TombstonesAreOld
    <2>5. SeenIsKnown'
        BY <1>0, <1>2, <2>0 DEF IInv, SeenIsKnown
    <2>6. JudgedIsDead' BY <1>0 DEF IInv, JudgedIsDead
    <2>7. RobbedOnlyAfterRelease' BY <1>0, <2>0 DEF IInv, RobbedOnlyAfterRelease
    <2> QED BY <2>2, <2>3, <2>4, <2>5, <2>6, <2>7 DEF IInv
<1> QED BY <1>1, <1>2

\* Once a lock was taken from its owner only the dead are spoken of.
LEMMA RobbedStep ==
    ASSUME IInv, LockTypeOK', robbed, NEW p \in Installers, ~Ended(p),
           Goto(p, "build"), UNCHANGED <<lock, recovered, seen, robbed>>
    PROVE  IInv'
<1> USE DEF LockTypeOK, Goto, Ended
<1>0. /\ IInv /\ pc \in [Installers -> Steps] /\ robbed'
      /\ \A q \in Installers : pc[q] \in {"judge", "reclaim"} => seen[q] \in Installers
    BY DEF IInv
<1>1. JudgedIsDead' BY <1>0 DEF IInv, JudgedIsDead
<1>2. RobbedOnlyAfterRelease' BY <1>0 DEF IInv, RobbedOnlyAfterRelease
<1> QED BY <1>0, <1>1, <1>2 DEF IInv, HolderOwns, OwnerHolds, TombstonesAreOld, SeenIsKnown

\* The owner releases its lock.
LEMMA UnlockStep ==
    ASSUME IInv, LockTypeOK', NEW p \in Installers, Unlock(p)
    PROVE  IInv'
<1> USE DEF LockTypeOK, Goto, Holds, Ended, Steps, Acquiring, Owning, Unlock, At
<1>0. /\ IInv /\ pc \in [Installers -> Steps] /\ pc[p] = "unlock"
      /\ lock' = Absent /\ pc' = [pc EXCEPT ![p] = IF lock = Absent THEN "done" ELSE "build"]
      /\ UNCHANGED <<recovered, seen, robbed>>
      /\ recovered \subseteq Installers /\ Absent \notin Installers
      /\ \A q \in Installers : pc[q] \in {"judge", "reclaim"} => seen[q] \in Installers
    BY InstallersAssumption DEF IInv
<1>1. ~robbed => lock = p /\ pc'[p] = "build" BY <1>0 DEF IInv, HolderOwns
<1>2. HolderOwns' BY <1>0, <1>1 DEF IInv, HolderOwns
<1>3. OwnerHolds' BY <1>0 DEF OwnerHolds
<1>4. TombstonesAreOld' BY <1>0, <1>1 DEF IInv, TombstonesAreOld
<1>5. SeenIsKnown' BY <1>0, <1>1 DEF IInv, SeenIsKnown
<1>6. JudgedIsDead' BY <1>0 DEF IInv, JudgedIsDead
<1>7. RobbedOnlyAfterRelease' BY <1>0 DEF IInv, RobbedOnlyAfterRelease
<1> QED BY <1>2, <1>3, <1>4, <1>5, <1>6, <1>7 DEF IInv

\* A holder is killed: its lock stays.  So is somebody who waits.
LEMMA CrashStep ==
    ASSUME IInv, LockTypeOK', NEW p \in Installers, Crash(p)
    PROVE  IInv'
<1> USE DEF LockTypeOK, Goto, Holds, Ended, Steps, Acquiring, Owning, Crash
<1>0. /\ IInv /\ pc \in [Installers -> Steps] /\ ~Ended(p) /\ pc[p] # "build"
      /\ pc' = [pc EXCEPT ![p] = "crashed"] /\ UNCHANGED <<lock, recovered, seen, robbed>>
      /\ recovered \subseteq Installers
      /\ \A q \in Installers : pc[q] \in {"judge", "reclaim"} => seen[q] \in Installers
    BY DEF IInv
<1>1. HolderOwns' BY <1>0 DEF IInv, HolderOwns
<1>2. OwnerHolds' BY <1>0 DEF IInv, OwnerHolds
<1>3. TombstonesAreOld' BY <1>0 DEF IInv, TombstonesAreOld
<1>4. SeenIsKnown' BY <1>0 DEF IInv, SeenIsKnown
<1>5. JudgedIsDead' BY <1>0 DEF IInv, JudgedIsDead
<1>6. RobbedOnlyAfterRelease' BY <1>0 DEF IInv, RobbedOnlyAfterRelease
<1> QED BY <1>1, <1>2, <1>3, <1>4, <1>5, <1>6 DEF IInv

-----------------------------------------------------------------------------
(* The theorems *)

LEMMA InitInvariant == LockInit => IInv
BY InstallersAssumption
   DEF LockInit, IInv, LockTypeOK, HolderOwns, OwnerHolds, TombstonesAreOld, SeenIsKnown, JudgedIsDead,
       RobbedOnlyAfterRelease, Holds, Ended, Steps, Acquiring, Owning

\* Every step keeps the invariant.
THEOREM InvariantStep == IInv /\ [LockNext]_lockVars => IInv'
<1> SUFFICES ASSUME IInv, [LockNext]_lockVars PROVE IInv'
    OBVIOUS
<1>0. LockTypeOK /\ LockTypeOK' BY TypeStep DEF IInv
<1>1. CASE UNCHANGED lockVars
    BY <1>0, <1>1 DEF IInv, lockVars, HolderOwns, OwnerHolds, TombstonesAreOld, SeenIsKnown,
        JudgedIsDead, RobbedOnlyAfterRelease, Holds, Ended
<1>2. ASSUME NEW p \in Installers, Acquire(p) PROVE IInv'
    <2> USE DEF At, Goto, Steps, Acquiring, Owning, Ended, Holds
    <2> HIDE DEF Goto
    <2>1. CASE Start(p) BY <1>0, <2>1, QuietStep DEF Start
    <2>2. CASE Look(p) BY <1>0, <2>2, QuietStep DEF Look
    <2>3. CASE Read(p)
        <3>1. /\ \A q \in Installers \ {p} : seen'[q] = seen[q]
              /\ pc[p] = "read" /\ UNCHANGED <<lock, recovered, robbed>>
              /\ Goto(p, "recheck") \/ Goto(p, "check")
            BY <1>0, <2>3 DEF Read, LockTypeOK
        <3> QED BY <1>0, <3>1, QuietStep
    <2>4. CASE Publish(p)
        <3>1. CASE lock = Absent BY <1>0, <2>4, <3>1, PublishStep
        <3>2. CASE lock # Absent BY <1>0, <2>4, <3>2, QuietStep DEF Publish
        <3> QED BY <3>1, <3>2
    <2>5. CASE Check(p) BY <1>0, <2>5, QuietStep DEF Check
    <2>6. CASE Recheck(p) BY <1>0, <2>6, QuietStep DEF Recheck
    <2>7. CASE Reread(p)
        <3>1. CASE lock = seen[p] BY <1>0, <2>7, <3>1, RereadStep
        <3>2. CASE lock # seen[p] BY <1>0, <2>7, <3>2, QuietStep DEF Reread
        <3> QED BY <3>1, <3>2
    <2>8. CASE JudgeAlive(p) BY <1>0, <2>8, QuietStep DEF JudgeAlive
    <2>9. CASE JudgeDead(p) BY <1>0, <2>9, JudgeStep
    <2>10. CASE Reclaim(p)
        <3>1. CASE lock # Absent /\ ~Tombstone(p) BY <1>0, <2>10, <3>1, ReclaimStep
        <3>2. CASE lock = Absent \/ Tombstone(p) BY <1>0, <2>10, <3>2, QuietStep DEF Reclaim
        <3> QED BY <3>1, <3>2
    <2> QED BY <1>2, <2>1, <2>2, <2>3, <2>4, <2>5, <2>6, <2>7, <2>8, <2>9, <2>10 DEF Acquire
<1>3. ASSUME NEW p \in Installers, Release(p) \/ Leave(p) \/ Crash(p) PROVE IInv'
    <2> USE DEF At, Steps, Acquiring, Owning, Ended, Holds
    <2>1. CASE Release(p)
        <3>1. CASE lock # Absent BY <1>0, <2>1, <3>1, QuietStep DEF Release
        <3>2. CASE lock = Absent
            <4>1. robbed BY <2>1, <3>2, InstallersAssumption DEF Release, IInv, HolderOwns
            <4> QED BY <1>0, <2>1, <3>2, <4>1, RobbedStep DEF Release
        <3> QED BY <3>1, <3>2
    <2>2. CASE Compare(p)
        <3>1. CASE lock = p BY <1>0, <2>2, <3>1, QuietStep DEF Compare
        <3>2. CASE lock # p
            BY <1>0, <2>2, <3>2, RobbedStep DEF Compare, IInv, HolderOwns
        <3> QED BY <3>1, <3>2
    <2>3. CASE Unlock(p) BY <1>0, <2>3, UnlockStep
    <2>4. CASE Finish(p) BY <1>0, <2>4, QuietStep DEF Finish
    <2>5. CASE Crash(p) BY <1>0, <2>5, CrashStep
    <2> QED BY <1>3, <2>1, <2>2, <2>3, <2>4, <2>5 DEF Leave
<1> QED BY <1>1, <1>2, <1>3 DEF LockNext

\* The invariant holds at all times.
THEOREM Invariant == LockSpec => []IInv
<1>1. LockInit => IInv BY InitInvariant
<1>2. IInv /\ [LockNext]_lockVars => IInv' BY InvariantStep
<1> QED BY <1>1, <1>2, PTL DEF LockSpec

\* Every variable of the lock keeps its type.
THEOREM TypeCorrect == LockSpec => []LockTypeOK
<1>1. IInv => LockTypeOK BY DEF IInv
<1> QED BY <1>1, Invariant, PTL

\* At most one installer works under the lock, as long as no reclaimer took a lock that it
\* did not mean: publishing, recovery and release by rename exclude one another.
THEOREM LockExcludes == LockSpec => []Exclusion
<1>1. IInv => Exclusion BY DEF IInv, HolderOwns, Exclusion
<1> QED BY <1>1, Invariant, PTL

\* The tombstones leave one way to take the wrong lock: the owner that was judged had
\* released its own.
THEOREM OnlyReleasedOwnersMislead == LockSpec => []RobbedOnlyAfterRelease
<1>1. IInv => RobbedOnlyAfterRelease BY DEF IInv
<1> QED BY <1>1, Invariant, PTL

-----------------------------------------------------------------------------
(* What installers find in the cache *)

\* An installer has a task only while it works under the lock, and leaves it finished.
TaskMatchesStep ==
    \A p \in Installers :
        /\ pc[p] \in {"start"} \cup Acquiring => task[p] = "validate"
        /\ pc[p] \in {"compare", "unlock", "build"} => task[p] \in {"succeeded", "failed"}

\* Only a tree that nobody would use is replaced.
ReplacesUnusable ==
    ~robbed => \A p \in Installers :
        Holds(p) /\ task[p] \in {"archive", "extract", "remove", "install"} => ~Cached

\* The tree of an installer that was successful is there as long as it needs it.
SuccessIsCached ==
    ~robbed => \A p \in Installers :
        (Holds(p) \/ pc[p] = "build") /\ task[p] = "succeeded" => Cached

SInv == IInv /\ TypeOK /\ TaskMatchesStep /\ ReplacesUnusable /\ SuccessIsCached /\ CacheIsWhole

-----------------------------------------------------------------------------
\* Every step of the installers is one of the lock, or leaves it alone.
LEMMA LockStep == [Next]_vars => [LockNext]_lockVars
BY DEF Next, vars, Locking, UnderLock, LockNext, Validate, GetArchive, Extract, Remove, Install

LEMMA SourceInit == Init => SInv
<1> SUFFICES ASSUME Init PROVE SInv
    OBVIOUS
<1>1. IInv BY InitInvariant DEF Init
<1>0. source = Parts \/ (source \subseteq Parts /\ "marker" \notin source)
    <2>1. CASE source = Parts BY <2>1
    <2>2. CASE source \in SUBSET {"required", "others"} BY <2>2 DEF Parts
    <2> QED BY <2>1, <2>2 DEF Init
<1>2. TypeOK
    <2>1. archive \in {"none", "bad", "good"} /\ task \in [Installers -> Tasks] BY DEF Init, Tasks
    <2> QED BY <1>0, <1>1, <2>1 DEF TypeOK, IInv
<1>3. TaskMatchesStep /\ ReplacesUnusable /\ SuccessIsCached
    BY DEF Init, LockInit, TaskMatchesStep, ReplacesUnusable, SuccessIsCached, Holds, Owning
<1>4. CacheIsWhole BY <1>0 DEF CacheIsWhole, Cached
<1> QED BY <1>1, <1>2, <1>3, <1>4 DEF SInv

\* A step of the lock changes no tree, and begins and ends no task.
LEMMA LockingKeeps ==
    ASSUME SInv, IInv', NEW p \in Installers, Locking(p)
    PROVE  SInv'
<1>1. /\ TypeOK /\ IInv /\ pc \in [Installers -> Steps] /\ task \in [Installers -> Tasks]
      /\ UNCHANGED <<source, archive, task>>
      /\ TaskMatchesStep /\ ReplacesUnusable /\ SuccessIsCached /\ CacheIsWhole
    BY DEF SInv, TypeOK, LockTypeOK, Locking
<1>2. TypeOK' BY <1>1 DEF TypeOK, IInv
<1>3. ~robbed' => ~robbed
    BY <1>1 DEF Locking, Acquire, Leave, Start, Look, Read, Publish, Check, Recheck, Reread, JudgeAlive,
        JudgeDead, Reclaim, Release, Compare, Unlock, Finish, Crash, IInv, LockTypeOK
<1>4. /\ \A q \in Installers \ {p} : pc'[q] = pc[q]
      /\ pc[p] \in {"start"} \cup Acquiring =>
            pc'[p] \in Acquiring \cup {"holding", "gaveUp", "crashed"}
      /\ pc[p] = "holding" /\ pc'[p] \in {"compare", "unlock", "build"} => MayRelease(p)
      /\ pc[p] \in {"compare", "unlock", "build"} =>
            pc'[p] \in {"compare", "unlock", "build", "done", "crashed"}
      /\ pc[p] = "holding" => pc'[p] \notin {"start"} \cup Acquiring
      /\ pc[p] \in {"start"} \cup Acquiring \cup Owning \cup {"build"}
    BY <1>1 DEF Locking, Acquire, Leave, Start, Look, Read, Publish, Check, Recheck, Reread, JudgeAlive,
        JudgeDead, Reclaim, Release, Compare, Unlock, Finish, Crash, At, Goto, Acquiring, Owning
<1>5. TaskMatchesStep'
    BY <1>1, <1>4 DEF TaskMatchesStep, MayRelease, Acquiring, Owning
<1>6. Cached' <=> Cached BY <1>1 DEF Cached
<1>7. ReplacesUnusable' /\ SuccessIsCached'
    BY <1>1, <1>3, <1>4, <1>6 DEF ReplacesUnusable, SuccessIsCached, TaskMatchesStep, Holds, Acquiring, Owning
<1>8. CacheIsWhole' BY <1>1, <1>3, <1>6 DEF CacheIsWhole
<1> QED BY <1>2, <1>5, <1>7, <1>8 DEF SInv

\* Under the lock trees are replaced, but none that anybody uses or would use.
LEMMA UnderLockKeeps ==
    ASSUME SInv, IInv', NEW p \in Installers, UnderLock(p)
    PROVE  SInv'
<1>1. /\ TypeOK /\ IInv /\ pc \in [Installers -> Steps] /\ task \in [Installers -> Tasks]
      /\ source \subseteq Parts
      /\ UNCHANGED lockVars /\ pc[p] = "holding" /\ Holds(p)
      /\ TaskMatchesStep /\ ReplacesUnusable /\ SuccessIsCached /\ CacheIsWhole
    BY DEF SInv, TypeOK, LockTypeOK, UnderLock, Validate, GetArchive, Extract, Remove, Install, Do, At,
        Holds, Owning
<1>2. UNCHANGED <<lock, recovered, pc, seen, robbed>> BY <1>1 DEF lockVars
<1>3. \A q \in Installers : ~robbed /\ Holds(q) => q = p
    BY <1>1 DEF IInv, HolderOwns
<1>4. ASSUME NEW next \in Tasks, Then(p, next), source' = source,
             next \in {"archive", "extract", "remove", "install"} => ~Cached \/ robbed,
             next = "succeeded" => Cached \/ robbed,
             archive' \in {"none", "bad", "good"}
      PROVE  SInv'
    <2>1. TypeOK' BY <1>1, <1>4 DEF TypeOK, Then, IInv
    <2>2. TaskMatchesStep' BY <1>1, <1>2, <1>4 DEF TaskMatchesStep, Then, Acquiring
    <2>3. Cached' <=> Cached BY <1>4 DEF Cached
    <2>4. ReplacesUnusable' /\ SuccessIsCached' /\ CacheIsWhole'
        BY <1>1, <1>2, <1>4, <2>3
        DEF ReplacesUnusable, SuccessIsCached, CacheIsWhole, Then, Holds, Owning
    <2> QED BY <2>1, <2>2, <2>4 DEF SInv
<1>5. CASE Validate(p)
    BY <1>4, <1>5, <1>1 DEF Validate, Tasks, TypeOK
<1>6. CASE GetArchive(p)
    <2>1. ~Cached \/ robbed BY <1>1, <1>6 DEF GetArchive, Do, ReplacesUnusable
    <2>2. archive' \in {"none", "bad", "good"} BY <1>1, <1>6 DEF GetArchive, TypeOK
    <2>3. source' = source /\ (Then(p, "extract") \/ Then(p, "failed")) BY <1>6 DEF GetArchive
    <2> QED BY <2>1, <2>2, <2>3, <1>4 DEF Tasks
<1>7. CASE Extract(p)
    <2>1. ~Cached \/ robbed BY <1>1, <1>7 DEF Extract, Do, ReplacesUnusable
    <2>2. /\ source' = source /\ archive' \in {"none", "bad", "good"}
          /\ Then(p, "remove") \/ Then(p, "failed")
        BY <1>1, <1>7 DEF Extract, TypeOK
    <2> QED BY <2>1, <2>2, <1>4 DEF Tasks
<1>8. CASE Remove(p)
    <2>1. ~Cached \/ robbed BY <1>1, <1>8 DEF Remove, Do, ReplacesUnusable
    <2>2. CASE source = {}
        BY <1>1, <1>8, <2>1, <2>2, <1>4 DEF Remove, Tasks, TypeOK
    <2>3. CASE source # {}
        <3>1. /\ task' = task /\ archive' = archive /\ source' \subseteq source
            BY <1>8, <2>3 DEF Remove
        <3>2. ~Cached' \/ robbed' BY <2>1, <3>1, <1>2 DEF Cached
        <3>3. TypeOK' BY <1>1, <3>1 DEF TypeOK, IInv
        <3>4. TaskMatchesStep' BY <1>1, <1>2, <3>1 DEF TaskMatchesStep
        <3>5. ReplacesUnusable' /\ SuccessIsCached' /\ CacheIsWhole'
            BY <1>1, <1>2, <2>1, <3>1, <3>2
            DEF ReplacesUnusable, SuccessIsCached, CacheIsWhole, Holds
        <3> QED BY <3>3, <3>4, <3>5 DEF SInv
    <2> QED BY <2>2, <2>3
<1>9. CASE Install(p)
    <2>1. CASE source # {}
        BY <1>1, <1>9, <2>1, <1>4 DEF Install, Tasks, TypeOK
    <2>2. CASE source = {}
        <3>1. source' = Parts /\ archive' = archive /\ Then(p, "succeeded") BY <1>9, <2>2 DEF Install
        <3>2. Cached' BY <3>1 DEF Cached, Parts
        <3>3. TypeOK' BY <1>1, <3>1 DEF TypeOK, IInv, Then, Tasks
        <3>4. TaskMatchesStep' BY <1>1, <1>2, <3>1 DEF TaskMatchesStep, Then, Acquiring
        <3>5. SuccessIsCached' /\ CacheIsWhole'
            BY <3>1, <3>2 DEF SuccessIsCached, CacheIsWhole
        <3>6. ReplacesUnusable'
            BY <1>1, <1>2, <1>3, <3>1 DEF ReplacesUnusable, Then, Holds
        <3> QED BY <3>3, <3>4, <3>5, <3>6 DEF SInv
    <2> QED BY <2>1, <2>2
<1> QED BY <1>5, <1>6, <1>7, <1>8, <1>9 DEF UnderLock

\* Every step keeps the invariant.
THEOREM SourceStep == SInv /\ [Next]_vars => SInv'
<1> SUFFICES ASSUME SInv, [Next]_vars PROVE SInv'
    OBVIOUS
<1>1. IInv' BY LockStep, InvariantStep DEF SInv
<1>2. CASE UNCHANGED vars
    BY <1>1, <1>2 DEF SInv, vars, lockVars, TypeOK, IInv, LockTypeOK, TaskMatchesStep, ReplacesUnusable,
        SuccessIsCached, CacheIsWhole, Cached, Holds
<1>3. CASE Next
    BY <1>1, <1>3, LockingKeeps, UnderLockKeeps DEF Next
<1> QED BY <1>2, <1>3

THEOREM SourceInvariant == Spec => []SInv
<1>1. Init => SInv BY SourceInit
<1>2. SInv /\ [Next]_vars => SInv' BY SourceStep
<1> QED BY <1>1, <1>2, PTL DEF Spec

-----------------------------------------------------------------------------
\* Every variable keeps its type.
THEOREM SourceTypeCorrect == Spec => []TypeOK
<1>1. SInv => TypeOK BY DEF SInv
<1> QED BY <1>1, SourceInvariant, PTL

\* Whenever installers are killed, a tree that the next one would use is a whole one.
THEOREM CrashesLeaveNoPart == Spec => []CacheIsWhole
<1>1. SInv => CacheIsWhole BY DEF SInv
<1> QED BY <1>1, SourceInvariant, PTL

\* The tree stays whole while an installer builds from it without the lock.
THEOREM BuildsAreUndisturbed == Spec => []BuildsWhole
<1>1. SInv => BuildsWhole
    BY DEF SInv, SuccessIsCached, CacheIsWhole, BuildsWhole, Builds
<1> QED BY <1>1, SourceInvariant, PTL
=============================================================================
