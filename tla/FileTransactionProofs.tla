------------------------ MODULE FileTransactionProofs ------------------------
(***************************************************************************)
(* What holds of the file transaction for any number of processes, inodes  *)
(* and versions.  The argument is layered: types, who holds which flock,    *)
(* when the lock file excludes, what a solitary attempt finds, what its     *)
(* rollback writes back, and that every step is one of the guarded file.   *)
(***************************************************************************)
EXTENDS FileTransactionGuard, TLAPS

\* The steps of rollback() up to the release of the lock.
Restoring(p) == StartRestore(p) \/ AbortRestore(p) \/ FinishRestore(p) \/ DropSnapshot(p)

\* The initial states have the types.
LEMMA InitType == Init => TypeOK
BY DistinctSentinels DEF Init, TypeOK, Contents, PCs, Open, Owning, Locked, Body

\* Every system call, failure and crash keeps the types and opens and closes
\* descriptors exactly where TypeOK says.
LEMMA NextType == TypeOK /\ [Next]_vars => TypeOK'
<1> SUFFICES ASSUME TypeOK, [Next]_vars PROVE TypeOK'
  OBVIOUS
<1> USE DistinctSentinels DEF TypeOK, Contents, PCs, Open, Owning, Locked, Body,
        lockVars, history, RemoveLockFile, Fresh
<1>1. CASE UNCHANGED vars
  BY <1>1 DEF vars
<1>2. ASSUME NEW p \in Procs, Begin(p) PROVE TypeOK'
  BY <1>2 DEF Begin
<1>3. ASSUME NEW p \in Procs, Probe(p) PROVE TypeOK'
  BY <1>3 DEF Probe
<1>4. ASSUME NEW p \in Procs, Test(p) PROVE TypeOK'
  BY <1>4 DEF Test
<1>5. ASSUME NEW p \in Procs, Clear(p) PROVE TypeOK'
  BY <1>5 DEF Clear
<1>6. ASSUME NEW p \in Procs, Unlink(p) PROVE TypeOK'
  BY <1>6 DEF Unlink
<1>7. ASSUME NEW p \in Procs, Create(p) PROVE TypeOK'
  BY <1>7 DEF Create
<1>8. ASSUME NEW p \in Procs, Lock(p) PROVE TypeOK'
  BY <1>8 DEF Lock
<1>9. ASSUME NEW p \in Procs, Snapshot(p) PROVE TypeOK'
  BY <1>9 DEF Snapshot
<1>10. ASSUME NEW p \in Procs, Mutate(p) PROVE TypeOK'
  BY <1>10 DEF Mutate, StartWriting, FinishWriting, AtomicWrite, Fail
<1>11. ASSUME NEW p \in Procs, Commit(p) \/ CopyFails(p) PROVE TypeOK'
  BY <1>11 DEF Commit, CopyFails
<1>12. ASSUME NEW p \in Procs, Restoring(p) PROVE TypeOK'
  BY <1>12 DEF Restoring, StartRestore, AbortRestore, FinishRestore,
              DropSnapshot
<1>13. ASSUME NEW p \in Procs, Unlock(p) \/ Collect(p) PROVE TypeOK'
  BY <1>13 DEF Unlock, Collect
<1>14. ASSUME NEW p \in Procs, Remove(p) PROVE TypeOK'
  BY <1>14 DEF Remove
<1>15. ASSUME NEW p \in Procs, Crash(p) PROVE TypeOK'
  BY <1>15 DEF Crash
<1> QED
  BY <1>1, <1>2, <1>3, <1>4, <1>5, <1>6, <1>7, <1>8, <1>9, <1>10, <1>11, <1>12,
     <1>13, <1>14, <1>15 DEF Next, Step, Enter, Leave, Restoring

(***************************************************************************)
(* Type correctness: no interleaving, failure or crash takes a variable    *)
(* out of its type, and no path out of __enter__ leaks a descriptor.       *)
(***************************************************************************)
THEOREM TypeCorrect == Spec => []TypeOK
BY InitType, NextType, PTL DEF Spec

-----------------------------------------------------------------------------
\* Initially nobody holds a flock.
LEMMA InitFlock == Init => FlockInv
BY DistinctSentinels DEF Init, FlockInv, Locked, Body

\* A step gives a flock to the process that has the inode open, and takes it
\* from a process no later than its descriptor.
LEMMA NextFlock == TypeOK /\ FlockInv /\ [Next]_vars => FlockInv'
<1> SUFFICES ASSUME TypeOK, FlockInv, [Next]_vars PROVE FlockInv'
  OBVIOUS
<1> USE DistinctSentinels DEF TypeOK, FlockInv, PCs, Open, Owning, Locked, Body,
        lockVars, history, RemoveLockFile, Fresh
<1>1. CASE UNCHANGED vars
  BY <1>1 DEF vars
<1>2. ASSUME NEW p \in Procs, Begin(p) PROVE FlockInv'
  BY <1>2 DEF Begin
<1>3. ASSUME NEW p \in Procs, Probe(p) PROVE FlockInv'
  BY <1>3 DEF Probe
<1>4. ASSUME NEW p \in Procs, Test(p) PROVE FlockInv'
  BY <1>4 DEF Test
<1>5. ASSUME NEW p \in Procs, Clear(p) PROVE FlockInv'
  BY <1>5 DEF Clear
<1>6. ASSUME NEW p \in Procs, Unlink(p) PROVE FlockInv'
  BY <1>6 DEF Unlink
<1>7. ASSUME NEW p \in Procs, Create(p) PROVE FlockInv'
  BY <1>7 DEF Create
<1>8. ASSUME NEW p \in Procs, Lock(p) PROVE FlockInv'
  BY <1>8 DEF Lock
<1>9. ASSUME NEW p \in Procs, Snapshot(p) PROVE FlockInv'
  BY <1>9 DEF Snapshot
<1>10. ASSUME NEW p \in Procs, Mutate(p) PROVE FlockInv'
  BY <1>10 DEF Mutate, StartWriting, FinishWriting, AtomicWrite, Fail
<1>11. ASSUME NEW p \in Procs, Commit(p) \/ CopyFails(p) PROVE FlockInv'
  BY <1>11 DEF Commit, CopyFails
<1>12. ASSUME NEW p \in Procs, Restoring(p) PROVE FlockInv'
  BY <1>12 DEF Restoring, StartRestore, AbortRestore, FinishRestore,
              DropSnapshot
<1>13. ASSUME NEW p \in Procs, Unlock(p) \/ Collect(p) PROVE FlockInv'
  BY <1>13 DEF Unlock, Collect
<1>14. ASSUME NEW p \in Procs, Remove(p) PROVE FlockInv'
  BY <1>14 DEF Remove
<1>15. ASSUME NEW p \in Procs, Crash(p) PROVE FlockInv'
  BY <1>15 DEF Crash
<1> QED
  BY <1>1, <1>2, <1>3, <1>4, <1>5, <1>6, <1>7, <1>8, <1>9, <1>10, <1>11, <1>12,
     <1>13, <1>14, <1>15 DEF Next, Step, Enter, Leave, Restoring

-----------------------------------------------------------------------------
\* Initially nobody owns a lock file.
LEMMA InitOwner == Init => OwnerInv
BY DEF Init, OwnerInv, Owning, Locked, Body

\* While nobody is robbed, O_EXCL admits one owner and its file stays at the
\* path: only an unlink by another process could take it away.
LEMMA NextOwner == TypeOK /\ OwnerInv /\ [Next]_vars => OwnerInv'
<1> SUFFICES ASSUME TypeOK, OwnerInv, [Next]_vars PROVE OwnerInv'
  OBVIOUS
<1> USE DistinctSentinels DEF TypeOK, OwnerInv, PCs, Open, Owning, Locked, Body,
        lockVars, history, Fresh
<1>1. CASE UNCHANGED vars
  BY <1>1 DEF vars
<1>2. ASSUME NEW p \in Procs, Begin(p) PROVE OwnerInv'
  BY <1>2 DEF Begin
<1>3. ASSUME NEW p \in Procs, Probe(p) PROVE OwnerInv'
  BY <1>3 DEF Probe
<1>4. ASSUME NEW p \in Procs, Test(p) \/ Clear(p) PROVE OwnerInv'
  BY <1>4 DEF Test, Clear
<1>5. ASSUME NEW p \in Procs, RemoveLockFile(p), pc[p] \notin Owning,
             pc'[p] \notin Owning, pc' = [pc EXCEPT ![p] = pc'[p]], fd' = fd
      PROVE  OwnerInv'
  <2> SUFFICES ASSUME ~robbed', NEW q \in Procs, pc'[q] \in Owning PROVE FALSE
    BY DEF OwnerInv
  <2>1. q # p /\ pc[q] \in Owning
    BY <1>5
  <2>2. ~robbed
    BY <1>5 DEF RemoveLockFile
  <2>3. lck = fd[q] /\ lck # None
    BY <2>1, <2>2
  <2> QED
    BY <1>5, <2>1, <2>3 DEF RemoveLockFile
<1>6. ASSUME NEW p \in Procs, Unlink(p) \/ Remove(p) PROVE OwnerInv'
  BY <1>5, <1>6 DEF Unlink, Remove
<1>7. ASSUME NEW p \in Procs, Create(p) PROVE OwnerInv'
  BY <1>7 DEF Create
<1>8. ASSUME NEW p \in Procs, Lock(p) \/ Snapshot(p) PROVE OwnerInv'
  BY <1>8 DEF Lock, Snapshot
<1>9. ASSUME NEW p \in Procs, Mutate(p) PROVE OwnerInv'
  BY <1>9 DEF Mutate, StartWriting, FinishWriting, AtomicWrite, Fail
<1>10. ASSUME NEW p \in Procs, Commit(p) \/ CopyFails(p) PROVE OwnerInv'
  BY <1>10 DEF Commit, CopyFails
<1>11. ASSUME NEW p \in Procs, Restoring(p) PROVE OwnerInv'
  BY <1>11 DEF Restoring, StartRestore, AbortRestore, FinishRestore,
              DropSnapshot
<1>12. ASSUME NEW p \in Procs, Unlock(p) \/ Collect(p) \/ Crash(p) PROVE OwnerInv'
  BY <1>12 DEF Unlock, Collect, Crash
<1> QED
  BY <1>1, <1>2, <1>3, <1>4, <1>6, <1>7, <1>8, <1>9, <1>10, <1>11, <1>12
  DEF Next, Step, Enter, Leave, Restoring

(***************************************************************************)
(* The .lck guard excludes: unless some process has removed a lock file     *)
(* that another one owned, at most one process is in the with-block.  Only  *)
(* O_EXCL and the lock file staying at its path are used, never the flock.  *)
(***************************************************************************)
THEOREM Exclusion == Spec => []ExclusionUnlessRobbed
<1>1. TypeOK /\ OwnerInv => ExclusionUnlessRobbed
  BY DEF OwnerInv, ExclusionUnlessRobbed, MutualExclusion, Owning, Locked, TypeOK
<1> QED
  BY <1>1, InitOwner, NextOwner, TypeCorrect, PTL DEF Spec

-----------------------------------------------------------------------------
\* Initially no attempt is under way.
LEMMA InitSolo == Init => SoloInv
BY DEF Init, SoloInv

\* A process that begins ends the solitude of every other; a solitary process
\* reaches the creation of its lock file only past the cleanup of an old one.
LEMMA NextSolo == TypeOK /\ SoloInv /\ [Next]_vars => SoloInv'
<1> SUFFICES ASSUME TypeOK, SoloInv, [Next]_vars PROVE SoloInv'
  OBVIOUS
<1> USE DEF TypeOK, SoloInv, lockVars, history, RemoveLockFile
<1>1. CASE UNCHANGED vars
  BY <1>1 DEF vars
<1>2. ASSUME NEW p \in Procs, Begin(p) PROVE SoloInv'
  BY <1>2 DEF Begin
<1>3. ASSUME NEW p \in Procs, Enter(p) PROVE SoloInv'
  BY <1>3 DEF Enter, Probe, Test, Clear, Unlink, Create, Lock, Snapshot
<1>4. ASSUME NEW p \in Procs, Mutate(p) PROVE SoloInv'
  BY <1>4 DEF Mutate, StartWriting, FinishWriting, AtomicWrite, Fail
<1>5. ASSUME NEW p \in Procs, Leave(p) PROVE SoloInv'
  BY <1>5 DEF Leave, Commit, CopyFails, StartRestore, AbortRestore,
              FinishRestore, DropSnapshot, Unlock, Collect, Remove
<1>6. ASSUME NEW p \in Procs, Crash(p) PROVE SoloInv'
  BY <1>6 DEF Crash
<1> QED
  BY <1>1, <1>2, <1>3, <1>4, <1>5, <1>6 DEF Next, Step

(***************************************************************************)
(* Leftover lock files never refuse a solitary process: neither flock test  *)
(* nor O_EXCL can fail for a process that is the only one active from the   *)
(* start of its attempt.                                                   *)
(***************************************************************************)
THEOREM Unrefused == Spec => []NoSpuriousRefusal
<1>1. TypeOK /\ FlockInv /\ SoloInv => NoSpuriousRefusal
  <2> SUFFICES ASSUME TypeOK, FlockInv, SoloInv, NEW p \in Procs, alone[p]
               PROVE  /\ pc[p] \in {"test", "lock"} => holder[fd[p]] = None
                      /\ pc[p] = "create" => lck = None
    BY DEF NoSpuriousRefusal
  <2>1. ASSUME pc[p] \in {"test", "lock"}, holder[fd[p]] # None PROVE FALSE
    <3>1. fd[p] \in Inodes
      BY <2>1 DEF TypeOK, Open, Owning
    <3> DEFINE q == holder[fd[p]]
    <3>2. q \in Procs /\ pc[q] \in {"clear"} \cup Locked
      BY <2>1, <3>1 DEF TypeOK, FlockInv
    <3>3. q # p
      BY <2>1, <3>2 DEF Locked, Body
    <3>4. pc[q] = "idle"
      BY <3>2, <3>3 DEF SoloInv
    <3> QED
      BY <3>2, <3>4 DEF Locked, Body
  <2> QED
    BY <2>1 DEF SoloInv
<1> QED
  BY <1>1, InitFlock, NextFlock, InitSolo, NextSolo, TypeCorrect, PTL DEF Spec

-----------------------------------------------------------------------------
\* Initially no attempt is under way.
LEMMA InitSnapshot == Init => SnapshotInv
BY DEF Init, SnapshotInv

\* Nobody writes the file between the start of a solitary attempt and its
\* snapshot, and the snapshot is not changed after it is taken.
LEMMA NextSnapshot == TypeOK /\ SoloInv /\ SnapshotInv /\ [Next]_vars => SnapshotInv'
<1> SUFFICES ASSUME TypeOK, SoloInv, SnapshotInv, [Next]_vars PROVE SnapshotInv'
  OBVIOUS
<1> USE DistinctSentinels DEF TypeOK, SoloInv, SnapshotInv, Body, lockVars, history,
        RemoveLockFile, Contents
<1>1. CASE UNCHANGED vars
  BY <1>1 DEF vars
<1>2. ASSUME NEW p \in Procs, Begin(p) PROVE SnapshotInv'
  BY <1>2 DEF Begin
<1>3. ASSUME NEW p \in Procs, Enter(p) PROVE SnapshotInv'
  BY <1>3 DEF Enter, Probe, Test, Clear, Unlink, Create, Lock, Snapshot
<1>4. ASSUME NEW p \in Procs, Mutate(p) PROVE SnapshotInv'
  BY <1>4 DEF Mutate, StartWriting, FinishWriting, AtomicWrite, Fail
<1>5. ASSUME NEW p \in Procs, Leave(p) PROVE SnapshotInv'
  BY <1>5 DEF Leave, Commit, CopyFails, StartRestore, AbortRestore,
              FinishRestore, DropSnapshot, Unlock, Collect, Remove
<1>6. ASSUME NEW p \in Procs, Crash(p) PROVE SnapshotInv'
  BY <1>6 DEF Crash
<1> QED
  BY <1>1, <1>2, <1>3, <1>4, <1>5, <1>6 DEF Next, Step

(***************************************************************************)
(* D-09 for a solitary attempt: the step that finishes the rollback puts    *)
(* back the content the attempt began with, however far the body had got.   *)
(***************************************************************************)
THEOREM Restoration == Spec => RollbackRestores
<1> DEFINE Restored == \A p \in Procs :
              pc[p] = "restoring" /\ pc'[p] = "restored" /\ alone[p] => disk' = before[p]
<1>1. TypeOK /\ SoloInv /\ SnapshotInv /\ [Next]_vars => [Restored]_vars
  <2> SUFFICES ASSUME TypeOK, SoloInv, SnapshotInv, Next, NEW p \in Procs,
                      pc[p] = "restoring", pc'[p] = "restored", alone[p]
               PROVE  disk' = before[p]
    BY DEF vars
  <2>1. PICK q \in Procs : Begin(q) \/ Step(q) \/ Crash(q)
    BY DEF Next
  <2>2. q = p
    <3>1. ASSUME q # p PROVE FALSE
      <4>1. pc' = [pc EXCEPT ![q] = pc'[q]]
        BY <2>1 DEF Begin, Step, Enter, Mutate, Leave, Probe, Test, Clear, Unlink, Create,
           Lock, Snapshot, StartWriting, FinishWriting, AtomicWrite, Fail, Commit,
           CopyFails, StartRestore, AbortRestore, FinishRestore, DropSnapshot, Unlock, Collect, Remove,
           Crash, TypeOK
      <4> QED
        BY <3>1, <4>1 DEF TypeOK
    <3> QED
      BY <3>1
  <2>3. FinishRestore(p)
    BY <2>1, <2>2 DEF Begin, Step, Enter, Mutate, Leave, Probe, Test, Clear, Unlink,
       Create, Lock, Snapshot, StartWriting, FinishWriting, AtomicWrite, Fail, Commit,
       CopyFails, StartRestore, AbortRestore, DropSnapshot, Unlock, Collect, Remove, Crash, TypeOK
  <2> QED
    BY <2>3 DEF FinishRestore, SnapshotInv, TypeOK, Body
<1>2. Spec => [](TypeOK /\ SoloInv /\ SnapshotInv)
  BY InitSolo, NextSolo, InitSnapshot, NextSnapshot, TypeCorrect, PTL DEF Spec
<1>3. Spec => [][Restored]_vars
  BY <1>1, <1>2, PTL DEF Spec
<1> QED
  BY <1>3 DEF RollbackRestores

-----------------------------------------------------------------------------
(***************************************************************************)
(* The refinement.                                                          *)
(***************************************************************************)

\* Initially nobody is inside.
LEMMA InitGuard == Init => Guard!Init
BY DEF Init, Guard!Init, inside, saved, Inside, Contents

\* Until somebody is robbed, the one that owns the lock file is the only one inside.
LEMMA SoleOwner ==
    ASSUME OwnerInv, ~robbed, NEW p \in Procs, pc[p] \in Owning
    PROVE  /\ inside \subseteq {p}
           /\ pc[p] \in Inside => inside = {p}
BY DEF OwnerInv, inside, Inside, Owning, Locked, Body

\* A step of p that neither enters nor leaves changes nothing that others see, unless
\* p is inside and writes.
LEMMA GuardStays ==
    ASSUME TypeOK, NEW p \in Procs, NEW point \in PCs, pc' = [pc EXCEPT ![p] = point],
           pc[p] \in Inside <=> point \in Inside,
           \A q \in Procs : q # p \/ pc[p] \in Inside => snap'[q] = snap[q]
    PROVE  inside' = inside /\ saved' = saved
BY DEF TypeOK, inside, saved

\* A step of p that leaves.
LEMMA GuardLeft ==
    ASSUME TypeOK, OwnerInv, ~robbed, NEW p \in Procs, NEW point \in PCs \ Inside,
           pc' = [pc EXCEPT ![p] = point], pc[p] \in Inside,
           \A q \in Procs \ {p} : snap'[q] = snap[q]
    PROVE  Guard!Exit(p)
<1>1. inside = {p}
  BY SoleOwner DEF Inside, Owning, Locked, Body
<1>2. inside' = {}
  BY <1>1 DEF inside, TypeOK
<1>3. saved' = [saved EXCEPT ![p] = None]
  BY DEF saved, TypeOK
<1> QED BY <1>1, <1>2, <1>3 DEF Guard!Exit

\* Every step is one of the guarded file or a stutter.
LEMMA NextGuard ==
    TypeOK /\ OwnerInv /\ [Next]_vars => [Guard!Next]_(Guard!guardVars)
<1> SUFFICES ASSUME TypeOK, OwnerInv, [Next]_vars
             PROVE  Guard!Next \/ UNCHANGED Guard!guardVars
  OBVIOUS
<1> USE DEF lockVars, history
<1>1. CASE UNCHANGED vars
  BY <1>1 DEF vars, Guard!guardVars, inside, saved
<1>2. CASE robbed'
  BY <1>2 DEF Guard!Next, Next, Begin, Step, Enter, Mutate, Leave, RemoveLockFile
<1> SUFFICES ASSUME ~robbed', Next PROVE Guard!Next \/ UNCHANGED Guard!guardVars
  BY <1>1, <1>2
<1>3. ~robbed /\ UNCHANGED robbed
  <2>1. PICK p \in Procs : Begin(p) \/ Step(p) \/ Crash(p)
    BY DEF Next
  <2>2. robbed' = robbed \/ RemoveLockFile(p)
    BY <2>1 DEF Begin, Step, Enter, Mutate, Leave, Probe, Test, Clear, Unlink, Create, Lock,
                Snapshot, StartWriting, FinishWriting, AtomicWrite, Fail, Commit, CopyFails,
                StartRestore, AbortRestore, FinishRestore, DropSnapshot, Unlock, Collect,
                Remove, Crash
  <2>3. ~robbed /\ (RemoveLockFile(p) => robbed' = FALSE)
    <3> DEFINE another == \E q \in Procs \ {p} : lck # None /\ pc[q] \in Owning /\ fd[q] = lck
    <3>1. RemoveLockFile(p) => robbed' = (robbed \/ another)
      BY DEF RemoveLockFile
    <3> HIDE DEF another
    <3>2. RemoveLockFile(p) => ~robbed /\ ~another
      BY <3>1
    <3> QED BY <2>2, <3>1, <3>2
  <2>4. robbed = FALSE
    BY <2>3 DEF TypeOK
  <2> QED BY <2>2, <2>3, <2>4
<1>4. ASSUME NEW p \in Procs, NEW point \in PCs, pc' = [pc EXCEPT ![p] = point],
             pc[p] \in Inside <=> point \in Inside, disk' = disk,
             \A q \in Procs : q # p \/ pc[p] \in Inside => snap'[q] = snap[q]
      PROVE  UNCHANGED Guard!guardVars
  BY <1>3, <1>4, GuardStays DEF Guard!guardVars
<1>5. ASSUME NEW p \in Procs, NEW point \in PCs, pc' = [pc EXCEPT ![p] = point],
             pc[p] \in Inside, point \in Inside, disk' \in Contents, snap' = snap
      PROVE  Guard!Next
  <2>1. inside = {p}
    BY <1>3, <1>5, SoleOwner DEF Inside, Owning, Locked, Body
  <2>2. inside' = inside /\ saved' = saved
    BY <1>5, GuardStays
  <2> QED BY <1>3, <1>5, <2>1, <2>2 DEF Guard!Next, Guard!Write
<1>6. ASSUME NEW p \in Procs, NEW point \in PCs \ Inside, pc' = [pc EXCEPT ![p] = point],
             pc[p] \in Inside, \A q \in Procs \ {p} : snap'[q] = snap[q],
             disk' = disk \/ disk' = snap[p]
      PROVE  Guard!Next
  <2>1. Guard!Exit(p)
    BY <1>3, <1>6, GuardLeft
  <2>2. saved[p] = snap[p]
    BY <1>6 DEF saved
  <2> QED BY <1>3, <1>6, <2>1, <2>2 DEF Guard!Next, Guard!Leave, Guard!Restore
<1>7. ASSUME NEW p \in Procs, Begin(p) \/ Probe(p) \/ Test(p) \/ Clear(p) \/ Unlink(p)
                                \/ Create(p) \/ Lock(p) \/ Unlock(p) \/ Collect(p) \/ Remove(p)
      PROVE  UNCHANGED Guard!guardVars
  <2>1. /\ disk' = disk /\ snap' = snap /\ pc[p] \in PCs \ Inside
        /\ \E point \in PCs \ Inside : pc' = [pc EXCEPT ![p] = point]
    BY <1>7 DEF Begin, Probe, Test, Clear, Unlink, Create, Lock, Unlock, Collect, Remove,
                PCs, Open, Owning, Locked, Body, Inside
  <2> QED BY <1>4, <2>1
<1>8. ASSUME NEW p \in Procs, Snapshot(p) PROVE Guard!Next
  <2>1. pc[p] = "snapshot" /\ pc' = [pc EXCEPT ![p] = "body"] /\ disk' = disk
        /\ snap' = [snap EXCEPT ![p] = disk]
    BY <1>8 DEF Snapshot
  <2>2. inside = {}
    BY <1>3, <2>1, SoleOwner DEF Inside, Owning, Locked, Body, inside
  <2>3. inside' = {p}
    BY <2>1, <2>2 DEF inside, Inside, TypeOK
  <2>4. saved' = [saved EXCEPT ![p] = disk]
    BY <2>1 DEF saved, Inside, TypeOK
  <2> QED BY <1>3, <2>1, <2>2, <2>3, <2>4 DEF Guard!Next, Guard!Enter
<1>9. ASSUME NEW p \in Procs, CopyFails(p), pc[p] = "snapshot" PROVE UNCHANGED Guard!guardVars
  <2>1. disk' = disk /\ snap' = [snap EXCEPT ![p] = None] /\ pc' = [pc EXCEPT ![p] = "abandoned"]
    BY <1>9 DEF CopyFails
  <2> QED BY <1>4, <1>9, <2>1 DEF TypeOK, Inside, PCs, Open, Owning, Locked
<1>10. ASSUME NEW p \in Procs, Mutate(p) \/ StartRestore(p)
       PROVE  Guard!Next \/ UNCHANGED Guard!guardVars
  <2>1. /\ pc[p] \in Inside /\ snap' = snap /\ disk' \in Contents
        /\ \E point \in Inside : pc' = [pc EXCEPT ![p] = point]
    BY <1>10 DEF Mutate, StartWriting, FinishWriting, AtomicWrite, Fail, StartRestore,
                 Contents, Inside, TypeOK
  <2>2. Inside \subseteq PCs
    BY DEF Inside, PCs, Open, Owning, Locked, Body
  <2> QED BY <1>5, <2>1, <2>2
<1>11. ASSUME NEW p \in Procs, pc[p] # "snapshot",
              Commit(p) \/ AbortRestore(p) \/ FinishRestore(p) \/ CopyFails(p)
       PROVE  Guard!Next
  <2>1. /\ pc[p] \in Inside /\ disk' \in {disk, snap[p]}
        /\ snap' = snap \/ snap' = [snap EXCEPT ![p] = None]
        /\ \E point \in {"unlock", "restored", "abandoned"} : pc' = [pc EXCEPT ![p] = point]
    BY <1>11 DEF Commit, AbortRestore, FinishRestore, CopyFails, Inside
  <2>2. {"unlock", "restored", "abandoned"} \subseteq PCs \ Inside
    BY DEF Inside, PCs, Open, Owning, Locked, Body
  <2> QED BY <1>6, <2>1, <2>2 DEF TypeOK
<1>12. ASSUME NEW p \in Procs, DropSnapshot(p) PROVE UNCHANGED Guard!guardVars
  <2>1. /\ pc[p] = "restored" /\ disk' = disk /\ snap' = [snap EXCEPT ![p] = None]
        /\ \E point \in {"unlock", "abandoned"} : pc' = [pc EXCEPT ![p] = point]
    BY <1>12 DEF DropSnapshot
  <2> QED BY <1>4, <2>1 DEF TypeOK, Inside, PCs, Open, Owning, Locked
<1>13. ASSUME NEW p \in Procs, Crash(p) PROVE Guard!Next \/ UNCHANGED Guard!guardVars
  <2>1. /\ disk' = disk /\ snap' = [snap EXCEPT ![p] = None]
        /\ pc' = [pc EXCEPT ![p] = "idle"] /\ "idle" \in PCs \ Inside
    BY <1>13 DEF Crash, PCs, Inside
  <2>2. CASE pc[p] \in Inside
    BY <1>6, <2>1, <2>2 DEF TypeOK
  <2>3. CASE pc[p] \notin Inside
    BY <1>4, <2>1, <2>3 DEF TypeOK
  <2> QED BY <2>2, <2>3
<1>14. ASSUME NEW p \in Procs, Step(p) PROVE Guard!Next \/ UNCHANGED Guard!guardVars
  <2>1. CASE Enter(p)
    BY <1>7, <1>8, <2>1 DEF Enter
  <2>2. CASE Mutate(p)
    BY <1>10, <2>2
  <2>3. CASE Leave(p)
    <3>1. CASE CopyFails(p)
      BY <1>9, <1>11, <3>1
    <3>2. CASE Commit(p) \/ AbortRestore(p) \/ FinishRestore(p)
      BY <1>11, <3>2 DEF Commit, AbortRestore, FinishRestore
    <3>3. CASE StartRestore(p) \/ DropSnapshot(p)
      BY <1>10, <1>12, <3>3
    <3>4. CASE Unlock(p) \/ Remove(p) \/ Collect(p)
      BY <1>7, <3>4
    <3> QED BY <2>3, <3>1, <3>2, <3>3, <3>4 DEF Leave
  <2> QED BY <1>14, <2>1, <2>2, <2>3 DEF Step
<1> QED BY <1>7, <1>13, <1>14 DEF Next

(***************************************************************************)
(* The transaction keeps its promise for any number of processes: at every  *)
(* step of any of them, until one removes another one's lock file.          *)
(***************************************************************************)
THEOREM Guarded == Spec => ImplementsGuard
BY InitGuard, NextGuard, InitOwner, NextOwner, TypeCorrect, PTL
   DEF Spec, ImplementsGuard, Guard!Spec

=============================================================================
