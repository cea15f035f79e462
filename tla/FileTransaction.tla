--------------------------- MODULE FileTransaction ---------------------------
(***************************************************************************)
(* volta.ir.transaction.Transaction on ONE KiCad file, entered by several  *)
(* processes (or threads: flock belongs to an open file description, so two *)
(* threads of one server exclude each other exactly as two processes do).  *)
(*                                                                         *)
(* The lock is a path, <file>.lck, and a path is not a file: the model      *)
(* keeps the inode the path names (lck), the inode each process has open    *)
(* (fd) and the process that holds the flock of each inode (holder).  Every *)
(* system call whose place in an interleaving matters is a step of its own. *)
(***************************************************************************)
EXTENDS Naturals, FiniteSets

CONSTANTS
    Procs,      \* processes (threads) that may open a transaction on the file
    Inodes,     \* identities a lock file can have
    Versions,   \* complete contents of the KiCad file
    Partial,    \* content of a file caught between truncation and the last write
    None

ASSUME DistinctSentinels ==
    /\ None \notin Procs \cup Inodes \cup Versions \cup {Partial}
    /\ Partial \notin Versions

\* A creator never waits for a fresh inode: each process holds at most one
\* descriptor and the path names at most one file.
ASSUME EnoughInodes == IsFiniteSet(Inodes) /\ Cardinality(Inodes) > Cardinality(Procs)

VARIABLES
    lck,      \* inode the lock path names, None when there is no lock file
    holder,   \* holder[i]: process with the exclusive flock of inode i
    fd,       \* fd[p]: inode of the lock file p has open
    pc,       \* pc[p]: next system call of p
    snap,     \* snap[p]: content of p's snapshot file
    disk,     \* content of the KiCad file
    \* History of the run, read by the properties and by no guard:
    alone,    \* alone[p]: no other process was active during p's attempt
    before,   \* before[p]: content of the KiCad file when p's attempt began
    robbed    \* some process has removed a lock file that another one owned

vars == <<lck, holder, fd, pc, snap, disk, alone, before, robbed>>
lockVars == <<lck, holder, fd, robbed>>
history  == <<alone, before>>

Contents == Versions \cup {Partial}

\* The with-block: between the snapshot and the end of commit or rollback.
Body == {"body", "writing", "written", "restore", "restoring", "restored"}

\* Program points at which p holds the flock of its own lock file.
Locked == {"snapshot", "unlock", "abandoned"} \cup Body

\* Program points at which p owns a lock file: it created the inode it has open.
Owning == {"lock"} \cup Locked

\* Program points at which p has a descriptor open.
Open == {"test", "clear"} \cup Owning

PCs == {"idle", "probe", "unlink", "create", "remove"} \cup Open

Fresh == {i \in Inodes : i # lck /\ \A p \in Procs : fd[p] # i}

\* Removing whatever the lock path names robs the process that owns that inode.
RemoveLockFile(p) ==
    /\ lck' = None
    /\ robbed' = (robbed \/ \E q \in Procs \ {p} :
                               lck # None /\ pc[q] \in Owning /\ fd[q] = lck)

-----------------------------------------------------------------------------
Init ==
    /\ lck = None
    /\ holder = [i \in Inodes |-> None]
    /\ fd = [p \in Procs |-> None]
    /\ pc = [p \in Procs |-> "idle"]
    /\ snap = [p \in Procs |-> None]
    /\ disk \in Versions
    /\ alone = [p \in Procs |-> FALSE]
    /\ before = [p \in Procs |-> disk]
    /\ robbed = FALSE

\* Transaction(file_path): the target exists and is no symlink.
Begin(p) ==
    /\ pc[p] = "idle"
    /\ pc' = [pc EXCEPT ![p] = "probe"]
    /\ alone' = [q \in Procs |->
                    q = p /\ \A r \in Procs \ {p} : pc[r] = "idle"]
    /\ before' = [before EXCEPT ![p] = disk]
    /\ UNCHANGED <<lockVars, snap, disk>>

\* __enter__: if the lock file exists, open it to find out whether it is stale.
\* exists() followed by a failing open() takes the FileNotFoundError branch,
\* which is the branch of exists() returning False.
Probe(p) ==
    /\ pc[p] = "probe"
    /\ fd' = [fd EXCEPT ![p] = lck]
    /\ pc' = [pc EXCEPT ![p] = IF lck = None THEN "create" ELSE "test"]
    /\ UNCHANGED <<lck, holder, robbed, snap, disk, history>>

\* MUTANT of Test: the refused process keeps its descriptor open.
TestKeepingDescriptor(p) ==
    /\ pc[p] = "test"
    /\ \/ /\ holder[fd[p]] = None
          /\ holder' = [holder EXCEPT ![fd[p]] = p]
          /\ pc' = [pc EXCEPT ![p] = "clear"]
       \/ /\ holder[fd[p]] # None
          /\ pc' = [pc EXCEPT ![p] = "idle"]
          /\ UNCHANGED holder
    /\ UNCHANGED <<lck, fd, robbed, snap, disk, history>>

\* Non-blocking flock on the existing lock file: got it, the file is stale; a
\* holder exists, close and raise RuntimeError ("another transaction is in
\* progress").
Test(p) ==
    /\ pc[p] = "test"
    /\ \/ /\ holder[fd[p]] = None
          /\ holder' = [holder EXCEPT ![fd[p]] = p]
          /\ pc' = [pc EXCEPT ![p] = "clear"]
          /\ UNCHANGED fd
       \/ /\ holder[fd[p]] # None
          /\ fd' = [fd EXCEPT ![p] = None]
          /\ pc' = [pc EXCEPT ![p] = "idle"]
          /\ UNCHANGED holder
    /\ UNCHANGED <<lck, robbed, snap, disk, history>>

\* LOCK_UN and close of the stale file...
Clear(p) ==
    /\ pc[p] = "clear"
    /\ holder' = [holder EXCEPT ![fd[p]] = None]
    /\ fd' = [fd EXCEPT ![p] = None]
    /\ pc' = [pc EXCEPT ![p] = "unlink"]
    /\ UNCHANGED <<lck, robbed, snap, disk, history>>

\* MUTANT of Unlink: the stale file is left where it is.
UnlinkNothing(p) ==
    /\ pc[p] = "unlink"
    /\ pc' = [pc EXCEPT ![p] = "create"]
    /\ UNCHANGED <<lockVars, snap, disk, history>>

\* ... and only then unlink(missing_ok=True), by path.
Unlink(p) ==
    /\ pc[p] = "unlink"
    /\ RemoveLockFile(p)
    /\ pc' = [pc EXCEPT ![p] = "create"]
    /\ UNCHANGED <<holder, fd, snap, disk, history>>

\* MUTANT of Create: the new lock file replaces one that exists (no O_EXCL).
CreateReplacing(p) ==
    /\ pc[p] = "create"
    /\ \E i \in Fresh :
          /\ lck' = i
          /\ fd' = [fd EXCEPT ![p] = i]
    /\ pc' = [pc EXCEPT ![p] = "lock"]
    /\ UNCHANGED <<holder, robbed, snap, disk, history>>

\* MUTANT of Create: FileExistsError is retried without testing the file again.
CreateRetrying(p) ==
    /\ pc[p] = "create"
    /\ lck = None
    /\ \E i \in Fresh :
          /\ lck' = i
          /\ fd' = [fd EXCEPT ![p] = i]
    /\ pc' = [pc EXCEPT ![p] = "lock"]
    /\ UNCHANGED <<holder, robbed, snap, disk, history>>

\* os.open(O_CREAT | O_EXCL): a new inode, or FileExistsError to the caller.
Create(p) ==
    /\ pc[p] = "create"
    /\ \/ /\ lck = None
          /\ \E i \in Fresh :
                /\ lck' = i
                /\ fd' = [fd EXCEPT ![p] = i]
          /\ pc' = [pc EXCEPT ![p] = "lock"]
       \/ /\ lck # None
          /\ pc' = [pc EXCEPT ![p] = "idle"]
          /\ UNCHANGED <<lck, fd>>
    /\ UNCHANGED <<holder, robbed, snap, disk, history>>

\* Non-blocking flock on the file just created; a refusal closes it, raises
\* RuntimeError and leaves the lock file behind.
Lock(p) ==
    /\ pc[p] = "lock"
    /\ \/ /\ holder[fd[p]] = None
          /\ holder' = [holder EXCEPT ![fd[p]] = p]
          /\ pc' = [pc EXCEPT ![p] = "snapshot"]
          /\ UNCHANGED fd
       \/ /\ holder[fd[p]] # None
          /\ fd' = [fd EXCEPT ![p] = None]
          /\ pc' = [pc EXCEPT ![p] = "idle"]
          /\ UNCHANGED holder
    /\ UNCHANGED <<lck, robbed, snap, disk, history>>

\* shutil.copy2 of the KiCad file into a private temporary directory.
Snapshot(p) ==
    /\ pc[p] = "snapshot"
    /\ snap' = [snap EXCEPT ![p] = disk]
    /\ pc' = [pc EXCEPT ![p] = "body"]
    /\ UNCHANGED <<lockVars, disk, history>>

\* OSError out of mkdtemp or copy2, in __enter__ or in rollback: it leaves the
\* transaction with its descriptor open, so the flock lasts until the object is
\* collected; the lock file stays.
CopyFails(p) ==
    /\ pc[p] \in {"snapshot", "restore", "restoring"}
    /\ pc' = [pc EXCEPT ![p] = "abandoned"]
    /\ snap' = [snap EXCEPT ![p] = None]
    /\ UNCHANGED <<lockVars, disk, history>>

Collect(p) ==
    /\ pc[p] = "abandoned"
    /\ holder' = [holder EXCEPT ![fd[p]] = None]
    /\ fd' = [fd EXCEPT ![p] = None]
    /\ pc' = [pc EXCEPT ![p] = "idle"]
    /\ UNCHANGED <<lck, robbed, snap, disk, history>>

-----------------------------------------------------------------------------
\* The body of the with-statement: a handler that mutates only the parsed
\* objects or edits the file itself, then the serializer.

\* kiutils to_file, read back, normalise, write_text: from the first truncation
\* to the last write the file holds no finished content.
StartWriting(p) ==
    /\ pc[p] = "body"
    /\ disk' = Partial
    /\ pc' = [pc EXCEPT ![p] = "writing"]
    /\ UNCHANGED <<lockVars, snap, history>>

FinishWriting(p) ==
    /\ pc[p] = "writing"
    /\ disk' \in Versions
    /\ pc' = [pc EXCEPT ![p] = "written"]
    /\ UNCHANGED <<lockVars, snap, history>>

\* atomic_write: temporary file, fsync, os.replace.
AtomicWrite(p) ==
    /\ pc[p] = "body"
    /\ disk' \in Versions
    /\ pc' = [pc EXCEPT ![p] = "written"]
    /\ UNCHANGED <<lockVars, snap, history>>

\* An exception anywhere in the body, or out of commit() when the snapshot
\* cannot be removed: __exit__ calls rollback(), and the snapshot is still known.
Fail(p) ==
    /\ pc[p] \in {"body", "writing", "written"}
    /\ pc' = [pc EXCEPT ![p] = "restore"]
    /\ UNCHANGED <<lockVars, snap, disk, history>>

\* commit(): the snapshot is removed first; an operation that wrote nothing
\* commits as well.
Commit(p) ==
    /\ pc[p] \in {"body", "written"}
    /\ snap' = [snap EXCEPT ![p] = None]
    /\ pc' = [pc EXCEPT ![p] = "unlock"]
    /\ UNCHANGED <<lockVars, disk, history>>

\* rollback(): copy2 truncates the file ...
StartRestore(p) ==
    /\ pc[p] = "restore"
    /\ disk' = Partial
    /\ pc' = [pc EXCEPT ![p] = "restoring"]
    /\ UNCHANGED <<lockVars, snap, history>>

\* ... unless the target has become a symlink: no restore, the snapshot is
\* dropped, the lock released.
AbortRestore(p) ==
    /\ pc[p] = "restore"
    /\ snap' = [snap EXCEPT ![p] = None]
    /\ pc' = [pc EXCEPT ![p] = "unlock"]
    /\ UNCHANGED <<lockVars, disk, history>>

\* MUTANT of FinishRestore: the copy stops half way and nobody notices.
FinishRestoreShort(p) ==
    /\ pc[p] = "restoring"
    /\ pc' = [pc EXCEPT ![p] = "restored"]
    /\ UNCHANGED <<lockVars, snap, disk, history>>

\* ... and writes the snapshot back.
FinishRestore(p) ==
    /\ pc[p] = "restoring"
    /\ disk' = snap[p]
    /\ pc' = [pc EXCEPT ![p] = "restored"]
    /\ UNCHANGED <<lockVars, snap, history>>

\* The snapshot is removed, or that raises and rollback() ends before it has
\* released the lock.
DropSnapshot(p) ==
    /\ pc[p] = "restored"
    /\ snap' = [snap EXCEPT ![p] = None]
    /\ \E point \in {"unlock", "abandoned"} : pc' = [pc EXCEPT ![p] = point]
    /\ UNCHANGED <<lockVars, disk, history>>

\* _release_lock(): LOCK_UN and close...
Unlock(p) ==
    /\ pc[p] = "unlock"
    /\ holder' = [holder EXCEPT ![fd[p]] = None]
    /\ fd' = [fd EXCEPT ![p] = None]
    /\ pc' = [pc EXCEPT ![p] = "remove"]
    /\ UNCHANGED <<lck, robbed, snap, disk, history>>

\* ... and only then exists() and unlink(), by path.
Remove(p) ==
    /\ pc[p] = "remove"
    /\ RemoveLockFile(p)
    /\ pc' = [pc EXCEPT ![p] = "idle"]
    /\ UNCHANGED <<holder, fd, snap, disk, history>>

\* The process dies: the kernel closes its descriptor, which drops the flock;
\* the lock file, the content of the KiCad file and an orphaned snapshot stay.
Crash(p) ==
    /\ pc[p] # "idle"
    /\ holder' = [i \in Inodes |-> IF holder[i] = p THEN None ELSE holder[i]]
    /\ fd' = [fd EXCEPT ![p] = None]
    /\ pc' = [pc EXCEPT ![p] = "idle"]
    /\ snap' = [snap EXCEPT ![p] = None]
    /\ UNCHANGED <<lck, robbed, disk, history>>

-----------------------------------------------------------------------------
Enter(p) == Probe(p) \/ Test(p) \/ Clear(p) \/ Unlink(p) \/ Create(p) \/ Lock(p)
                \/ Snapshot(p)
Mutate(p) == StartWriting(p) \/ FinishWriting(p) \/ AtomicWrite(p) \/ Fail(p)
Leave(p) == Commit(p) \/ StartRestore(p) \/ AbortRestore(p) \/ FinishRestore(p)
                \/ DropSnapshot(p) \/ Unlock(p) \/ Remove(p) \/ CopyFails(p) \/ Collect(p)

\* What p does once it has begun; every call returns, none of them waits.
Step(p) == Enter(p) \/ Mutate(p) \/ Leave(p)

Next == \E p \in Procs : Begin(p) \/ Step(p) \/ Crash(p)

\* A process that is running keeps running; nobody has to begin, and nobody has
\* to crash.
Fairness == \A p \in Procs : WF_vars(Step(p))

Spec == Init /\ [][Next]_vars
FairSpec == Spec /\ Fairness

-----------------------------------------------------------------------------
\* Every variable has its type, a process has a descriptor open exactly at the
\* program points that hold one (no path out of __enter__ leaks one), and all through
\* the with-block, a failed commit included, there is a snapshot to go back to.
TypeOK ==
    /\ lck \in Inodes \cup {None}
    /\ holder \in [Inodes -> Procs \cup {None}]
    /\ fd \in [Procs -> Inodes \cup {None}]
    /\ pc \in [Procs -> PCs]
    /\ snap \in [Procs -> Contents \cup {None}]
    /\ disk \in Contents
    /\ alone \in [Procs -> BOOLEAN]
    /\ before \in [Procs -> Contents]
    /\ robbed \in BOOLEAN
    /\ \A p \in Procs : fd[p] # None <=> pc[p] \in Open
    /\ \A p \in Procs : pc[p] \in Body => snap[p] # None

\* "H-04: Concurrent modification guard via .lck file locking" (transaction.py:9)
\* and test_concurrent_transaction_rejected (tests/test_transaction.py:172): at
\* most one process is inside the with-block of a transaction on the file.
MutualExclusion ==
    \A p, q \in Procs : p # q => ~(pc[p] \in Body /\ pc[q] \in Body)

\* When the guard does work: two processes are in the with-block at once only
\* after some process has removed, by path, a lock file another one owned (the
\* stale-file cleanup of __enter__ or the unlink of _release_lock).  Exclusion
\* comes from O_EXCL and from the file staying at its path.
ExclusionUnlessRobbed == robbed \/ MutualExclusion

\* A crash never locks a file for good: a process that is the only one active
\* from the start of its attempt is never refused, whatever lock files earlier
\* processes left behind (M-01).
NoSpuriousRefusal ==
    \A p \in Procs : alone[p] =>
        /\ pc[p] \in {"test", "lock"} => holder[fd[p]] = None
        /\ pc[p] = "create" => lck = None

\* D-09: when rollback has copied the snapshot back, and nobody else was active
\* since the attempt began, the file has exactly the content it had then, however far
\* the body had got.
RollbackRestores ==
    [][\A p \in Procs :
          pc[p] = "restoring" /\ pc'[p] = "restored" /\ alone[p] => disk' = before[p]]_vars

\* Every attempt ends, committed, rolled back, refused or crashed: no flock is
\* waited for and no branch comes back to an earlier one.
AttemptEnds == \A p \in Procs : pc[p] # "idle" ~> pc[p] = "idle"

-----------------------------------------------------------------------------
(***************************************************************************)
(* The inductive strengthenings of the three safety properties.            *)
(***************************************************************************)

\* A flock belongs to the process whose descriptor is that inode, and a process
\* past a successful flock still has it.
FlockInv ==
    /\ \A i \in Inodes : holder[i] # None =>
          fd[holder[i]] = i /\ pc[holder[i]] \in {"clear"} \cup Locked
    /\ \A p \in Procs : pc[p] \in {"clear"} \cup Locked => holder[fd[p]] = p

\* Until someone is robbed there is one owner, and the path names its file.
OwnerInv ==
    ~robbed => \A p \in Procs : pc[p] \in Owning =>
                  /\ lck = fd[p]
                  /\ \A q \in Procs : pc[q] \in Owning => q = p

\* A solitary process is the only one that is active, and once past the
\* stale-file cleanup it finds no lock file at the path.
SoloInv ==
    \A p \in Procs : alone[p] =>
        /\ \A q \in Procs \ {p} : pc[q] = "idle"
        /\ pc[p] = "create" => lck = None

\* The snapshot of a solitary process is the content its attempt began with.
SnapshotInv ==
    \A p \in Procs : alone[p] =>
        /\ pc[p] \in {"probe", "test", "clear", "unlink", "create", "lock", "snapshot"}
              => disk = before[p]
        /\ pc[p] \in Body => snap[p] = before[p]

=============================================================================
