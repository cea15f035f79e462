----------------------------- MODULE EditEngine -----------------------------
(***************************************************************************)
(* OperationExecutor with its undo stack: execute() on schematic, board and *)
(* project files, undo() and redo(), called by the threads of one server    *)
(* process (asyncio.to_thread), while other programs may save the files.    *)
(*                                                                         *)
(* A step is one read, one write or one call of the undo stack (which has a *)
(* lock of its own).  Transaction is the lock and the snapshot here; its    *)
(* system calls are FileTransaction's subject.  The undo stack is UndoStack *)
(* in memory; PersistentUndoStack does the same to its deques and keeps a   *)
(* copy on disk besides.  The IR cache is off, as everyone constructs the   *)
(* executor.  A content is a file's text up to line ends: read_text turns   *)
(* CR LF into LF before the engine sees it.                                 *)
(***************************************************************************)
EXTENDS UndoStack

CONSTANTS
    Callers,        \* threads that call the executor
    Files,
    ProjectFiles,   \* those execute_project edits: no parse before the lock
    Versions,       \* complete contents
    Partial,        \* content of a file caught between truncation and last write
    None,
    Overlap         \* may a call, or an outside save, begin during another call

ASSUME EngineConstants ==
    /\ ProjectFiles \subseteq Files
    /\ Partial \notin Versions
    /\ None \notin Callers \cup Files \cup Versions \cup {Partial} \cup Ways
    /\ Overlap \in BOOLEAN

VARIABLES
    disk,     \* content of each file
    stack,    \* stack["undo"][f], stack["redo"][f]
    keys,     \* insertion order of the keys of the two dictionaries
    locked,   \* caller inside the transaction of each file
    call,     \* local state of each caller
    broken    \* history: f was changed, or its history moved, without the other

vars == <<disk, stack, keys, locked, call, broken>>
history == <<stack, keys>>

Contents == Versions \cup {Partial}

\* Inside the with-block of the transaction.
Body == {"body", "writing", "written", "restore"}

Points == {"idle", "parse", "enter", "readpost", "push", "moved", "moving"} \cup Body

\* pre: pre_content of execute(); of undo() and redo(), which do not read the
\* file, the content they will replace.  base: what was parsed.  snap: the
\* transaction's snapshot.  way and entry: the move, or the entry to push.
Calls ==
    [at : Points, file : Files \cup {None}, pre : Contents \cup {None},
     base : Contents \cup {None}, snap : Contents \cup {None},
     way : Ways \cup {None}, entry : Entry(Contents) \cup {None}]

Idle == [at |-> "idle", file |-> None, pre |-> None, base |-> None, snap |-> None,
         way |-> None, entry |-> None]

At(c, points) == call[c].at \in points
Quiet == \A c \in Callers : call[c] = Idle
MayStart(c) == call[c] = Idle /\ (Overlap \/ Quiet)

Go(c, point) == call' = [call EXCEPT ![c].at = point]
Return(c) == call' = [call EXCEPT ![c] = Idle]
Write(f, v) == disk' = [disk EXCEPT ![f] = v]
Release(f) == locked' = [locked EXCEPT ![f] = None]
Break(f) == broken' = [broken EXCEPT ![f] = TRUE]

NoHistory == [way \in Ways |-> [f \in Files |-> <<>>]]

-----------------------------------------------------------------------------
Init ==
    /\ disk \in [Files -> Versions]
    /\ stack = NoHistory
    /\ keys = [way \in Ways |-> <<>>]
    /\ locked = [f \in Files |-> None]
    /\ call = [c \in Callers |-> Idle]
    /\ broken = [f \in Files |-> FALSE]

\* execute_*: pre_content = file_path.read_text().
Execute(c, f) ==
    /\ MayStart(c)
    /\ call' = [call EXCEPT ![c] =
                   [Idle EXCEPT !.at = IF f \in ProjectFiles THEN "enter" ELSE "parse",
                                !.file = f, !.pre = disk[f]]]
    /\ UNCHANGED <<disk, history, locked, broken>>

\* Parse the file and let the pre-analysis gate pass, before any lock.
Parse(c) ==
    /\ At(c, {"parse"})
    /\ call' = [call EXCEPT ![c].at = "enter", ![c].base = disk[call[c].file]]
    /\ UNCHANGED <<disk, history, locked, broken>>

\* The file does not parse, or the gate blocks the operation.
Reject(c) ==
    /\ At(c, {"parse"})
    /\ Return(c)
    /\ UNCHANGED <<disk, history, locked, broken>>

\* Transaction.__enter__: lock and snapshot.  A project handler reads the file
\* here, inside the block.
Enter(c) ==
    LET f == call[c].file IN
    /\ At(c, {"enter"})
    /\ locked[f] = None
    /\ locked' = [locked EXCEPT ![f] = c]
    /\ call' = [call EXCEPT ![c].at = "body", ![c].snap = disk[f],
                            ![c].base = IF f \in ProjectFiles THEN disk[f] ELSE @]
    /\ UNCHANGED <<disk, history, broken>>

\* "Another transaction is in progress", or an OSError out of __enter__.
Refuse(c) ==
    /\ At(c, {"enter"})
    /\ Return(c)
    /\ UNCHANGED <<disk, history, locked, broken>>

-----------------------------------------------------------------------------
\* The with-block.

\* The serializers write the file in place, normalise it and write it again.
StartWriting(c) ==
    /\ At(c, {"body"})
    /\ Write(call[c].file, Partial)
    /\ Go(c, "writing")
    /\ UNCHANGED <<history, locked, broken>>

FinishWriting(c) ==
    /\ At(c, {"writing"})
    /\ \E v \in Versions : Write(call[c].file, v)
    /\ Go(c, "written")
    /\ UNCHANGED <<history, locked, broken>>

\* atomic_write: PcbIR's raw edits and the handlers that use it.
AtomicWrite(c) ==
    /\ At(c, {"body"})
    /\ \E v \in Versions : Write(call[c].file, v)
    /\ Go(c, "written")
    /\ UNCHANGED <<history, locked, broken>>

\* An exception anywhere in the block, or out of commit().
Fail(c) ==
    /\ At(c, {"body", "writing", "written"})
    /\ Go(c, "restore")
    /\ UNCHANGED <<disk, history, locked, broken>>

\* __exit__ -> rollback(): the snapshot back, the lock released.
Restore(c) ==
    /\ At(c, {"restore"})
    /\ Write(call[c].file, call[c].snap)
    /\ Release(call[c].file)
    /\ Return(c)
    /\ UNCHANGED <<history, broken>>

\* MUTANT of RestoreFails: the exception skips _release_lock.
RestoreFailsLocked(c) ==
    /\ At(c, {"restore"})
    /\ \E v \in {disk[call[c].file], Partial} : Write(call[c].file, v)
    /\ Break(call[c].file)
    /\ Return(c)
    /\ UNCHANGED <<history, locked>>

\* rollback() aborts (the target has become a symlink) or copy2 raises; in the
\* latter case the lock goes with the Transaction object, when the call is over.
RestoreFails(c) ==
    /\ At(c, {"restore"})
    /\ \E v \in {disk[call[c].file], Partial} : Write(call[c].file, v)
    /\ Release(call[c].file)
    /\ Break(call[c].file)
    /\ Return(c)
    /\ UNCHANGED history

\* MUTANT of Commit: the snapshot and the lock go, the transaction is not marked
\* committed, so a later exception still rolls it back.
CommitUnmarked(c) ==
    /\ At(c, {"body", "written"})
    /\ Release(call[c].file)
    /\ call' = [call EXCEPT ![c].at = "written", ![c].snap = None]
    /\ UNCHANGED <<disk, history, broken>>

\* txn.commit(): snapshot and lock go, the with-block goes on.
Commit(c) ==
    /\ At(c, {"body", "written"})
    /\ Release(call[c].file)
    /\ call' = [call EXCEPT ![c].at = "readpost", ![c].snap = None]
    /\ UNCHANGED <<disk, history, broken>>

\* post_content = file_path.read_text(), after commit has released the lock.
ReadPost(c) ==
    /\ At(c, {"readpost"})
    /\ call' = [call EXCEPT ![c].at = "push",
                            ![c].entry = [pre |-> call[c].pre,
                                          post |-> disk[call[c].file]]]
    /\ UNCHANGED <<disk, history, locked, broken>>

\* The read raises; __exit__ sees a committed transaction and lets it be.
ReadPostFails(c) ==
    /\ At(c, {"readpost"})
    /\ Break(call[c].file)
    /\ Return(c)
    /\ UNCHANGED <<disk, history, locked>>

\* MUTANT of Push: the redo stack survives a new mutation.
PushKeepingRedo(c) ==
    LET f == call[c].file IN
    /\ At(c, {"push"})
    /\ stack' = [stack EXCEPT !["undo"][f] = Appended(@, call[c].entry)]
    /\ keys' = [keys EXCEPT !["undo"] = WithKey(@, f)]
    /\ Return(c)
    /\ UNCHANGED <<disk, locked, broken>>

\* undo_stack.push: a new top of the undo stack, no redo stack any more.
Push(c) ==
    LET f == call[c].file IN
    /\ At(c, {"push"})
    /\ stack' = [stack EXCEPT !["undo"][f] = Appended(@, call[c].entry),
                              !["redo"][f] = <<>>]
    /\ keys' = [keys EXCEPT !["undo"] = WithKey(@, f),
                            !["redo"] = WithoutKey(@, f)]
    /\ Return(c)
    /\ UNCHANGED <<disk, locked, broken>>

-----------------------------------------------------------------------------
\* undo() and redo(); no lock and no transaction.

\* MUTANT of Move: the top is read and not popped.
MovePeeking(f, way) ==
    /\ stack' = [stack EXCEPT ![Other(way)][f] = Appended(@, Last(stack[way][f]))]
    /\ keys' = [keys EXCEPT ![Other(way)] = WithKey(@, f)]

\* pop_undo and pop_redo: the top of one stack becomes the top of the other.
Move(f, way) ==
    /\ stack' = [stack EXCEPT ![way][f] = Front(@),
                              ![Other(way)][f] = Appended(@, Last(stack[way][f]))]
    /\ keys' = [keys EXCEPT ![Other(way)] = WithKey(@, f)]

\* The entry moves before anything is checked or written.
Take(c, f, way) ==
    /\ MayStart(c)
    /\ stack[way][f] # <<>>
    /\ Move(f, way)
    /\ call' = [call EXCEPT ![c] =
                   [Idle EXCEPT !.at = "moved", !.file = f, !.pre = disk[f],
                                !.way = way, !.entry = Last(stack[way][f])]]
    /\ UNCHANGED <<disk, locked, broken>>

\* No target file: pop_latest_undo and pop_latest_redo choose one.
TakeLatest(c, way) ==
    \E f \in Files : FirstWithEntries(keys[way], stack[way], f) /\ Take(c, f, way)

\* The file is a symlink or its directory is gone; the entry stays moved.
RefuseMove(c) ==
    /\ At(c, {"moved"})
    /\ Break(call[c].file)
    /\ Return(c)
    /\ UNCHANGED <<disk, history, locked>>

\* write_text truncates the file ...
StartMove(c) ==
    /\ At(c, {"moved"})
    /\ Write(call[c].file, Partial)
    /\ Go(c, "moving")
    /\ UNCHANGED <<history, locked, broken>>

\* MUTANT of FinishMove: redo writes the entry's old content as undo does.
FinishMoveBack(c) ==
    /\ At(c, {"moving"})
    /\ Write(call[c].file, call[c].entry.pre)
    /\ Return(c)
    /\ UNCHANGED <<history, locked, broken>>

\* ... and writes the entry's content.
FinishMove(c) ==
    /\ At(c, {"moving"})
    /\ Write(call[c].file, Target(call[c].way, call[c].entry))
    /\ Return(c)
    /\ UNCHANGED <<history, locked, broken>>

\* MUTANT of MoveFails: the entry is not moved back.
MoveFailsForgetting(c) ==
    /\ At(c, {"moved", "moving"})
    /\ UNCHANGED history
    /\ broken' = [broken EXCEPT ![call[c].file] = @ \/ At(c, {"moving"})]
    /\ Return(c)
    /\ UNCHANGED <<disk, locked>>

\* OSError out of write_text, before or after the truncation: the opposite pop
\* takes back whatever is on top of the other stack by now.
MoveFails(c) ==
    LET f == call[c].file  back == Other(call[c].way) IN
    /\ At(c, {"moved", "moving"})
    /\ IF stack[back][f] = <<>> THEN UNCHANGED history ELSE Move(f, back)
    /\ broken' = [broken EXCEPT ![f] = @ \/ At(c, {"moving"})]
    /\ Return(c)
    /\ UNCHANGED <<disk, locked>>

-----------------------------------------------------------------------------
\* Another program saves the file.
External(f) ==
    /\ Overlap \/ Quiet
    /\ \E v \in Contents : Write(f, v)
    /\ Break(f)
    /\ UNCHANGED <<history, locked, call>>

\* The process ends and is started again: the deques were in memory, a lock file
\* that is left is stale, the files are as they were.
Crash ==
    /\ stack' = NoHistory
    /\ keys' = [way \in Ways |-> <<>>]
    /\ locked' = [f \in Files |-> None]
    /\ call' = [c \in Callers |-> Idle]
    /\ broken' = [f \in Files |-> FALSE]
    /\ UNCHANGED disk

Start(c) ==
    \/ \E f \in Files : Execute(c, f)
    \/ \E f \in Files, way \in Ways : Take(c, f, way)
    \/ \E way \in Ways : TakeLatest(c, way)

\* What a call does once it has begun.
Step(c) ==
    \/ Parse(c) \/ Reject(c) \/ Enter(c) \/ Refuse(c)
    \/ StartWriting(c) \/ FinishWriting(c) \/ AtomicWrite(c)
    \/ Fail(c) \/ Restore(c) \/ RestoreFails(c) \/ Commit(c)
    \/ ReadPost(c) \/ ReadPostFails(c) \/ Push(c)
    \/ RefuseMove(c) \/ StartMove(c) \/ FinishMove(c) \/ MoveFails(c)

Next ==
    \/ \E c \in Callers : Start(c) \/ Step(c)
    \/ \E f \in Files : External(f)
    \/ Crash

Spec == Init /\ [][Next]_vars

-----------------------------------------------------------------------------
\* What a call at each point has read and not yet forgotten.
Formed(r) ==
    /\ r.at = "idle" => r = Idle
    /\ r.at # "idle" => r.file \in Files /\ r.pre \in Contents
    /\ r.at \in Body => r.snap \in Contents
    /\ r.at \in {"push", "moved", "moving"} => r.entry \in Entry(Contents)
    /\ r.at \in {"moved", "moving"} <=> r.way \in Ways

\* The type of every variable; and nothing is written, restored or pushed that
\* was not read before (rollback has its snapshot, push its two contents).
TypeOK ==
    /\ disk \in [Files -> Contents]
    /\ stack \in [Ways -> [Files -> Seq(Entry(Contents))]]
    /\ keys \in [Ways -> Seq(Files)]
    /\ locked \in [Files -> Callers \cup {None}]
    /\ call \in [Callers -> Calls]
    /\ broken \in [Files -> BOOLEAN]
    /\ \A c \in Callers : Formed(call[c])

\* No path out of the with-block, however the body, the commit or the
\* rollback fail, leaves a file locked: a locked file has exactly one caller in
\* its block, the one that holds the lock.
LocksHandedBack ==
    \A f \in Files, c \in Callers :
        locked[f] = c <=> call[c].file = f /\ At(c, Body)

\* The undo and redo stacks of a file share one budget: together they never hold
\* more than one deque may.
StackBudget ==
    \A f \in Files : Len(stack["undo"][f]) + Len(stack["redo"][f]) <= MaxUndo

\* Undo, redo and their failures move a cursor over a fixed sequence of
\* mutations, in every interleaving of callers: only push and the end of the
\* process change the sequence, so no move evicts an entry the user could still
\* reach.
TimelineKept ==
    [][\A f \in Files :
          \/ Timeline(stack'["undo"][f], stack'["redo"][f])
                = Timeline(stack["undo"][f], stack["redo"][f])
          \/ \E c \in Callers : At(c, {"push"}) /\ call[c].file = f
          \/ stack' = NoHistory]_vars

-----------------------------------------------------------------------------
(***************************************************************************)
(* One call at a time.                                                      *)
(***************************************************************************)

Meets(u, r, v) ==
    /\ u # <<>> => Last(u).post = v
    /\ r # <<>> => Last(r).pre = v

Linked(timeline) ==
    \A i \in 1..(Len(timeline) - 1) : timeline[i].post = timeline[i + 1].pre

\* Without overlapping calls, and until something has broken the tie between a
\* file and its history, the mutations of the file form a chain in which each
\* begins with what the one before it left, and between calls the file is what
\* the cursor says: the result of the last mutation done, the beginning of the
\* next one to redo.
HistoryCoherent ==
    ~Overlap => \A f \in Files : ~broken[f] =>
        /\ Linked(Timeline(stack["undo"][f], stack["redo"][f]))
        /\ (\A c \in Callers : call[c].file # f)
              => Meets(stack["undo"][f], stack["redo"][f], disk[f])

\* "Ops are serialized through a per-project lock" (docs/ENGINEERING-DESCRIPTION.md:96)
\* and "Per-project mutex (concurrent ops serialized)" (docs/FEATURE-INVENTORY.md:406):
\* the content an operation mutates and serializes is the content of the file
\* when its transaction begins, so that no other operation's result is lost.
NoLostUpdate == \A c \in Callers : At(c, {"body"}) => call[c].base = call[c].snap

=============================================================================
