# Volta PCB in TLA+: the edit engine and the daemon's supervision

Volta PCB (`kicad-agent`) edits KiCad designs on behalf of language models: a
Python package parses, changes and writes schematic, board and project files; MCP
servers and a command line offer its operations; a macOS app runs the package as a
daemon and governs the calls. The modules here model what decides whether a user's
files survive that: transactions on a file, the execution of operations by several
threads, batches and operations on several files, undo and redo in memory and on
disk, and the app's supervision of its daemon. TLC checks the models on small instances; for every
instance TLAPS proves the types of each component, every safety property that the runs
check and find true but one (`NobodyWaits`), and that the transaction and the engine
implement their specifications.

Source paths below are relative to `src/src/volta/` unless they say otherwise.

## The system

| Part | State | Operations | Interacts through |
|---|---|---|---|
| Transaction (`ir/transaction.py`) | lock file `<file>.lck` and its flock, snapshot file, committed and rolled-back flags | enter, commit, rollback, exit | the file system, with every other process and thread |
| Undo stack (`ops/undo_stack.py`) | per file, a bounded undo and a bounded redo deque | push, pop undo, pop redo, pop latest | method calls under a lock of its own |
| Persistent undo (`ops/persistent_undo.py`) | entry files and manifest in `.volta/undo/` beside the deques | the same, load at start, prune, clear | file system |
| Executor (`ops/executor.py`, `ops/execution.py`) | none of its own; the files, the undo stack, the IR cache | execute (schematic, board, project, cross-file, create, query), undo, redo | calls all of the above, from the threads of a server |
| Batch executor (`ops/batch_executor.py`) | parsed documents of several files | execute a list of operations, one parse and one write per file | one transaction per file, undo stack |
| Cross-file (`crossfile/atomic.py`) | one transaction per file | enter, commit, rollback of all | transactions |
| IR cache, IR registry (`ops/ir_cache.py`, `ir/base.py`) | parse results by path and mtime; ids of parse results in use | get, put, invalidate; register, finalize, clear | shared by threads, finalizers run from the garbage collector |
| MCP servers (`mcp/edit_server.py`, `mcp/server.py`) | in-flight counter, shutdown flag; rate limiter | dispatch of tool calls to threads | executor; network |
| Gates (`ops/pre_analysis*.py`, `ops/validation_gates.py`) | evidence files | accept or block | executor, workflow runner |
| Parsers, serializers, IRs, handlers | none that is shared | transformations of documents | executor |
| Routing, placement, generation, simulation, training, conversation | local | sequential algorithms | executor, files |
| Governance (`governance/`) | registered objects, evidence | register, record | handoff to the app |
| App: daemon supervision (`src/macos-app/Sources/Volta/Daemon`, `MCP`) | process, pipes, pending requests, crash times, watchdog | spawn, call, time out, terminate, restart | JSON lines over pipes |
| App: governance (`src/macos-app/Sources/Volta/Governance`) | checkpoints, journal, workflow state | checkpoint, call, verify, restore | daemon, when it is wired to one |

What is hard here: lock files that are removed by path while other processes look at
them; crashes between two system calls; documents parsed before the lock that
protects them; commits and rollbacks that fail half way; an undo history in memory
that has to match files anyone can write; threads of one server that interleave at
every file access. `PROJECT.json` lists each of these at its line under `hazards`,
with the property that covers it or the reason why none does yet.

What makes each modelled part correct:

* Transaction: at most one process in the with-block; a crash never locks a file for
  good; rollback gives back the file as it was; every attempt ends.
* Undo stack: undo, redo and their failures move a cursor over a fixed sequence of
  mutations; nothing that can still be reached is evicted.
* Persistent undo: wherever the process ends, a restart loads the history up to the
  calls under way, and never one entry in another's place.
* Executor: no path leaves a lock behind; an operation works on the file as it is
  when its transaction begins; the history of a file is a chain of mutations that
  ends at the file's content; each call is atomic, it happened or it did not.
* Batches and cross-file operations: whoever edits a file owns its lock and gives it
  back; a failure leaves every file as it was but those that could not be put back; a
  success holds every edit that was asked for and loses nobody's; calls that take files in
  opposite order end.
* Supervision: one daemon runs; one that hangs, dies or leaves is noticed and
  replaced, and not replaced for ever.

## Modules

| Module | Role |
|---|---|
| `FileTransaction` | the transaction on one file, one system call per step, several processes |
| `UndoStack` | the deques as operators on sequences |
| `EditEngine` | executor, undo stack and transactions together, one file access per step, several callers |
| `PersistentUndo` | the undo stack with its entry files and manifest, failing writes, and what a restart loads |
| `MultiFileEdits` | batches and cross-file operations: several files, one transaction each, several callers |
| `DaemonSupervision` | the app's supervisor, process manager and messenger, and the daemon processes |
| `GuardedFile` | what a transaction promises: who is inside changes the file, one at a time, and a roll back restores it |
| `FileTransactionGuard` | the refinement mapping from `FileTransaction` to `GuardedFile` |
| `Progress` | when a tuple of numbers is below another, for what has to come to an end |
| `DocumentHistory` | what the engine promises, every call atomic: a document per file with its past and future |
| `EditEngineHistory` | the refinement mapping from `EditEngine` to `DocumentHistory` |
| `FileTransactionProofs`, `UndoStackProofs`, `EditEngineProofs`, `CoherenceProofs`, `EditEngineHistoryProofs`, `PersistentUndoProofs`, `MultiFileEditsProofs`, `DaemonSupervisionProofs` | theorems and lemmas |
| `MCFileTransaction`, `MCEditEngine`, `MCEditLatest`, `MCPersistentUndo`, `MCMultiFileEdits`, `MCDaemonSupervision` | instances for TLC |

### FileTransaction

A path is not a file: `lck` is the inode the lock path names, `fd[p]` the inode
process `p` has open, `holder[i]` the process with the flock of inode `i`. `pc[p]` is
the next system call. `Probe`, `Test`, `Clear`, `Unlink`, `Create`, `Lock` and
`Snapshot` are `__enter__` in the order of the code: does the lock file exist, does
somebody hold it, give the flock up, unlink the path, create with `O_EXCL`, flock,
copy. The with-block is a handler that edits the parsed objects, followed by the
serializer (`StartWriting`, `FinishWriting`: the file is incomplete in between), or
one `atomic_write`. `Commit` removes the snapshot and goes on to `Unlock` and
`Remove`, the two halves of `_release_lock`. `Fail` is an exception in the block or
out of `commit()`; `StartRestore`, `FinishRestore` and `DropSnapshot` are
`rollback()`, `AbortRestore` is its symlink branch, `CopyFails` an OSError of any copy, after which the
lock lasts until the object is collected (`Collect`). `Crash` may come at any point:
the kernel closes the descriptors, the lock file and a half-written file stay.
`alone`, `before` and `robbed` record history for the properties; no guard reads them.

flock belongs to the open file description, so two threads of one server exclude
each other exactly as two processes do and one model serves for both. Not modelled:
an OSError of unlink or flock other than a refusal, and two transactions on different
spellings of one path (`resolve()` makes them one).

### EditEngine

`call[c]` holds the local variables of caller `c`: where it is, the file, what was
read before the lock (`pre`), what was parsed (`base`), the snapshot, and the entry
and direction of an undo or redo. `Execute` to `Push` are `execute_schematic`,
`execute_pcb` and `execute_project`, which differ in whether the document is parsed
before the lock (`ProjectFiles`) and in how the block writes. `Take` to `MoveFails`
are `undo()` and `redo()`: the entry is moved from one stack to the other first, then
checked, then written, and moved back when the write fails. `External` is any other
program that saves the file, `Crash` the end of the process.

The lock here is the one the documentation promises, granted to one caller at a
time; `FileTransaction` shows when the real one is that. The modelled undo stack is
the in-memory one: `PersistentUndoStack`, which the servers prefer, does the same to
its deques and keeps a copy on disk, which is `PersistentUndo`'s subject, so a
`Crash` here loses the history as it does with the in-memory stack. Contents are texts up to line
ends, because `read_text` translates them. The pre-analysis gate accepts or
blocks (`Parse`, `Reject`), whatever it looks at. The IR cache is off: no caller in
the package passes one. `broken[f]` is history: the file or its undo history changed
without the other, by another program, a failed rollback, a failed read after the
commit, a refused undo or a failed write of one.

### PersistentUndo

An entry is an object, known by its address (`id()`), in a deque. `names` is the
dictionary from addresses to file names; it keeps the name of an entry that a full
deque has dropped, and the address may be that of a later entry. A file name is a
sequence number and the first 60 characters of the path, which may be the same for all
files of a project. `store` and `manifest` are the directory. `Push`, `WriteEntry`, `Remember`,
`Snapshot` and `WriteManifest` are `push()` in its order; `PopUndo` and
`RemoveEntryFile` followed by the same two are `pop_undo()`; `PopInMemory` stands for the three
pops that the class inherits. A failed write or unlink is swallowed as in the code.
`Restart` may come at any point, also during a load: the new process has read the
manifest, or could not and begins with number 0 and nothing. `Load` is one turn of the
loop over the slots (`unread`): the entry gets an address and the slot's name, a missing
file is passed over, and so is one that cannot be read. Nobody pushes or pops before the
constructor has returned (`Loaded`). `lock` is `_manifest_lock`; the
deques' own lock is held within one step only. Not modelled: a second process on the
same directory (the command line beside a server), manifests with other contents than
`_save_manifest` writes,
`clear()` and `prune_old_entries()`, which nothing but tests calls.

`mishaps` is history and guards nothing: a pop that bypassed the disk ("stray"), an entry
file or a manifest that could not be written, an entry ("load") or a manifest ("history")
that could not be read. Each property says which of them it needs to be
absent, because after the others the code promises nothing that it could keep: a redo
makes the next manifest list a name that the next push writes.

### MultiFileEdits

`call[c]` is a thread in `execute_batch` or `execute_cross_file`: `at` is its place,
`n` the file it has got to and `k` the operation on it. `Parse` and `Capture` are the
two passes over the files before any lock. A batch then takes one file at a time:
`Enter`, its operations (`ApplyToObject` for a handler that changes the objects of the
IR, `ApplyRaw` for one that writes the board's text), `Serialize` with
`FinishWriting`, `CommitFile`, `PushFile`; `OpFails` closes the file and, with an undo
stack and more than one file, rewrites all of them from `pre` (`Rewrite`). A cross-file
operation enters all its files before the first edit, edits them (`EditFile`), commits
them one after the other (`CommitOne`) and pushes their entries (`PushOne`).

Each of these may fail. `Refused` is a lock that somebody has; `OpenFails` an OSError that
`AtomicOperation.__enter__` does not catch; `EditFails` an exception of a handler or a
serializer. `CommitFails` is a snapshot that cannot be removed: it is still there and the
lock is still taken, so the file is rolled back like those after it, but the files
committed before it have no snapshot any more. `ReadBackFails` is a committed file that
cannot be read for its undo entry: the call raises, and everything it has committed stays.
`Rollback` is one file of any roll back, in the order of the code, also of a committed
file, whose lock path is unlinked once more; `RollbackFails` is one that raises before the
lock is given up: a cross-file operation logs that and goes on with the next file, a batch
raises it. A `Rewrite` that fails is logged and the next file is rewritten. A call that
ends with locks still taken passes through the place `leaving`, from where `Collect`, the
end of the frame or the traceback, gives them up with their descriptors.

A content is the set of the edits it holds, an edit being a caller and the place of
the operation, which makes lost edits visible. `object` is what the parse results of
the beginning hold and `ir` what the current operation works on: the code parses anew
after each operation, from a file that is not written yet, and serializes the parse
result of the beginning. Boards are written at one stroke, schematics in place
(`Partial` in between). Four variables are history and guard nothing: `before`, the files
when a call began, kept while it is alone; `committed`, the files whose transaction it has
committed; `torn`, the callers whose commit failed after an earlier one had succeeded;
`unrestored`, the files that the call which is alone has failed to give their content
back, by a roll back or a rewrite.

The transaction is entered in one step here, lock and snapshot; its system calls are
`FileTransaction`'s subject. Left out: project
files in a batch, which fail while they are parsed; the gates and handlers, which accept, edit,
do nothing or raise.

### DaemonSupervision

The app side runs on the main actor: a step is what runs between two suspensions, and
`jobs` are the tasks queued on it. `Open`, `Close`, `Retry` and `Wake` are
`start()`, `shutdown()`, `retry()` and `handleWake()` of `DaemonSupervisor`, called by
the windows, the alert and the system. `Spawn`, `SpawnAgain` and `SpawnFails` are
`startAsync()`; `CheckAfterWake` and `HealthChecked` what follows a ping;
`BeginStop`, `KillStopped` and `FinishStop` the shutdown with its grace period;
`CrashHandled` and `ExitHandled` are `handleTermination()`, `WatchdogFires` the thirty
seconds without a line. `pm` holds the fields of `ProcessManager` and its messenger,
`asking` the pings without an answer. The daemon answers (`Pong`), `Freeze`s, `Die`s
or `Leave`s; `life` and `notice` say which process still runs and whose end the app
has not handled yet, so a handler may run after the next process has been spawned, as
it may in the code. There is no clock: a timer may run out whenever it is armed.

Left out: the first ping into a process that ends at that moment (a broken pipe in
place of a ping without an answer), malformed answers, and a long operation during
which heartbeats keep the watchdog quiet. `StdioWatchdog` is instantiated by nothing.
The five seconds that `spawnTimeout` allows are not a step: `MessengerAtOnce` shows
that the wait never waits.

### GuardedFile and the refinement

`GuardedFile` has one step for each thing a process may do to the file: `Enter` a file
that nobody is in, `Write` from inside, `Leave`, and `Restore` what the file was at its
own `Enter`. Under the mapping of `FileTransactionGuard` a process is inside from its
snapshot to its commit, or until the roll back has put the file back or is given up, or
until it dies; the flocks, the inodes, the leftovers and everything about lock files is
hidden. This is the transaction that `EditEngine` and `MultiFileEdits` take for granted.
The promise ends when a lock file is removed under its owner (`lost`), which happens
(`txn_mutex`); from then on nothing is promised.

### DocumentHistory and the refinement

`DocumentHistory` knows six steps: `Edit` records exactly the change of the document
and forgets the future; `Undo` and `Redo` write exactly the recorded content and move
the cursor; `Disturb` (document without history), `Slip` (history without document)
and `Restart` say, as narrowly as the code allows, how the two come apart. Under the
mapping of `EditEngineHistory` a call that is under way has not happened yet: its
document is what it found, and an entry that `Take` has moved already still counts as
not moved. Each call then takes effect in one step, its last.

## Runs

| Run | Instance | Shows |
|---|---|---|
| `txn` | 2 processes, 3 inodes, 2 contents, fair | `TypeOK`, `ExclusionUnlessRobbed`, `NoSpuriousRefusal`, `RollbackRestores`, `AttemptEnds` hold and the transaction implements `GuardedFile` |
| `txn_mutex` | the same, no fairness | `MutualExclusion` fails |
| `engine` | 1 caller, a schematic and a project file, 2 undo entries | `TypeOK`, `HistoryCoherent` hold and the engine implements `DocumentHistory` |
| `engine_overlap` | 2 callers, 1 file, 2 undo entries | `LocksHandedBack`, `StackBudget`, `TimelineKept` hold |
| `engine_lost` | 2 callers whose steps all succeed | `NoLostUpdate` fails |
| `engine_latest` | 1 caller, 2 files | `UndoTakesLatest` fails |
| `undo_disk` | 2 threads, 1 file, 3 sequence numbers, 2 undo entries | `TypeOK`, `DiskTracksMemory`, `SlotsLoadTheirOwn` hold |
| `undo_disk_step` | 1 thread | `DiskInStep` fails |
| `files` | 2 callers, one with an undo stack; a board and a schematic; batches of up to 2 operations on a file | `TypeOK`, `LocksRespected`, `LocksReturned`, `NobodyWaits`, `CallsGoOn`, `CrossFileAllOrNothing`, `FailedOpUndone`, `SuccessKept`, `EntriesTellTheStep` hold |
| `batch_applied` | the same | `AllMutationsApplied` fails |
| `failure_undone` | the same with one operation on a file | `FailureUndone` fails |
| `daemon` | 2 process ids, 2 crashes make a loop, fair | `TypeOK`, `OneDaemonUnlessOvertaken`, `MessengerAtOnce`, `DaemonWatched`, `SpawnsRunOut`, `CrashLoopEnds`, `LaunchResolved` hold |

The six that fail are disagreements between the code and what it says of itself:

* `txn_mutex`: one process finds a stale lock file and gives up its flock; before it
  unlinks the path, another has removed the stale file, created and locked its own
  and entered the block; the unlink removes that lock file, and the first process
  creates one of its own and enters too. `_release_lock` has the same window between LOCK_UN and unlink.
  `ExclusionUnlessRobbed`, which holds, says that this is the only way.
* `engine_lost`: both callers parse, one commits, the other enters its transaction
  with the document it parsed before and overwrites the first one's result. The
  documentation speaks of a mutex per project; the server runs each call in a thread.
* `engine_latest`: undo without a target file goes by the order in which the files
  were first edited, not by which was edited last.
* `undo_disk_step`: an undo without a target file pops the deque and leaves the entry
  on disk. `volta undo` is a process of its own, so the next `volta undo` loads the
  entry again and undoes the same operation. The edit server tells its users of the
  opposite error, that the history is lost on a restart (`mcp/edit_server.py:244`), though
  its stack is the persistent one.
* `batch_applied`: a batch of two operations on one schematic reports success and the
  file lacks the second edit; a board that a handler wrote as text is overwritten by
  the objects parsed before it. `SuccessKept`, which holds, says what is left: the
  first edit of the objects, and everything that was there before.
* `failure_undone`: a batch without an undo stack fails on its second file and says that
  it was stopped and rolled back; the first file is committed and keeps the new content.
  If every caller has an undo stack, TLC finds the other case: a cross-file operation commits
  its first file and fails to commit the second. The documentation promises that the
  first is rolled back (`crossfile/atomic.py:20`); its snapshot is gone and it stays
  changed, while the operation reports failure. `FailedOpUndone` and
  `CrossFileAllOrNothing`, which hold, say what is put back otherwise: with an undo stack a
  failed batch leaves nothing but what it fails to rewrite; a cross-file operation that
  fails leaves a file changed only if it fails to put it back, if a commit failed after
  others, or if a file cannot be read back after all commits.

Other disagreements are steps of the models without a run of their own, and no property
claims anything against them; where one makes an exception of them, it is named:

* A failed commit rolls back all files, the committed ones too, whose locks are given up.
  Another caller may have entered one by then; its lock file is unlinked and a third may
  enter beside it (`crossfile/atomic.py:187`). `LocksRespected` holds until then (`torn`).
* Undo and redo write the file without its transaction (`ops/executor.py:216`), also while
  another call is inside it. `EditEngine` has the steps; the properties of overlapping
  calls are about the stacks.
* A daemon that leaves with status 0 or 15 before its first answer calls no hook, and its
  ping has no timeout; the app says "starting" until the user closes the window, although
  `DaemonSupervisor.swift:15` promises no silent hang. `LaunchResolved` says that every
  other end is noticed: crash, hang and failure to run.
* The window is closed and opened again; the next daemon is spawned when the old one has
  ended and `shutdown()` has not noticed yet, and `shutdown()` then drops the new one, which
  runs on unwatched. A late termination handler does the same
  (`ProcessManager.swift:447`). `OneDaemonUnlessOvertaken` says that no daemon is dropped
  otherwise (`overtaken`).
* A hang counts twice as a crash, once when the watchdog kills the daemon and once when it
  has ended (`ProcessManager.swift:410`), so that two hangs and a crash make five.

### Bounds

Two processes with three inodes are enough for a process to meet a live owner, a
leftover and a file that changes between two of its calls; `EnoughInodes` states what
the count must be for creation never to wait. Two contents tell "restored" from
"changed". One and two callers separate the properties that need exclusive calls
(`Overlap` = FALSE: no call or outside save begins during another) from those that do
not. `MaxUndo` is 2 or 3 in place of 50: eviction, an empty stack and a full one are
reached within three operations. With one complete content and the partial one, as in
`engine` and `engine_overlap`, an entry still distinguishes what it goes back
to from what it goes forward to. The one counter
that grows, `next_seq`, has the bound `MaxSeq` in the guard of `Push`: three numbers fill a
deque of two and evict, and numbers that were not recorded are taken again after a
restart. Four `Objects` are as many as two calls and the deques can refer to at once.
`undo_disk` is the only run with a constraint: states in which an entry file could not
be written, a manifest could not be read or a pop bypassed the disk are checked, and not
explored further, because no property but the types claims anything of what follows. The
run has one file; that two files with one safe name do not get into each other's way is
`SlotsAreTheirOwn`.

Two callers with two files meet in every way that two calls can: the same file, the
same files in opposite order, a call that is refused halfway through. Each caller makes
one call, so TLC may come to a state in which all are over and the runs of files do not
check for deadlock; that nobody waits before that is `NobodyWaits`. A batch with two
operations on a file does not overlap another call (`Begin`): the second operation
matters for what is serialized, not for the locks, and what a call leaves and keeps is
claimed only of one that is alone. One caller has an undo stack and the other none,
because both are in the properties. `failure_undone` needs one operation on a file.
Two process ids are
enough for a daemon that is dying and its successor; an id is used again when nothing
refers to it. `CrashLimit` is 2 in place of 5 and `MaxJobs` 1: a crash that the limit
forgives and one it does not, and a request while a task is queued; `handleTermination`
queues beyond the bound. One shutdown and one wake are under way at a time.

### Fairness

Three properties need it. `AttemptEnds`: weak fairness of each process's own steps, from `Probe`
to `Remove`. A thread that is inside `__enter__` or a with-block keeps running;
nothing obliges anyone to begin, and nothing prevents a crash. No step of a call
waits for another process (the flocks are non-blocking), so no strong fairness is
assumed.

The runs of files assume no fairness: `NobodyWaits` says that a call has a next step
wherever it is, because a lock that is taken refuses and does not wait, and `CallsGoOn`
that each step takes it nearer its end. A call whose thread keeps running therefore ends.

`CrashLoopEnds` and `LaunchResolved` assume that the main actor runs the tasks it has
queued, that the grace period and the thirty seconds without a line run out (the
watchdog is owed only while no line comes), that a process that has ended gets its
termination handler, and that a daemon that is not frozen answers a ping it has been
sent, because the operations it runs in between end. Nobody is obliged to open or close
a window, and daemons are never obliged to die.

## Proofs

All theorems are for any set of callers, contents and processes, any set of files
(a finite one in `MultiFileEdits`) and any `MaxUndo`, `MaxOps` and `CrashLimit` above 0, from the assumptions named in the modules (distinct sentinels,
enough inodes, project files are files).

`FileTransactionProofs` goes in layers. `TypeCorrect` is inductive by itself.
`FlockInv` ties flocks to descriptors. `OwnerInv` says that until somebody is robbed
there is one owner and the path names its file: `MutualExclusion` alone is not
inductive, since it says nothing of a process that has created its file and not yet
locked it, and it is `OwnerInv` that uses `O_EXCL`. `SoloInv` and `SnapshotInv` carry
what a solitary attempt has found and saved; with them `Unrefused` and `Restoration`
are one step each. `Guarded` is the refinement: `OwnerInv` gives that whoever has its
snapshot is the one owner (`SoleOwner`), so that nobody is inside when a process enters
and nobody else when one writes; a step outside the block leaves the file and the
mapping as they are (`GuardStays`); and leaving, by commit, roll back, failure or death,
is one step each (`GuardLeft`). Once a lock file has been removed under its owner, any
step will do.

`UndoStackProofs` has the lemmas about sequences: what `Front`, `Last`, `Appended`
and the keys return, and that moving the top of one stack to the other leaves the
timeline, undo followed by the reverse of redo, as it was (`CursorBack`,
`CursorForward`) provided the two stacks share one budget. `EditEngineProofs` proves
`TypeCorrect`, `LocksReturned`, `Budget` and `HistoryKept`; the last rests on
`StackBudget`, because only then `Appended` does not evict.

`CoherenceProofs` proves `HistoryCoherent`, from `Overlap` = FALSE. The property says
what holds between calls and nothing of a call under way, so it is not inductive.
`CoherenceInv` adds that at most one call is under way (`Solo`) and, in `Fits`, what
that call still knows: until it pushes, `pre` is where the history ends, and the
snapshot is that same content, so a rollback returns there; before the push the entry
is the change from `pre` to the file; an undo or redo that has not written yet finds
its entry on top of the other stack and the file where the entry leaves it, so that a
move taken back after a failed write changes nothing. The chain itself needs
`LinkedAppended` for push (also when the full deque drops its oldest entry) and, for
the moves, the timeline lemmas and `StackBudget`.

`MultiFileEditsProofs` has four inductive invariants. `TypeOK` needs that what a call
writes or records it has read: `TypeInv` adds, for each call, that its place is one of
its files (`Placed`), that it names each file once and has an operation for it
(`Planned`), that the files it got past are parsed and, with an undo stack, captured
(`Prepared`), and that nothing half-written was read as a board (`Complete`).
`LocksRespected` says nothing of which files a call should be inside, so that a step
that closes "its" file could close one it is not in: `LockInv` says that a call is inside
exactly the files that its place in the code implies (`Open`, `Holding`), those before
the current one while it enters, all while it edits, the rest while it commits, those up
to it that are not committed while it rolls back. It owns their lock files until somebody
rolls back what is committed (`torn`), and another lock file only where one was left by a
failure, in a roll back of several files or at `leaving` (`Closing`); which is why
`LocksReturned` follows as well, and without exception. Each step is then one of four: it
stays inside the same files, enters one, leaves one, or ends (`SameOwner`, `EnterOwner`,
`LeaveOwner`, `LastOwner`). `Counted` says what a cross-file operation has committed at
each place.

`CrossFileAllOrNothing` and `FailedOpUndone` speak of the last step of a call, so an
invariant has to say on the way there that the files can still be put back:
`UndoableInv` says of a call that is alone that every file is `Recoverable`, unless it is
committed or putting it back has failed: it is open with a snapshot of what it was, or not
open and as it was. `BatchSafe` adds that with an undo stack `pre` has what each file was,
from which the committed ones can be put back too, and that a rewrite has done so with the
files it got past or has failed to; `CrossSafe`, that a cross-file operation touches no
file until it has entered all. A failed commit needs no exception, since the snapshot of
that file is still there.
`OneUndoable` is the step of one call, `Carried` what each of its actions has to show.
`SuccessKept` and `EntriesTellTheStep` are about the end of a call that succeeds, and
`KeptInv` says how it gets there: what was parsed of a file holds what the file held, and
the edit once it is made (`Sound`); a file that is written holds the same; in a batch the
files the call got past have an entry that tells what became of them (`Told`) and those
to come are still what they were. Of a batch's edits only the first is in it, because
only that one is made in the parse result that is serialized; which is what the run
`batch_applied` shows.

`CallsDoGoOn` is the reason why every call ends. Four numbers say
what is left of a call (`ToGo`): its stage, the files to go in it, the way through one
file of a batch, the operations to go on it. Every step takes them down at the first
place where they change, those that fail too, because a failure leads to a later stage; and
no other caller's step changes them. They are natural numbers as long as the call is on
(`CallsAreFinite`), and such tuples do not go down for ever (`ChancesEnd`, for tuples of
any length, from the library's well-founded orderings). That a call
has a next step wherever it is (`NobodyWaits`) is a statement about ENABLED, and stays with TLC.

`DaemonSupervisionProofs` proves the types with `MessengerAtOnce` (a second health
check asks the messenger of a process that is known to run), and
`OneDaemonUnlessOvertaken` from `Supervised`, which adds that a shutdown waits for the
manager's own process, if it has one, and that no process runs while the end of one is
not handled yet: without these a handler could drop a process that runs.
`DaemonWatched` says that a process that hangs is noticed in whatever state the app is;
`Watched` adds that a process the manager holds runs or has its handler still to
come (`Noticed`): a watchdog that fires for a process that has ended only disarms itself.
`SpawnsRunOut` is the safety half of `CrashLoopEnds` and needs no fairness: the wakes
that are queued, the crashes left to the limit and the starts that are queued, in this
order (`Chances`), never go up but by the clock (`Age`) or from outside (`User`), and go
down with every spawn. A wake that restarts forgives the crashes and queues a start,
which is why it is counted before both; a crash queues a start and is counted before it. The
numbers are natural (`ChancesAreNumbers`) and cannot go down for ever (`ChancesEnd`). The
proof counts the tasks of a kind in the queue when one is put in or taken out
(`PlacesAppend`, `PlacesTail`).

`EditEngineHistoryProofs` proves `ImplementsHistory` from `Overlap` = FALSE, one lemma per
kind of step. The mapping hides a call that is under way, so the proof has to know what
the hidden part will turn out to be: `Memory` says, for the one call under way, that
until its last step the document stands at `pre`, that what it has moved from one stack to the
other is on top of the other, and that its snapshot is `pre` too. `View` then gives the
abstract document for each place of a call, and a step is a stutter unless it is the
last; `PopAppended` and `AppendPopped` of `UndoStackProofs` undo a move that is taken
back.

`PersistentUndoProofs` proves the types and `SlotsLoadTheirOwn`. That property speaks of
the manifest on disk alone. `OwnInv` adds what keeps the file of a slot from being
written again and where slots come from: the number of a slot is below the next one and,
in a manifest, below the manifest's `next`, from which a new process goes on (so
`Restart` is safe although it goes back in numbers); the same holds of the slots that are
unread and of the manifest about to be renamed; every entry of an undo deque has a name
and its file its content, no two have one address, and a call that adds or has popped an
entry has it to itself, so forgetting its name takes nobody else's. It holds as long as
nothing but the writing of a manifest and the reading of an entry has failed and no pop
has bypassed the disk (`Kept`).

`DiskTracksMemory` compares what a restart would load with the deques: but for entries
that calls have in hand, the one goes to the other by a map that keeps the order
(`SameRun`), which a prover can reason about where it could not about a filtered sequence.
The manifest on disk says nothing of the next one, which some call may have taken from the
deques already and not renamed yet while others push, pop and evict; and while a new process loads, its
deques are the beginning of what they will be. So the invariant, `TrackInv`, says of the
manifest and of every image that is taken that it is `Tidy` (no name twice, and none of an
entry that is still to be appended) and `Agrees` with the deques: names on either side are on the other
unless a call claims them, and in the same order. The image that a call is about to rename may differ by
the claims of the *other* calls only, which is what `_manifest_lock` is for: with it
nobody else's image is older, and `WriteManifestTrack` may drop the writer's claim when the
call returns. `NamesApart` (a name belongs to one object and its number is used up),
`FilesThere` (an entry of a deque has its file) and `Reading` (what is unread is the end
of the manifest, and the deque has room for it) make names stand for entries: without the
room a load would evict what it has just read. Steps are of a few kinds:
one that adds, moves or drops entries at an end of a deque and claims them
(`AgreeStays`, `TracksStay`), one that makes an image (`AgreeSelf`), one that loads a slot
(`AgreeLoaded`).

Only model-checked: `AttemptEnds`, `CrashLoopEnds` and `LaunchResolved`, because liveness
is out of the prover's reach, and `NobodyWaits`, because ENABLED is. The part of
`CrashLoopEnds` that is safety is proved (`SpawnsDoRunOut`).

## Not modelled, and the plan

Not modelled, because the program never runs it:

* The governance of calls in the app. Nothing calls `governedCall`;
  `Governance.shared` builds the gates and `Rollback` without a client, so a checkpoint
  is a placeholder and a restore does nothing, and the daemon's table of handlers has no
  governed method. Read as a library it has its own hazards: an error that the tool
  reports is returned as a success, a success that overlaps a failure clears the halt of
  the escalation ladder (`EscalationLadder.swift:204`), and snapshots are kept for ever.
* The IR cache. Every constructor of the executor leaves it out. With one, a handler
  that fails would leave the cached parse result changed while the rollback restores
  content and modification time.
* `MCPClient`'s timeout and late answers: only the governance uses the client.

Not modelled, because a model would say nothing that the code could get wrong between
steps: the IR registry, which refuses a second IR for one parse result and is cleared
at the start of every call; its finalizers run when CPython collects and go by
addresses it reuses. Its lock is not reentrant, so a collection inside a block that
holds it would wait for itself; when that happens is not a step of the program.

Part of components that are modelled otherwise: `execute_create` and the read-only
queries; the shutdown of the edit server, which rejects new calls and waits for none in
flight; edits of natively parsed boards, which no serializer writes
(`execution.py:533`), since which handler writes the file itself is not in `EditEngine`;
`MCPClient`, its timeouts and the project snapshots of the daemon, which only the
governance uses.

Handlers, parsers, serializers, routing, generation, training, simulation, views and
web providers are most of the code. They are transformations or user interface without
shared state; the models stand for them by the content they leave, an exception, or a
refusal.

The plan, in this order:

1. A second process on the undo directory (`cli.py:1260`), to find out what is left of
   the history then; no document says what should be.
2. The rate limiter of the catalogue server (`mcp/server.py:188`), whose check and
   whose update are two critical sections.
