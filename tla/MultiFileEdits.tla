---------------------------- MODULE MultiFileEdits ----------------------------
(***************************************************************************)
(* Edits of several files at a time: execute_batch() and                    *)
(* execute_cross_file() with its AtomicOperation, called by the threads of  *)
(* one server process.                                                      *)
(*                                                                         *)
(* A content is the set of edits it holds, so that a lost edit is seen as   *)
(* one.  Transaction is the lock and the snapshot (FileTransaction has its  *)
(* system calls, and the partial states of its restore); the IR cache is    *)
(* off, as everyone constructs the executor.  A batch reads every file that *)
(* is no board as a schematic, so one with project files fails before it    *)
(* does anything and is left out.                                           *)
(***************************************************************************)
EXTENDS Naturals, Sequences, FiniteSets, Progress

CONSTANTS
    Callers,   \* threads; bound: each makes one call
    Undoers,   \* those whose executor has an undo stack
    Files,
    Boards,    \* .kicad_pcb; the other files are schematics
    MaxOps,    \* bound on the operations of a batch on one file; a batch with more
               \* than one on some file does not overlap another call
    Partial,   \* content of a file caught between truncation and last write
    None

ASSUME EditConstants ==
    /\ Undoers \subseteq Callers /\ Boards \subseteq Files
    /\ IsFiniteSet(Files)
    /\ MaxOps \in Nat \ {0}
    /\ None \notin Callers

VARIABLES
    disk,     \* content of each file
    lock,     \* who created the lock file of each file
    call,     \* local state of each caller
    pushed,   \* entries of the undo stacks, per file
    before,   \* history: the files when c's call began; None once it is not alone
    committed, \* history: the files whose transaction c's call has committed
    torn,     \* history: the callers that roll back a file they have committed
    unrestored \* history: the files to which a call that is alone has failed to give
               \* their old content back

vars == <<disk, lock, call, pushed, before, committed, torn, unrestored>>

Edits == Callers \X (1..MaxOps)
Contents == (SUBSET Edits) \cup {Partial}

ASSUME DistinctContents ==
    None # Partial /\ \A v \in SUBSET Edits : v # Partial /\ v # None

Ways == {"object", "raw"}
Points == {"idle", "parse", "capture", "enter", "apply", "write", "writing", "commit",
           "push", "rollback", "rewrite", "leaving", "done"}

\* files and n: the files in order, and where the call is; ops and k: how the
\* operations on each file edit, and which is next.  object: what the parse results
\* hold; ir: what the IR of the current file was parsed from, when it is no longer
\* the first.  pre: pre_contents.  snap: the snapshots of the open transactions.
\* dirty: whose IR a cross-file operation has changed.
Calls ==
    [at : Points, kind : {"batch", "cross"}, files : Seq(Files), n : Nat,
     ops : [Files -> Seq(Ways)], k : Nat,
     object : [Files -> Contents \cup {None}], ir : Contents \cup {None},
     pre : [Files -> Contents \cup {None}], snap : [Files -> Contents \cup {None}],
     dirty : SUBSET Files, outcome : {"ok", "failed", "raised", None}]

Nothing == [f \in Files |-> None]

Idle == [at |-> "idle", kind |-> "batch", files |-> <<>>, n |-> 0,
         ops |-> [f \in Files |-> <<>>], k |-> 0, object |-> Nothing, ir |-> None,
         pre |-> Nothing, snap |-> Nothing, dirty |-> {}, outcome |-> None]

At(c, point) == call[c].at = point
Here(c) == call[c].files[call[c].n]
Inside(c, f) == call[c].snap[f] # None
Active(c) == call[c].at \notin {"idle", "done"}
CrossAt(c, point) == At(c, point) /\ call[c].kind = "cross"

Go(c, point) == call' = [call EXCEPT ![c].at = point]
Continue(c, d) == call' = [call EXCEPT ![c] = d]
Write(f, v) == disk' = [disk EXCEPT ![f] = v]

\* The call returns or raises.
Ended(outcome) == [Idle EXCEPT !.at = "done", !.outcome = outcome]
End(c, outcome) == Continue(c, Ended(outcome))

\* MUTANT of NextFile: one file too many.
NextFilePast(d, point, otherwise) ==
    IF d.n > Len(d.files) THEN otherwise ELSE [d EXCEPT !.at = point, !.n = @ + 1]

\* d at the given point with the next file, or, after the last one, as given.
NextFile(d, point, otherwise) ==
    IF d.n = Len(d.files) THEN otherwise ELSE [d EXCEPT !.at = point, !.n = @ + 1]

Back(d, point) == [d EXCEPT !.at = point, !.n = 1]

Quiet == ~\E c \in Callers : Active(c)

\* The k-th edit of c.  Edits are told apart by caller and place, per file.
Edit(c) == <<c, call[c].k>>

Orders == {s \in UNION {[1..n -> Files] : n \in 1..Cardinality(Files)} :
              \A i, j \in DOMAIN s : s[i] = s[j] => i = j}

Plans == UNION {[1..n -> Ways] : n \in 1..MaxOps}

\* The operations of a batch: any for a board, on the object for a schematic.
Batches(files) ==
    {ops \in [Files -> Plans \cup {<<>>}] :
        \A f \in Files : /\ (ops[f] # <<>>) <=> \E i \in DOMAIN files : files[i] = f
                         /\ f \notin Boards => \A i \in DOMAIN ops[f] : ops[f][i] = "object"}

-----------------------------------------------------------------------------
Init ==
    /\ disk = [f \in Files |-> {}]
    /\ lock = [f \in Files |-> None]
    /\ call = [c \in Callers |-> Idle]
    /\ pushed = [f \in Files |-> <<>>]
    /\ before = [c \in Callers |-> None]
    /\ committed = [c \in Callers |-> {}]
    /\ torn = {}
    /\ unrestored = {}

Long(ops) == \E f \in Files : Len(ops[f]) > 1

Begin(c, kind, files, ops) ==
    /\ call[c] = Idle
    /\ Quiet \/ ~(Long(ops) \/ \E d \in Callers : Long(call[d].ops))
    /\ call' = [call EXCEPT ![c] = [Idle EXCEPT !.at = "parse", !.kind = kind, !.n = 1,
                                                !.k = 1, !.files = files, !.ops = ops]]
    /\ before' = [d \in Callers |-> IF Quiet /\ d = c THEN disk ELSE None]
    /\ committed' = [committed EXCEPT ![c] = {}]
    /\ unrestored' = {}
    /\ UNCHANGED <<disk, lock, pushed, torn>>

\* execute_batch(): not empty, supported and well ordered; grouped by file.
ExecuteBatch(c) ==
    \E files \in Orders : \E ops \in Batches(files) : Begin(c, "batch", files, ops)

\* execute_cross_file(): one edit for each file.
ExecuteCrossFile(c) ==
    \E files \in Orders : Begin(c, "cross", files, [f \in Files |-> <<"object">>])

\* Phase 1: parse the next file.
Parse(c) ==
    /\ At(c, "parse")
    /\ disk[Here(c)] # Partial
    /\ LET d == [call[c] EXCEPT !.object[Here(c)] = disk[Here(c)]] IN
       Continue(c, NextFile(d, "parse",
                     Back(d, IF c \in Undoers THEN "capture" ELSE "enter")))
    /\ UNCHANGED <<disk, lock, pushed, before, committed, torn, unrestored>>

\* The file cannot be read or parsed, or the gates (those of a cross-file operation
\* come after the capture) or the handler tables refuse an operation: nothing has been
\* done yet.
Reject(c) ==
    /\ \/ At(c, "parse") /\ disk[Here(c)] # Partial /\ End(c, "failed")
       \/ CrossAt(c, "capture") /\ End(c, "failed")
       \/ (At(c, "parse") \/ At(c, "capture")) /\ End(c, "raised")
    /\ UNCHANGED <<disk, lock, pushed, before, committed, torn, unrestored>>

\* Phase 2: pre_contents, without a lock.
Capture(c) ==
    /\ At(c, "capture")
    /\ LET d == [call[c] EXCEPT !.pre[Here(c)] = disk[Here(c)]] IN
       Continue(c, NextFile(d, "capture", Back(d, "enter")))
    /\ UNCHANGED <<disk, lock, pushed, before, committed, torn, unrestored>>

-----------------------------------------------------------------------------
\* The transactions.

\* MUTANT of Enter: the lock file is taken from whoever has it.
EnterAnyway(c) ==
    LET f == Here(c)
        d == [call[c] EXCEPT !.snap[f] = disk[f]]
    IN
    /\ At(c, "enter")
    /\ lock' = [lock EXCEPT ![f] = c]
    /\ Continue(c, IF d.kind = "cross" THEN NextFile(d, "enter", Back(d, "apply"))
                   ELSE [d EXCEPT !.at = "apply", !.k = 1, !.ir = None])
    /\ UNCHANGED <<disk, pushed, before, committed, torn, unrestored>>

\* Transaction.__enter__: lock and snapshot.  A cross-file operation enters all of
\* its files before it edits the first.
Enter(c) ==
    LET f == Here(c)
        d == [call[c] EXCEPT !.snap[f] = disk[f]]
    IN
    /\ At(c, "enter")
    /\ lock[f] = None
    /\ lock' = [lock EXCEPT ![f] = c]
    /\ Continue(c, IF d.kind = "cross" THEN NextFile(d, "enter", Back(d, "apply"))
                   ELSE [d EXCEPT !.at = "apply", !.k = 1, !.ir = None])
    /\ UNCHANGED <<disk, pushed, before, committed, torn, unrestored>>

\* MUTANT of Refused: the transactions opened so far are left open.
RefusedLeaving(c) ==
    /\ At(c, "enter")
    /\ lock[Here(c)] # None
    /\ End(c, "raised")
    /\ UNCHANGED <<disk, lock, pushed, before, committed, torn, unrestored>>

\* MUTANT of Refused: a caller waits for the lock.
RefusedNever(c) ==
    /\ At(c, "enter")
    /\ lock[Here(c)] # None
    /\ FALSE
    /\ UNCHANGED vars

\* MUTANT of Refused: the caller closes what it has opened and begins again.
RefusedRetrying(c) ==
    /\ At(c, "enter")
    /\ lock[Here(c)] # None
    /\ lock' = [f \in Files |-> IF lock[f] = c THEN None ELSE lock[f]]
    /\ Continue(c, [Back(call[c], "parse") EXCEPT !.snap = Nothing])
    /\ UNCHANGED <<disk, pushed, before, committed, torn, unrestored>>

\* "Another transaction is in progress": a RuntimeError.  _rollback_opened() closes
\* the transactions of the cross-file operation; a batch stops where it is.
Refused(c) ==
    /\ At(c, "enter")
    /\ lock[Here(c)] # None
    /\ IF call[c].kind = "cross" /\ call[c].n > 1
         THEN Continue(c, [call[c] EXCEPT !.at = "rollback", !.n = @ - 1,
                                          !.outcome = "raised"])
         ELSE End(c, "raised")
    /\ UNCHANGED <<disk, lock, pushed, before, committed, torn, unrestored>>

\* An OSError out of __enter__, after or before the lock: nobody closes what is
\* open, until the exception and its traceback are dropped.
OpenFails(c) ==
    /\ At(c, "enter")
    /\ lock[Here(c)] = None
    /\ \/ lock' = [lock EXCEPT ![Here(c)] = c]
       \/ UNCHANGED lock
    /\ Continue(c, [call[c] EXCEPT !.at = "leaving", !.outcome = "raised"])
    /\ UNCHANGED <<disk, pushed, before, committed, torn, unrestored>>

\* The transactions that are still open go with the frame or the traceback, and their
\* descriptors with them; the lock files that stay are stale and do not count.
Collect(c) ==
    /\ At(c, "leaving")
    /\ lock' = [f \in Files |-> IF lock[f] = c THEN None ELSE lock[f]]
    /\ End(c, call[c].outcome)
    /\ UNCHANGED <<disk, pushed, before, committed, torn, unrestored>>

\* _release_lock() removes the lock file, whoever made it.
Unlock(f) == lock' = [lock EXCEPT ![f] = None]

GiveUp(c, f) ==
    unrestored' = IF before[c] = None THEN unrestored ELSE unrestored \cup {f}

\* MUTANT of Restored: the file is left as it is.
RestoredNot(c, f) == disk

\* rollback(): the snapshot, if there is still one.
Restored(c, f) == IF Inside(c, f) THEN [disk EXCEPT ![f] = call[c].snap[f]] ELSE disk

\* What a roll back goes on with: _rollback_all() and _rollback_opened() with the file
\* before this one; a failed operation of a batch with an undo stack and more than one
\* file with the pre_contents.
AfterRollback(c, d, locks) ==
    IF d.kind = "cross" /\ d.n > 1 THEN [d EXCEPT !.n = @ - 1]
    ELSE IF /\ d.kind = "batch" /\ d.outcome = "failed"
            /\ c \in Undoers /\ Len(d.files) > 1
         THEN Back(d, "rewrite")
    ELSE IF \E f \in Files : locks[f] = c THEN [d EXCEPT !.at = "leaving"]
    ELSE Ended(d.outcome)

\* rollback() of one file: the one transaction of a batch that is open, and each of a
\* cross-file operation, the committed ones too.  Nothing is restored through a symlink.
Rollback(c) ==
    LET f == Here(c)
        d == [call[c] EXCEPT !.snap[f] = None]
    IN
    /\ At(c, "rollback")
    /\ \/ disk' = Restored(c, f) /\ UNCHANGED unrestored
       \/ Inside(c, f) /\ UNCHANGED disk /\ GiveUp(c, f)
    /\ Unlock(f)
    /\ Continue(c, AfterRollback(c, d, lock'))
    /\ UNCHANGED <<pushed, before, committed, torn>>

\* rollback() raises before it releases the lock: the snapshot cannot be copied back,
\* or not be removed.  A cross-file operation swallows that and goes on; from a batch
\* the exception goes up in place of BatchOpFailedError.
RollbackFails(c) ==
    LET f == Here(c)
        d == [call[c] EXCEPT !.snap[f] = None,
                             !.outcome = IF call[c].kind = "batch" THEN "raised" ELSE @]
    IN
    /\ At(c, "rollback") /\ Inside(c, f)
    /\ \/ disk' = Restored(c, f) /\ UNCHANGED unrestored
       \/ \E v \in {disk[f], Partial} : Write(f, v) /\ GiveUp(c, f)
    /\ Continue(c, AfterRollback(c, d, lock))
    /\ UNCHANGED <<lock, pushed, before, committed, torn>>

\* Something raises between __enter__ and commit().
Abandoned(d, outcome) ==
    [d EXCEPT !.at = "rollback", !.outcome = outcome,
              !.n = IF d.kind = "cross" THEN Len(d.files) ELSE @]

-----------------------------------------------------------------------------
\* Phase 3 of the batch.

\* After an operation on the current file: _deregister_ir(), _reparse_ir(), which
\* raises when the file is not complete.
NextOp(d, content) ==
    IF d.k = Len(d.ops[d.files[d.n]]) THEN [d EXCEPT !.at = "write", !.ir = content]
    ELSE [d EXCEPT !.k = @ + 1, !.ir = content]

BatchOp(c, way) ==
    At(c, "apply") /\ call[c].kind = "batch" /\ call[c].ops[Here(c)][call[c].k] = way

\* A handler that changes the objects of the IR: those of the parse result for the
\* first operation, those of an IR that is thrown away for the later ones.
ApplyToObject(c) ==
    LET f == Here(c)
        d == [call[c] EXCEPT !.object[f] = IF call[c].ir = None THEN @ \cup {Edit(c)} ELSE @]
    IN
    /\ BatchOp(c, "object")
    /\ disk[f] # Partial
    /\ Continue(c, NextOp(d, disk[f]))
    /\ UNCHANGED <<disk, lock, pushed, before, committed, torn, unrestored>>

\* A handler that writes the board through commit_raw_content().
ApplyRaw(c) ==
    LET f == Here(c)
        raw == (IF call[c].ir = None THEN call[c].object[f] ELSE call[c].ir) \cup {Edit(c)}
    IN
    /\ BatchOp(c, "raw")
    /\ Write(f, raw)
    /\ Continue(c, NextOp(call[c], raw))
    /\ UNCHANGED <<lock, pushed, before, committed, torn, unrestored>>

\* The gate blocks the operation or its handler raises: BatchOpFailedError.
OpFails(c) ==
    /\ At(c, "apply") /\ call[c].kind = "batch"
    /\ Continue(c, Abandoned(call[c], "failed"))
    /\ UNCHANGED <<disk, lock, pushed, before, committed, torn, unrestored>>

\* MUTANT of Serialize: what the IR parsed last holds.
SerializeLastIR(c) ==
    LET f == Here(c) IN
    /\ At(c, "write")
    /\ Write(f, call[c].ir)
    /\ Go(c, "commit")
    /\ UNCHANGED <<lock, pushed, before, committed, torn, unrestored>>

\* Serialize the parse result, once per file: a board at one stroke (the IR parsed
\* last was never raw_written), a schematic in place, read back and written again.
Serialize(c) ==
    LET f == Here(c) IN
    /\ At(c, "write")
    /\ IF f \in Boards THEN Write(f, call[c].object[f]) /\ Go(c, "commit")
                       ELSE Write(f, Partial) /\ Go(c, "writing")
    /\ UNCHANGED <<lock, pushed, before, committed, torn, unrestored>>

\* The end of writing a schematic, in a batch or in a cross-file operation.
FinishWriting(c) ==
    LET f == Here(c) IN
    /\ At(c, "writing")
    /\ Write(f, call[c].object[f])
    /\ IF call[c].kind = "batch" THEN Go(c, "commit")
       ELSE Continue(c, NextFile(call[c], "apply", Back(call[c], "commit")))
    /\ UNCHANGED <<lock, pushed, before, committed, torn, unrestored>>

\* commit() of the current file's transaction.
Commit(c) ==
    /\ Unlock(Here(c))
    /\ committed' = [committed EXCEPT ![c] = @ \cup {Here(c)}]

CommitFile(c) ==
    LET d == [call[c] EXCEPT !.snap[Here(c)] = None] IN
    /\ At(c, "commit") /\ call[c].kind = "batch"
    /\ Commit(c)
    /\ Continue(c, IF c \in Undoers THEN [d EXCEPT !.at = "push"]
                   ELSE NextFile(d, "enter", Ended("ok")))
    /\ UNCHANGED <<disk, pushed, before, torn, unrestored>>

\* MUTANT of PushFile: the content before the operations is read after them.
PushFileAhead(c) ==
    LET f == Here(c) IN
    /\ At(c, "push") /\ call[c].kind = "batch"
    /\ pushed' = [pushed EXCEPT ![f] = Append(@, [pre |-> disk[f], post |-> disk[f]])]
    /\ Continue(c, NextFile(call[c], "enter", Ended("ok")))
    /\ UNCHANGED <<disk, lock, before, committed, torn, unrestored>>

\* The undo entry of the file, with what the file holds by now.
PushFile(c) ==
    LET f == Here(c) IN
    /\ At(c, "push") /\ call[c].kind = "batch"
    /\ pushed' = [pushed EXCEPT ![f] =
                     Append(@, [pre |-> call[c].pre[f], post |-> disk[f]])]
    /\ Continue(c, NextFile(call[c], "enter", Ended("ok")))
    /\ UNCHANGED <<disk, lock, before, committed, torn, unrestored>>

\* MUTANT of Rewrite: only the files that come after the first.
RewriteLate(c) ==
    /\ At(c, "rewrite")
    /\ IF call[c].n > 1 THEN Write(Here(c), call[c].pre[Here(c)]) ELSE UNCHANGED disk
    /\ Continue(c, NextFile(call[c], "rewrite", Ended("failed")))
    /\ UNCHANGED <<lock, pushed, before, committed, torn, unrestored>>

\* execute_batch() after BatchOpFailedError: every file of the batch gets its
\* pre_contents back, the untouched ones too, without a lock.  A write that fails is
\* logged.
Rewrite(c) ==
    LET f == Here(c) IN
    /\ At(c, "rewrite")
    /\ \/ Write(f, call[c].pre[f]) /\ UNCHANGED unrestored
       \/ \E v \in {disk[f], Partial} : Write(f, v) /\ GiveUp(c, f)
    /\ Continue(c, NextFile(call[c], "rewrite", Ended("failed")))
    /\ UNCHANGED <<lock, pushed, before, committed, torn>>

-----------------------------------------------------------------------------
\* The cross-file operation.

\* The handler and the serializers edit the file, or leave it: a board at one
\* stroke, a schematic in place.
EditFile(c) ==
    LET f == Here(c)
        d == [call[c] EXCEPT !.object[f] = @ \cup {Edit(c)}, !.dirty = @ \cup {f}]
        After(e) == NextFile(e, "apply", Back(e, "commit"))
    IN
    /\ CrossAt(c, "apply")
    /\ \/ Continue(c, After(call[c])) /\ UNCHANGED disk
       \/ /\ f \in Boards
          /\ Write(f, d.object[f])
          /\ Continue(c, After(d))
       \/ /\ f \notin Boards
          /\ Write(f, Partial)
          /\ Continue(c, [d EXCEPT !.at = "writing"])
    /\ UNCHANGED <<lock, pushed, before, committed, torn, unrestored>>

\* The handler or a serializer raises; a batch that fails so is not "stopped and
\* rolled back", the exception goes up.
EditFails(c) ==
    /\ At(c, "writing") \/ At(c, "write") \/ CrossAt(c, "apply")
    /\ Continue(c, Abandoned(call[c], "raised"))
    /\ UNCHANGED <<disk, lock, pushed, before, committed, torn, unrestored>>

\* AtomicOperation.commit(), one transaction; then the undo entries, for those files
\* that were edited.
CommitOne(c) ==
    LET d == [call[c] EXCEPT !.snap[Here(c)] = None] IN
    /\ CrossAt(c, "commit")
    /\ Commit(c)
    /\ Continue(c, NextFile(d, "commit",
                     IF c \in Undoers THEN Back(d, "push") ELSE Ended("ok")))
    /\ UNCHANGED <<disk, pushed, before, torn, unrestored>>

PushOne(c) ==
    LET f == Here(c) IN
    /\ CrossAt(c, "push")
    /\ pushed' = IF f \notin call[c].dirty THEN pushed
                 ELSE [pushed EXCEPT ![f] =
                          Append(@, [pre |-> call[c].pre[f], post |-> disk[f]])]
    /\ Continue(c, NextFile(call[c], "push", Ended("ok")))
    /\ UNCHANGED <<disk, lock, before, committed, torn, unrestored>>

\* The file cannot be read back, with its transaction committed: the call raises, and
\* the entry is missing.
ReadBackFails(c) ==
    /\ At(c, "push")
    /\ call[c].kind = "batch" \/ Here(c) \in call[c].dirty
    /\ End(c, "raised")
    /\ UNCHANGED <<disk, lock, pushed, before, committed, torn, unrestored>>

\* The snapshot cannot be removed: commit() raises, with the snapshot still there and
\* the lock still taken, and __exit__ or _rollback_all() rolls back.
CommitFails(c) ==
    LET cross == call[c].kind = "cross" IN
    /\ At(c, "commit")
    /\ Continue(c, Abandoned(call[c], IF cross THEN "failed" ELSE "raised"))
    /\ torn' = IF cross /\ committed[c] # {} THEN torn \cup {c} ELSE torn
    /\ UNCHANGED <<disk, lock, pushed, before, committed, unrestored>>

-----------------------------------------------------------------------------
\* What a call goes on with, whatever happens in it.
Step(c) ==
    \/ Parse(c) \/ Reject(c) \/ Capture(c)
    \/ Enter(c) \/ Refused(c) \/ OpenFails(c) \/ Collect(c)
    \/ Rollback(c) \/ RollbackFails(c)
    \/ ApplyToObject(c) \/ ApplyRaw(c) \/ OpFails(c) \/ Serialize(c) \/ FinishWriting(c)
    \/ CommitFile(c) \/ PushFile(c) \/ Rewrite(c)
    \/ EditFile(c) \/ EditFails(c) \/ CommitOne(c) \/ PushOne(c) \/ CommitFails(c)
    \/ ReadBackFails(c)

Next == \E c \in Callers : ExecuteBatch(c) \/ ExecuteCrossFile(c) \/ Step(c)

Spec == Init /\ [][Next]_vars

-----------------------------------------------------------------------------
\* The type of every variable; a call that is on works on one of its files.
TypeOK ==
    /\ disk \in [Files -> Contents]
    /\ lock \in [Files -> Callers \cup {None}]
    /\ call \in [Callers -> Calls]
    /\ \A c \in Callers : Active(c) => call[c].n \in DOMAIN call[c].files
    /\ pushed \in [Files -> Seq([pre : Contents, post : Contents])]
    /\ before \in [Callers -> [Files -> Contents] \cup {None}]
    /\ committed \in [Callers -> SUBSET Files]
    /\ torn \subseteq Callers
    /\ unrestored \subseteq Files

\* Whoever is inside the transaction of a file owns its lock file, so nobody else is
\* let in.  Rolling back a transaction that is committed already ends that: it removes a
\* lock file that may be another caller's by then.
LocksRespected ==
    torn = {} => \A c \in Callers, f \in Files : Inside(c, f) => lock[f] = c

\* A call that is over has given its locks back, also those of the files that it had
\* opened when the next one was refused, or whose roll back failed.
LocksReturned == \A c \in Callers, f \in Files : lock[f] = c => Active(c)

Ends(c, outcome) == Active(c) /\ call'[c].at = "done" /\ call'[c].outcome = outcome
Alone(c) == before[c] # None
Cross(c) == call[c].kind = "cross"

Fails(c) == Ends(c, "failed") \/ Ends(c, "raised")

\* XFILE-01: a cross-file operation that does not succeed, whichever of its steps
\* failed, the commit of a file included, leaves every file as it was but those it had
\* committed by then and those whose own roll back failed, as long as nobody else is at
\* work.  It had committed none unless a commit failed after another one, or all were
\* committed and one could not be read back for its undo entry.
CrossFileAllOrNothing ==
    [][\A c \in Callers :
          Cross(c) /\ Alone(c) /\ Fails(c) =>
              /\ \A f \in Files :
                    disk'[f] # before[c][f] => f \in committed[c] \cup unrestored'
              /\ committed[c] # {} => c \in torn \/ At(c, "push")]_vars

\* D-08: a batch that does not succeed leaves every file as it was but those it could
\* not give their content back, as long as nobody else is at work.  What it had
\* committed stays, unless one of its operations failed and there is an undo stack.
FailedOpUndone ==
    [][\A c \in Callers :
          ~Cross(c) /\ Alone(c) /\ Fails(c) =>
              \A f \in Files :
                  disk'[f] # before[c][f] =>
                      \/ f \in unrestored'
                      \/ f \in committed[c] /\ (Ends(c, "raised") \/ c \notin Undoers)]_vars

\* "If Nth commit fails, rollback all N-1 already-committed Transactions"
\* (crossfile/atomic.py:20) and "Stop-and-rollback on first op failure (no more partial
\* mutation)" (batch_executor.py:299): a call that reports failure has left every file as
\* it was, if no roll back failed.
FailureUndone ==
    [][\A c \in Callers :
          Alone(c) /\ Ends(c, "failed") /\ unrestored' = {} => disk' = before[c]]_vars

\* The edits that are lost are only those of the later operations on a file: a batch
\* that succeeds holds the first edit of every file if it is one of the objects, a
\* cross-file operation all it made, and nobody's edits are lost with them.
SuccessKept ==
    [][\A c \in Callers :
          Alone(c) /\ Ends(c, "ok") =>
              \A i \in DOMAIN call[c].files :
                  LET f == call[c].files[i] IN
                  /\ before[c][f] \subseteq disk'[f]
                  /\ Cross(c) /\ f \in call[c].dirty => <<c, 1>> \in disk'[f]
                  /\ ~Cross(c) /\ call[c].ops[f][1] = "object" => <<c, 1>> \in disk'[f]]_vars

\* "applies all mutations" (batch_executor.py:75): a batch that succeeds has made
\* every edit it was asked for.
AllMutationsApplied ==
    [][\A c \in Callers :
          ~Cross(c) /\ Alone(c) /\ Ends(c, "ok") =>
              \A i \in DOMAIN call[c].files :
                  LET f == call[c].files[i] IN
                  \A k \in DOMAIN call[c].ops[f] : <<c, k>> \in disk'[f]]_vars

\* The undo entry of a successful call takes the file from what it was to what it is.
EntriesTellTheStep ==
    [][\A c \in Undoers :
          Alone(c) /\ Ends(c, "ok") =>
              \A f \in Files :
                  disk'[f] # before[c][f] =>
                      /\ pushed'[f] # <<>>
                      /\ pushed'[f][Len(pushed'[f])] = [pre |-> before[c][f], post |-> disk'[f]]]_vars

\* What is left of a call: its way to the end, the files, the way through one file of a
\* batch, the operations on it.
Rank == [parse |-> 11, capture |-> 10, enter |-> 9, apply |-> 8, write |-> 7,
         writing |-> 6, commit |-> 5, push |-> 4, rollback |-> 3, rewrite |-> 2,
         leaving |-> 1, done |-> 0]

\* A batch goes from enter to push once for each file, a cross-file operation from
\* apply to writing.
Stage(kind, point) ==
    IF kind = "batch" /\ Rank[point] \in Rank.push..Rank.enter THEN Rank.enter
    ELSE IF point \in {"write", "writing"} THEN Rank.apply
    ELSE Rank[point]

FilesToGo(d) == IF d.at = "rollback" THEN d.n ELSE Len(d.files) - d.n
OpsToGo(d) == IF d.at = "apply" THEN Len(d.ops[d.files[d.n]]) - d.k ELSE 0
ToGo(d) == <<Stage(d.kind, d.at), FilesToGo(d), Rank[d.at], OpsToGo(d)>>

\* Why every call ends: whatever fails in a call and whoever interferes, each of its
\* steps takes it nearer its end, and nobody else's step moves it at all.
CallsGoOn ==
    [][\A c \in Callers :
          IF Step(c) THEN Below(ToGo(call'[c]), ToGo(call[c]))
          ELSE Active(c) => call'[c] = call[c]]_vars

\* Two calls that take the same files in opposite order do not wait for each other:
\* wherever a call is and whoever has the locks, it has a next step.  With CallsGoOn, every
\* call ends whose thread runs.
NobodyWaits == \A c \in Callers : Active(c) => ENABLED Step(c)
=============================================================================
