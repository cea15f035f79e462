------------------------------ MODULE UndoStack ------------------------------
(***************************************************************************)
(* The bounded, per-file deques of volta.ops.undo_stack.UndoStack, as       *)
(* operators on sequences whose last element is the top of the stack.       *)
(*                                                                         *)
(* _undo and _redo are dictionaries from a path to a deque.  A file without *)
(* a key and a file with an empty deque answer every method alike, so the   *)
(* deques are total functions; the insertion order of the keys, which only  *)
(* pop_latest_undo and pop_latest_redo read, is kept beside them.           *)
(***************************************************************************)
EXTENDS Naturals, SequencesExt

CONSTANT MaxUndo    \* deque maxlen, KICAD_UNDO_MAX_SIZE

ASSUME MaxUndoPositive == MaxUndo \in Nat \ {0}

\* The two stacks; undo and redo do the same thing in opposite directions.
Ways == {"undo", "redo"}
Other(way) == IF way = "undo" THEN "redo" ELSE "undo"

\* UndoEntry: the two contents; paths, op types and mtimes decide nothing.
Entry(C) == [pre : C, post : C]

\* The content a move writes: undo goes back to pre, redo forward to post.
Target(way, e) == IF way = "undo" THEN e.pre ELSE e.post

\* deque.append with maxlen: a full deque drops its oldest element.
Appended(dq, e) == IF Len(dq) < MaxUndo THEN Append(dq, e) ELSE Append(Tail(dq), e)

\* A dictionary keeps the position of a key it already has.
WithKey(keys, f) == IF Contains(keys, f) THEN keys ELSE Append(keys, f)

\* dict.pop(f, None).
WithoutKey(keys, f) ==
    IF Contains(keys, f)
    THEN RemoveAt(keys, CHOOSE i \in 1..Len(keys) : keys[i] = f)
    ELSE keys

\* for resolved, dq in self._undo.items(): if dq: the first file, in insertion
\* order of the keys, whose deque is not empty.
FirstWithEntries(keys, dqs, f) ==
    \E i \in DOMAIN keys :
        /\ keys[i] = f
        /\ dqs[f] # <<>>
        /\ \A j \in 1..(i - 1) : dqs[keys[j]] = <<>>

\* What undo and redo of one file hold together, oldest mutation first.
Timeline(u, r) == u \o Reverse(r)

=============================================================================
