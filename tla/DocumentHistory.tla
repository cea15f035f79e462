--------------------------- MODULE DocumentHistory ---------------------------
(***************************************************************************)
(* What the edit engine promises about its files, with every call atomic:  *)
(* a document per file and a bounded history of (pre, post) pairs with a    *)
(* cursor, past before it and future after it.                             *)
(*                                                                         *)
(* The three promised operations tie the history to the document: an edit   *)
(* records exactly the change of the document, undo and redo write exactly  *)
(* the recorded content.  The other three say, as narrowly as the code      *)
(* allows, how document and history may come apart.                        *)
(***************************************************************************)
EXTENDS UndoStack

CONSTANTS Files, Contents

VARIABLES doc, past, future

docVars == <<doc, past, future>>

Init ==
    /\ doc \in [Files -> Contents]
    /\ past = [f \in Files |-> <<>>]
    /\ future = [f \in Files |-> <<>>]

\* A successful operation: one new entry, from the document as it was to the
\* document as it is; the future is gone.
Edit(f) ==
    \E v \in Contents :
        /\ doc' = [doc EXCEPT ![f] = v]
        /\ past' = [past EXCEPT ![f] = Appended(@, [pre |-> doc[f], post |-> v])]
        /\ future' = [future EXCEPT ![f] = <<>>]

StepBack(f) ==
    /\ past[f] # <<>>
    /\ past' = [past EXCEPT ![f] = Front(@)]
    /\ future' = [future EXCEPT ![f] = Appended(@, Last(past[f]))]

StepForward(f) ==
    /\ future[f] # <<>>
    /\ future' = [future EXCEPT ![f] = Front(@)]
    /\ past' = [past EXCEPT ![f] = Appended(@, Last(future[f]))]

Undo(f) == StepBack(f) /\ doc' = [doc EXCEPT ![f] = Last(past[f]).pre]
Redo(f) == StepForward(f) /\ doc' = [doc EXCEPT ![f] = Last(future[f]).post]

\* The document changes and the history does not: another program saved the
\* file, or a call failed after its write.
Disturb(f) ==
    /\ \E v \in Contents : doc' = [doc EXCEPT ![f] = v]
    /\ UNCHANGED <<past, future>>

\* The history moves and the document does not: an undo or redo refused after
\* its entry was popped.
Slip(f) == (StepBack(f) \/ StepForward(f)) /\ UNCHANGED doc

\* The process ended: the files stay, the history is gone, and the file being
\* written holds whatever had reached it.
Restart ==
    /\ past' = [f \in Files |-> <<>>]
    /\ future' = [f \in Files |-> <<>>]
    /\ \/ UNCHANGED doc
       \/ \E f \in Files, v \in Contents : doc' = [doc EXCEPT ![f] = v]

Next ==
    \/ \E f \in Files : Edit(f) \/ Undo(f) \/ Redo(f) \/ Disturb(f) \/ Slip(f)
    \/ Restart

Spec == Init /\ [][Next]_docVars

=============================================================================
