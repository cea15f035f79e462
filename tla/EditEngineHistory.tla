-------------------------- MODULE EditEngineHistory --------------------------
(***************************************************************************)
(* EditEngine, one call at a time, implements DocumentHistory: a call under *)
(* way has not happened yet, and happens at its last step.                  *)
(***************************************************************************)
EXTENDS EditEngine

\* The caller that is busy with f, when there is one.
Busy(f) == \E c \in Callers : call[c].file = f
Worker(f) == CHOOSE c \in Callers : call[c].file = f

\* A move of f that is not finished: its entry is on the other stack already.
Moving(f, way) == Busy(f) /\ call[Worker(f)].way = way

\* The document of a file in a call is the content the call found.
doc == [f \in Files |-> IF Busy(f) THEN call[Worker(f)].pre ELSE disk[f]]

\* A stack before the unfinished move.
Unmoved(f, way) ==
    CASE Moving(f, way) -> Append(stack[way][f], call[Worker(f)].entry)
      [] Moving(f, Other(way)) -> Front(stack[way][f])
      [] OTHER -> stack[way][f]

past == [f \in Files |-> Unmoved(f, "undo")]
future == [f \in Files |-> Unmoved(f, "redo")]

Promise == INSTANCE DocumentHistory WITH doc <- doc, past <- past, future <- future

\* Each call of the engine is one step of DocumentHistory or none: execute() an
\* Edit, undo() and redo() an Undo and a Redo, a failed call nothing at all or
\* one of the three ways document and history may come apart.
ImplementsHistory == Promise!Spec

=============================================================================
