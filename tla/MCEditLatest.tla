---------------------------- MODULE MCEditLatest ----------------------------
(***************************************************************************)
(* EditEngine with a memory of the file that was modified last, to say what *)
(* an undo without a target file is documented to do.                       *)
(***************************************************************************)
EXTENDS EditEngine

VARIABLE latest     \* file of the last push, None once the history has moved

LatestInit == Init /\ latest = None

LatestNext ==
    /\ \E c \in Callers : Start(c) \/ Step(c)
    /\ latest' = IF stack' = stack THEN latest
                 ELSE IF \E c \in Callers : At(c, {"push"}) /\ call'[c] = Idle
                 THEN (CHOOSE f \in Files : \E c \in Callers :
                          At(c, {"push"}) /\ call'[c] = Idle /\ call[c].file = f)
                 ELSE None

LatestSpec == LatestInit /\ [][LatestNext]_<<vars, latest>>

\* "If None, undoes the latest mutation across all files" (ops/executor.py:178)
\* and "when omitted, undoes the most recently modified file"
\* (mcp/edit_server.py:254): right after an operation, an undo without a target
\* file undoes that operation.
UndoTakesLatest ==
    [][\A c \in Callers :
          TakeLatest(c, "undo") /\ latest # None => call'[c].file = latest]_<<vars, latest>>

=============================================================================
