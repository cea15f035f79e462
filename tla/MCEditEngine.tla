---------------------------- MODULE MCEditEngine ----------------------------
(***************************************************************************)
(* Instances of EditEngine for TLC: one caller that makes one call after    *)
(* another, and two callers whose calls overlap.                            *)
(***************************************************************************)
EXTENDS EditEngineHistory

\* Two callers of which every step succeeds: no outside save, no failure, no
\* undo and no crash.
Operation(c) ==
    \/ \E f \in Files : Execute(c, f)
    \/ Parse(c) \/ Enter(c) \/ Refuse(c) \/ AtomicWrite(c) \/ Commit(c)
    \/ ReadPost(c) \/ Push(c)

OperationsOnly == Init /\ [][\E c \in Callers : Operation(c)]_vars

=============================================================================
