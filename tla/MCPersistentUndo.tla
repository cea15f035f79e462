-------------------------- MODULE MCPersistentUndo --------------------------
(***************************************************************************)
(* Instances of PersistentUndo for TLC.                                     *)
(***************************************************************************)
EXTENDS PersistentUndo, TLC

\* The path is longer than a safe name: every file has the same one.
SameName == [f \in Files |-> "project"]

\* Addresses, contents and threads are interchangeable.
Symmetry == Permutations(Objects) \cup Permutations(Contents) \cup Permutations(Callers)

\* No property says anything once a pop has bypassed the disk or an entry file
\* was not written: such states are checked and not explored further.
Explored == mishaps \subseteq {"manifest", "load"}

=============================================================================
