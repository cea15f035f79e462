------------------------ MODULE FileTransactionGuard ------------------------
(***************************************************************************)
(* FileTransaction implements GuardedFile: a process is inside from its     *)
(* snapshot until it commits, has restored the file or gives up.            *)
(***************************************************************************)
EXTENDS FileTransaction

Inside == {"body", "writing", "written", "restore", "restoring"}

inside == {p \in Procs : pc[p] \in Inside}
saved == [p \in Procs |-> IF pc[p] \in Inside THEN snap[p] ELSE None]

Guard == INSTANCE GuardedFile WITH doc <- disk, lost <- robbed

\* D-08 to D-10, H-04: whatever system calls of several processes, failures and
\* crashes lie between, the file is only changed from inside a transaction, no two
\* are inside, and a roll back restores what the file was at its __enter__; until a
\* lock file has been removed under its owner.
ImplementsGuard == Guard!Spec

=============================================================================
