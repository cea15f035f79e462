------------------------- MODULE MCFileTransaction -------------------------
(***************************************************************************)
(* Two processes on one file with one more inode than processes, two       *)
(* versions of the content: enough for a process to meet a live owner, a    *)
(* crashed owner's leftover, and its own earlier attempt.                   *)
(***************************************************************************)
EXTENDS FileTransactionGuard
=============================================================================
