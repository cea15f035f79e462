--------------------------- MODULE MCMultiFileEdits ---------------------------
(***************************************************************************)
(* Instances of MultiFileEdits for TLC.                                     *)
(***************************************************************************)
EXTENDS MultiFileEdits

=============================================================================
