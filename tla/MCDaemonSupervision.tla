------------------------ MODULE MCDaemonSupervision ------------------------
(***************************************************************************)
(* Instances of DaemonSupervision for TLC.                                  *)
(***************************************************************************)
EXTENDS DaemonSupervision

=============================================================================
