---------------------------- MODULE MCMaintenance ----------------------------
(***************************************************************************)
(* Instances of the maintenance window for TLC.                            *)
(***************************************************************************)
EXTENDS Maintenance

=============================================================================
