---------------------------- MODULE MCTaskQueue ----------------------------
(***************************************************************************)
(* The properties of the task queue that TLC checks on small instances.    *)
(***************************************************************************)
EXTENDS TaskQueue

=============================================================================
