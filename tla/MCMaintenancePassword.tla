------------------------ MODULE MCMaintenancePassword ------------------------
(***************************************************************************)
(* Instances of the password verification for TLC.                         *)
(***************************************************************************)
EXTENDS MaintenancePassword, TLC

\* Request ids and passwords are compared for equality only.
Symmetry == Permutations(Requests) \cup Permutations(Passwords)

=============================================================================
