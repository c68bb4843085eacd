-------------------------- MODULE MCMigrationTarget --------------------------
(* Instances of MigrationTarget: requests handled at the same time are interchangeable. *)
EXTENDS MigrationTarget, TLC

AllOperations == {"retry", "confirm", "abandon", "abandonActivated", "delete"}
Symmetry == Permutations(Admins)
=============================================================================
