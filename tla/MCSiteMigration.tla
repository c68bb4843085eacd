-------------------------- MODULE MCSiteMigration --------------------------
(* Instances of SiteMigration: requests handled at the same time are interchangeable. *)
EXTENDS SiteMigration, TLC

Symmetry == Permutations(Handlers)
=============================================================================
