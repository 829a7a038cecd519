-------------------------- MODULE MCPortalServices --------------------------
(* PortalServices for TLC: tasks and beacon starts are interchangeable. *)
EXTENDS PortalServices, TLC

Symmetry == Permutations(Tasks) \cup Permutations(Starters)

=============================================================================
