--------------------------- MODULE MCDoorStation ---------------------------
(* DoorStation for TLC: the callers of Pulse are interchangeable. *)
EXTENDS DoorStation, TLC

Symmetric == Permutations(Callers)

=============================================================================
