--------------------------- MODULE CoordinationMC ---------------------------
(* Small instances of Coordination for TLC. *)
EXTENDS Coordination, TLC

Symmetry == Permutations(Process) \cup Permutations(Identity)
=============================================================================
