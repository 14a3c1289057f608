---------------------------- MODULE AdmissionMC ----------------------------
(* A small instance of Admission for TLC. *)
EXTENDS Admission, TLC

\* one table that never grew, one that gained two columns, one that gained one
SmallTableOrder == <<"identities", "locks", "interests">>
SmallEvolvedTable == <<"identities", "locks", "locks">>

Symmetry == Permutations(Process) \cup Permutations(Identity)
=============================================================================
