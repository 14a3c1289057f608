--------------------------- MODULE LockProtocolMC ---------------------------
(* Small instances of LockProtocol for TLC. *)
EXTENDS LockProtocol, TLC

\* -lease: a negative one, none, and two terms of different length
WideLeaseArg == {-1, 0, 1, 2}

\* the same with one term, and one that Go's integers cannot hold
OverlongLeaseArg == {-1, 0, 2, 5}

\* processes and identities are interchangeable in the safety runs
Symmetry == Permutations(Process) \cup Permutations(Identity)
=============================================================================
