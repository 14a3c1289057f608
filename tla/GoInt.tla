-------------------------------- MODULE GoInt --------------------------------
(* Go's int64, whose sums and products wrap around without a word.         *)
EXTENDS Integers

CONSTANT IntHalf    \* 2^63: an int64 is in -IntHalf .. IntHalf - 1

ASSUME GoIntAssumption == IntHalf \in Nat \ {0}

Wrap(n) == IF n \in (-IntHalf)..(IntHalf - 1) THEN n
           ELSE ((n + IntHalf) % (2 * IntHalf)) - IntHalf
==============================================================================
