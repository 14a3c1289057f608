-------------------------- MODULE StrategyLedgerMC --------------------------
(* Small instances of StrategyLedger for TLC. *)
EXTENDS StrategyLedger, TLC

Harness(name) == [key |-> "harness", name |-> name]
Tokens(amount) == [key |-> "tokens", amount |-> amount]
Cost(number) == [key |-> "cost", number |-> number]

\* log-usage: a text that begins with a blank, a harness and a cost after it;
\* a name with a cost after it that cannot be read; and an amount that is
\* refused.  Two amounts of 3 exceed an int64.
ThreeUsages ==
    {[harness |-> [name |-> Empty, rest |-> <<Harness("codex")>>],
      tokens |-> 3, cost |-> TRUE],
     [harness |-> [name |-> "claude", rest |-> <<Cost(FALSE)>>],
      tokens |-> 3, cost |-> FALSE],
     [harness |-> [name |-> "claude", rest |-> <<>>], tokens |-> -1, cost |-> FALSE]}

\* log: a usage line typed by hand, and one with an empty harness
TypedNotes == {<<Tokens(2), Harness("codex")>>, <<Harness(Empty), Tokens(2)>>}

Symmetry == Permutations(Process)
=============================================================================
