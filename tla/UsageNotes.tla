----------------------------- MODULE UsageNotes -----------------------------
(***************************************************************************)
(* The notes of resource_usage events (strategy.go): what `strategy        *)
(* log-usage` writes, what parseResourceUsageNote reads back, and what     *)
(* `strategy usage` adds up.                                               *)
(*                                                                         *)
(* A note is the sequence of its blank-separated fields.  Whether a cost   *)
(* can be read matters; what the costs sum up to decides nothing.          *)
(***************************************************************************)
EXTENDS GoInt, Sequences

CONSTANT Name     \* texts without a blank, other than the empty one

Empty == ""

ASSUME UsageNotesAssumption == Empty \notin Name

HarnessValue == Name \cup {Empty}

(* key=value; the key "" is a field with no equals sign, "other" an        *)
(* unknown key.  Amounts that no int64 holds stand for every text that     *)
(* ParseInt refuses; a cost is a number for ParseFloat or it is not.       *)
Field == [key : {"harness"}, name : HarnessValue] \cup [key : {"tokens"}, amount : Int]
            \cup [key : {"cost"}, number : BOOLEAN] \cup [key : {"", "other"}]

Note == Seq(Field)

(* -harness may be any text but "": what comes before its first blank,     *)
(* which is nothing when it begins with one, and the fields after that.    *)
HarnessArg == [name : HarnessValue, rest : Note]

(* The flags of log-usage; cost: is there one, other than zero? *)
UsageFlags == [harness : HarnessArg, tokens : (-IntHalf)..(IntHalf - 1), cost : BOOLEAN]

(* resourceUsageNote; a cost that was formatted can always be read. *)
ResourceUsageNote(flags) ==
    <<[key |-> "harness", name |-> flags.harness.name]>> \o flags.harness.rest
        \o <<[key |-> "tokens", amount |-> flags.tokens]>>
        \o IF flags.cost THEN <<[key |-> "cost", number |-> TRUE]>> ELSE <<>>

(* Fields that parseResourceUsageNote does not refuse by themselves. *)
Legible(field) ==
    \/ field.key = "harness"
    \/ field.key = "tokens" /\ field.amount \in 0..(IntHalf - 1)
    \/ field.key = "cost" /\ field.number

(* The variables p and seen of parseResourceUsageNote, and whether it has  *)
(* met an error.                                                           *)
Unparsed == [ok |-> TRUE, harness |-> Empty, tokens |-> 0, seen |-> {}]

Assign(p, field) ==
    [p EXCEPT !.harness = IF field.key = "harness" THEN field.name ELSE @,
              !.tokens = IF field.key = "tokens" THEN field.amount ELSE @,
              !.seen = @ \cup {field.key}]

(* Mutant: a field that cannot be read is passed over. *)
ParseFieldSkipping(p, field) == IF Legible(field) THEN Assign(p, field) ELSE p

(* One round of the loop over the fields. *)
ParseField(p, field) ==
    IF p.ok /\ Legible(field) THEN Assign(p, field) ELSE [p EXCEPT !.ok = FALSE]

ParseResourceUsageNote(note) ==
    LET parsed[n \in 0..Len(note)] ==
            IF n = 0 THEN Unparsed ELSE ParseField(parsed[n - 1], note[n])
        p == parsed[Len(note)]
    IN  [p EXCEPT !.ok = @ /\ "harness" \in p.seen /\ p.harness # Empty
                           /\ "tokens" \in p.seen]

(* t.tokens += p.Tokens: one event's part in the total of a harness. *)
AddUsage(total, note, name) ==
    LET p == ParseResourceUsageNote(note)
    IN  IF p.ok /\ p.harness = name THEN Wrap(total + p.tokens) ELSE total

-----------------------------------------------------------------------------
(* For the statement of properties: what a note says when it is looked at  *)
(* as a whole.                                                             *)

Fields(note, key) == {i \in DOMAIN note : note[i].key = key}

(* A field given twice counts as given last. *)
Last(note, key) ==
    note[CHOOSE i \in Fields(note, key) : \A j \in Fields(note, key) : j <= i]

(* The note is a usage line of that harness. *)
SpeaksOf(note, name) ==
    /\ \A i \in DOMAIN note : Legible(note[i])
    /\ Fields(note, "harness") # {} /\ Fields(note, "tokens") # {}
    /\ Last(note, "harness").name = name /\ name # Empty

(* What the flags of log-usage are booked under: the text of -harness up   *)
(* to its first blank or, if the words after it all can be read, the last  *)
(* harness named among them.                                               *)
Booked(harness, name) ==
    LET rest == harness.rest
        naming == {i \in DOMAIN rest : rest[i].key = "harness"}
    IN  /\ \A i \in DOMAIN rest : Legible(rest[i])
        /\ \/ naming = {} /\ name = harness.name
           \/ \E i \in naming : rest[i].name = name /\ \A j \in naming : j <= i
        /\ name # Empty
==============================================================================
