---------------------------- MODULE TacticFormat ----------------------------
(***************************************************************************)
(* The frontmatter of a tactic file (tactic.go): Tactic.render writes it,  *)
(* ParseTactic reads it back.                                              *)
(*                                                                         *)
(* A file is a sequence of lines, already trimmed as ParseTactic and       *)
(* parseToolsList trim them: a delimiter, a key with its value, or a line  *)
(* with no colon.  A flag's value is a text: its first line, blank or not, *)
(* with or without spaces around it, and the lines that follow when it has *)
(* line breaks.  Words contain no bracket and no comma, but the first line *)
(* of a tool list that goes on may end in a bracket of its own.  The body  *)
(* of a tactic decides nothing and is one line here.                       *)
(***************************************************************************)
EXTENDS Integers, Sequences

CONSTANTS
    Word,        \* what a value, or an entry of a tool list, may be
    Blank,       \* nothing but spaces
    NotAList,    \* a value of tools that is not in brackets
    Unreadable   \* ParseTactic's error, whichever it is

Scalars == {"name", "capability", "harness"}

(* "other" stands for unknown keys, which are ignored; a line with no key  *)
(* is "---" or, without a colon, "malformed"; empty lines are left out.    *)
Key == Scalars \cup {"tools", "other", "---", "malformed"}

Scalar == Word \cup {Blank}

FileLine == [key : Key, value : Scalar \cup {NotAList} \cup Seq(Scalar)]

FieldText == [word : Scalar, padded : BOOLEAN, rest : Seq(FileLine)]

CreateFlags == [name : FieldText, capability : FieldText, harness : FieldText,
                tools : [entries : Seq(Scalar) \ {<<>>}, closed : BOOLEAN,
                         rest : Seq(FileLine)]]

ASSUME TacticFormatAssumption ==
    /\ {Blank, NotAList} \cap Word = {}
    /\ NotAList \notin Seq(Scalar)

Line(key, value) == [key |-> key, value |-> value]

Delimiter == Line("---", Blank)
Malformed == Line("malformed", Blank)

Fields(n, c, h, t) == [name |-> n, capability |-> c, harness |-> h, tools |-> t]

-----------------------------------------------------------------------------
(* ParseTactic *)

Closing(lines) ==
    CHOOSE i \in 2..Len(lines) :
        lines[i] = Delimiter /\ \A j \in 2..(i - 1) : lines[j] # Delimiter

Delimited(lines) ==
    /\ lines # <<>> /\ lines[1] = Delimiter
    /\ \E i \in 2..Len(lines) : lines[i] = Delimiter

Header(lines) == 2..(Closing(lines) - 1)

With(lines, key) == {i \in Header(lines) : lines[i].key = key}

(* A key that comes twice counts as it came last. *)
Value(lines, key) ==
    lines[CHOOSE i \in With(lines, key) : \A j \in With(lines, key) : j <= i].value

(* What parseToolsList returns without an error: some entries, none empty. *)
IsToolsList(value) == value \in Seq(Word) \ {<<>>}

WellFormed(lines) ==
    \A i \in Header(lines) :
        /\ lines[i].key # "malformed"
        /\ lines[i].key = "tools" => IsToolsList(lines[i].value)

Complete(lines) ==
    /\ \A key \in Scalars : With(lines, key) # {} /\ Value(lines, key) # Blank
    /\ With(lines, "tools") # {}

ParseTactic(lines) ==
    IF Delimited(lines) /\ WellFormed(lines) /\ Complete(lines)
    THEN Fields(Value(lines, "name"), Value(lines, "capability"),
                Value(lines, "harness"), Value(lines, "tools"))
    ELSE Unreadable

-----------------------------------------------------------------------------
(* Tactic.render, of the flags of `tactic create` *)

Text(word, padded, rest) == [word |-> word, padded |-> padded, rest |-> rest]

Plain(word) == Text(word, FALSE, <<>>)

(* A line break inside an entry leaves its line without the closing        *)
(* bracket, unless the text before the break happens to end in one.        *)
ToolsLine(tools) ==
    Line("tools", IF tools.rest = <<>> \/ tools.closed THEN tools.entries ELSE NotAList)

RenderField(key, text) == <<Line(key, text.word)>> \o text.rest

(* Mutant: two fields change places. *)
RenderSwapped(flags) ==
    <<Delimiter>>
      \o RenderField("name", flags.name)
      \o RenderField("capability", flags.harness)
      \o RenderField("harness", flags.capability)
      \o <<ToolsLine(flags.tools)>> \o flags.tools.rest
      \o <<Delimiter, Malformed>>

Render(flags) ==
    <<Delimiter>>
      \o RenderField("name", flags.name)
      \o RenderField("capability", flags.capability)
      \o RenderField("harness", flags.harness)
      \o <<ToolsLine(flags.tools)>> \o flags.tools.rest
      \o <<Delimiter, Malformed>>

(* cmdTacticCreate refuses an empty entry of the list, and no other value  *)
(* that is not the empty string.                                           *)
Accepted(flags) == \A i \in DOMAIN flags.tools.entries : flags.tools.entries[i] # Blank

(* Flags that a file can hold: one line each, and nothing to trim. *)
Storable(text) == text.word # Blank /\ ~text.padded /\ text.rest = <<>>

AllStorable(flags) ==
    /\ \A key \in Scalars : Storable(flags[key])
    /\ flags.tools.rest = <<>> /\ Accepted(flags)

Asked(flags) ==
    Fields(flags.name.word, flags.capability.word, flags.harness.word, flags.tools.entries)
=============================================================================
