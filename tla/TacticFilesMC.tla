--------------------------- MODULE TacticFilesMC ---------------------------
(* A small instance of TacticFiles for TLC. *)
EXTENDS TacticFiles, TLC

CONSTANTS go, rust, edit, exec

FlagsOf(name, capability, tools) ==
    [name |-> name, capability |-> capability, harness |-> Plain(go), tools |-> tools]

ToolsOf(entries, closed, rest) == [entries |-> entries, closed |-> closed, rest |-> rest]

Tools == ToolsOf(<<edit, exec>>, FALSE, <<>>)

\* what is stored as it is, under two names; a blank value; a value whose
\* further line is a delimiter, or a field; a tool list with an empty entry,
\* and one that goes on after a bracket of its own
SmallFlags ==
    {FlagsOf(Plain(go), Plain(rust), Tools),
     FlagsOf(Plain(rust), Plain(rust), Tools),
     FlagsOf(Plain(go), Text(Blank, TRUE, <<>>), Tools),
     FlagsOf(Plain(go), Text(rust, FALSE, <<Delimiter>>), Tools),
     FlagsOf(Plain(go), Text(rust, TRUE, <<Line("name", rust)>>), Tools),
     FlagsOf(Plain(go), Plain(rust), ToolsOf(<<edit, Blank>>, FALSE, <<>>)),
     FlagsOf(Plain(go), Plain(rust), ToolsOf(<<edit>>, TRUE, <<Line("harness", rust)>>))}

Symmetry == Permutations(Process)
=============================================================================
