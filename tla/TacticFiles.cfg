\* Two processes, two names, flags of every shape, one deletion.
SPECIFICATION TacticSpec
CONSTANTS
    go = go
    rust = rust
    edit = edit
    exec = exec
    Word = {go, rust, edit, exec}
    Blank = Blank
    NotAList = NotAList
    Unreadable = Unreadable
    Process = {p1, p2}
    Flags <- SmallFlags
    NoFile = NoFile
    NoFlags = NoFlags
    MaxRemovals = 1
SYMMETRY Symmetry
INVARIANTS
    TacticTypeOK
    OneCreator
    ReadBack
    NothingFineIsHidden
PROPERTY NothingIsOverwritten
