\* Two processes on one strategy and on mistyped ids, a log of three events
\* and a recap of at most two.
SPECIFICATION LedgerSpec
CONSTANTS
    Process = {p1, p2}
    Group = {launch}
    NoGroup = NoGroup
    IntHalf = 4
    Name = {"claude", "codex"}
    KindArg = {"step_completed", "resource_usage", "external_signal"}
    LogNote <- TypedNotes
    UsageArg <- ThreeUsages
    NoUsage = NoUsage
    RecentCap = 2
    MaxStrategies = 1
    MaxEvents = 3
    MaxCloses = 2
SYMMETRY Symmetry
INVARIANT HeadingIsTrue
CHECK_DEADLOCK FALSE
