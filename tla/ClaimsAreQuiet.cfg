\* Two lock processes and one subscriber process, one interest.
SPECIFICATION CoordSpec
CONSTANTS
    Process = {p1, p2}
    Resource = {db}
    Identity = {alice, bob}
    KnownStrategy = {}
    StrategyArg = {Unlinked}
    Unlinked = Unlinked
    NoRow = NoRow
    NoCommand = NoCommand
    MaxLease = 1
    IntHalf = 4
    LeaseArg = {0}
    MaxAttempts = 3
    MaxTime = 0
    MaxCommands = 3
    Subscriber = {c1}
    MaxInterests = 1
SYMMETRY Symmetry
INVARIANT ClaimsAreQuiet
CHECK_DEADLOCK FALSE
