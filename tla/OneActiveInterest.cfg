\* Two lock processes and two subscriber processes, two interests.
SPECIFICATION CoordSpec
CONSTANTS
    Process = {p1, p2}
    Resource = {db}
    Identity = {alice, bob}
    KnownStrategy = {}
    StrategyArg = {Unlinked}
    Unlinked = Unlinked
    NoRow = NoRow
    NoCommand = NoCommand
    MaxLease = 1
    IntHalf = 4
    LeaseArg = {0}
    MaxAttempts = 3
    MaxTime = 0
    MaxCommands = 1
    Subscriber = {c1, c2}
    MaxInterests = 2
SYMMETRY Symmetry
INVARIANT OneActiveInterest
CHECK_DEADLOCK FALSE
