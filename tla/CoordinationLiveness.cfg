\* Two lock processes, fairly scheduled, and one interest.
SPECIFICATION FairCoordSpec
CONSTANTS
    Process = {p1, p2}
    Resource = {db}
    Identity = {alice, bob}
    KnownStrategy = {}
    StrategyArg = {Unlinked}
    Unlinked = Unlinked
    NoRow = NoRow
    NoCommand = NoCommand
    MaxLease = 1
    IntHalf = 4
    LeaseArg = {0, 1}
    MaxAttempts = 3
    MaxTime = 1
    MaxCommands = 2
    Subscriber = {c1}
    MaxInterests = 1
PROPERTY NewsArrives
CHECK_DEADLOCK FALSE
