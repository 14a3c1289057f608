\* Three processes racing for one resource under two identities.
SPECIFICATION Spec
CONSTANTS
    Process = {p1, p2, p3}
    Resource = {db}
    Identity = {alice, bob}
    KnownStrategy = {s1}
    StrategyArg = {s1, typo}
    Unlinked = Unlinked
    NoRow = NoRow
    NoCommand = NoCommand
    MaxLease = 2
    IntHalf = 4
    LeaseArg <- WideLeaseArg
    MaxAttempts = 3
    MaxTime = 2
    MaxCommands = 3
SYMMETRY Symmetry
PROPERTY ForcedReleaseIsLogged
CHECK_DEADLOCK FALSE
