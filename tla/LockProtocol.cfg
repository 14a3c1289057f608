\* Two processes, four commands and two attempts: enough to use them up.
SPECIFICATION Spec
CONSTANTS
    Process = {p1, p2}
    Resource = {db}
    Identity = {alice, bob}
    KnownStrategy = {s1}
    StrategyArg = {s1, typo}
    Unlinked = Unlinked
    NoRow = NoRow
    NoCommand = NoCommand
    MaxLease = 5
    IntHalf = 4
    LeaseArg <- OverlongLeaseArg
    MaxAttempts = 2
    MaxTime = 2
    MaxCommands = 4
SYMMETRY Symmetry
INVARIANTS
    TypeOK
    AuditBalance
PROPERTIES
    NoSilentEviction
    RetryOnlyWhenOvertaken
    
    ImplementsLockService
CHECK_DEADLOCK FALSE
