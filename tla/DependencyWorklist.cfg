CONSTANTS
    ItemCount = 4
    Items <- MCItems
    PositionLimit = 4
    Limits = {0, 1, 2}
    Plans <- MCPlans
    Directions = {"Forward", "Reverse"}
SPECIFICATION FairSpec
INVARIANTS
    TypeOK
    UnresolvedExact
    ReadyExact
    NoEarlyRelease
    LeastPendingIsReady
    NoCorruptionReported
PROPERTY
    ScheduledCompletes
