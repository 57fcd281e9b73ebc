CONSTANTS
    Items <- MCItems
    PositionLimit = 4
    Limits = {1}
    Plans <- MCPlans
    Directions = {"Forward"}
    Rows <- MCRows
    Values <- MCValues
    OwnedRows <- MCOwnedRows
    Analyze <- MCAnalyze
    InitialRows <- MCInitialRows
    Activations <- MCActivations
    FaultMaps <- MCFaultMaps
    Parallelisms = {1, 2}
SPECIFICATION FairPubSpec
INVARIANTS
    SnapshotsCurrent
    ClaimsAccounted
    ResultMatchesReference
    EffectsUndo
PROPERTIES
    ImplementsAtomic
    Terminates
