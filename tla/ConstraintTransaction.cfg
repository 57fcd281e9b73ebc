CONSTANTS
    c1 = c1
    c2 = c2
    Names <- MCNames
    MaxValue = 1
    MaxUid = 2
    MaxRevision = 4
    MaxCheckpoints = 3
    DeleteWhileOpen = FALSE
SPECIFICATION Spec
SYMMETRY MCSymmetry
INVARIANTS
    StacksInLockstep
    RollbackExact
    NamesResolve
    MastersLive
    ReferencesLive
PROPERTIES
    UidsNeverReused
    ObjectsRestored
