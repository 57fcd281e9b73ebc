CONSTANTS
    c1 = c1
    c2 = c2
    Names <- MCNames
    MaxValue = 1
    MaxUid = 3
    MaxRevision = 4
    MaxCheckpoints = 2
    DeleteWhileOpen = TRUE
SPECIFICATION Spec
SYMMETRY MCSymmetry
INVARIANT
    ReferencesLive
