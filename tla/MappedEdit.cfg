CONSTANTS
    w1 = w1
    w2 = w2
    Workers <- MCWorkers
    Designs <- MCDesignsInst
    NetNames <- MCNetNames
    CellNames <- MCCellNames
    CellTypes <- MCCellTypes
    AddedArities = {1}
    PlanLimits <- MCPlanLimits
    MaxNets = 4
    MaxCells = 3
    MaxPins = 5
    MaxNames = 12
    DuringTrial = FALSE
    SelfConflicting = FALSE
SPECIFICATION Spec
SYMMETRY MCSymmetry
INVARIANTS
    AlwaysPublishable
    SnapshotsSound
PROPERTIES
    AffectedExact
    RollbackRestores
    PublicationFaithful
CHECK_DEADLOCK FALSE
