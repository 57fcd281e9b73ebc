CONSTANTS
    Owners <- MCOwners
    OwnerOrder <- MCOwnerOrder
    Ids <- MCIds
    Kind <- MCKind
    Library <- MCLibrary
    Slope <- MCSlope
    Resistance <- MCResistance
    InputNets <- MCInputNets
    PortRequired <- MCPortRequired
    Period <- MCPeriod
    Design <- MCDesign
    NetCount = 4
    Deltas <- MCFlopDeltas
    MaxEdits = 2
SPECIFICATION Spec
INVARIANTS
    ClosureCurrent
