CONSTANTS
    Owners <- MCOwners
    OwnerOrder <- MCOwnerOrder
    Ids <- MCIds
    Kind <- MCKind
    Library <- MCLibrary
    Slope <- MCSlope
    Resistance <- MCDrive
    InputNets <- MCInputNets
    PortRequired <- MCPortRequired
    Period <- MCPeriod
    Design <- MCDesign
    NetCount = 4
    Deltas <- MCLoadDeltas
    MaxEdits = 2
SPECIFICATION Spec
INVARIANTS
    RowsAlwaysExact
