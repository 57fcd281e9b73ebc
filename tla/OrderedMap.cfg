CONSTANTS
    Slots <- MCSlots
    Keys <- MCKeys
    KeyLists <- MCKeyLists
    WorkMaps <- MCWorkMaps
    Faults <- MCFaults
    Parallelisms = {1, 2, 5}
SPECIFICATION FairSpec
INVARIANTS
    OuterBounded
    ResultByKey
PROPERTY
    Terminates
