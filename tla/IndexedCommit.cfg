CONSTANTS
    ItemCount = 6
    Parallelisms = {1, 3}
    MinParallelItems = 4
    MinItemsPerWorker = 2
    Faults <- MCFaults
SPECIFICATION FairSpec
INVARIANTS
    InFlightBounded
    AnswerIsComing
    CommitsSerialPrefix
PROPERTY
    Terminates
