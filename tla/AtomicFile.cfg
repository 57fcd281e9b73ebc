CONSTANTS
    Processes = {1, 2}
    MaxSequence = 1
    MaxAttempts = 2
    MaxWrites = 2
    PathKinds = {"qualified"}
    IoFaults = TRUE
SPECIFICATION Spec
INVARIANTS
    TargetIntact
    ConfirmedDurable
    NothingLeftBehind
