CONSTANTS
    Processes = {1}
    MaxSequence = 1
    MaxAttempts = 2
    MaxWrites = 2
    PathKinds = {"qualified", "bare"}
    IoFaults = FALSE
SPECIFICATION Spec
INVARIANT
    ErrorMeansUntouched
