CONSTANTS
    NRecords = 2
    Jobs <- MCJobs
    Inputs <- MCInputs
    WindowStart = 1
    WindowEnd = 5
    MaxDistance = 2
    Offset = 1
    Models <- MCModels
    PhaseWidth = 4
    Bins = 8
    FullCoherence = 7
SPECIFICATION Spec
CHECK_DEADLOCK FALSE
INVARIANT
    BadSlopeRejected
