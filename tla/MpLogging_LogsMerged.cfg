SPECIFICATION Spec
CONSTANTS
    NFiles = 2
    NMsgs = 2
    PipeCapacity = 2
INVARIANTS LogsMerged
CHECK_DEADLOCK FALSE
