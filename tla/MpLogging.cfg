SPECIFICATION Spec
CONSTANTS
    NFiles = 2
    NMsgs = 3
    PipeCapacity = 2
CHECK_DEADLOCK FALSE
INVARIANTS
    WrittenBeforeStop
    LinesInOrder
PROPERTIES
    Shutdown
