CONSTANTS
  NFiles = 3
  NAlgs = 2
  MaxProcs = 2
SPECIFICATION Spec
INVARIANTS
    ProcessesInHand
    TallyExact
    MpAccounted
    Verdict
    StopsOnError
    SuccessIsComplete
PROPERTIES
    ProcessedOnce
    Termination
    KeepsLedger
