CONSTANTS
    Files <- MCFiles
    L1b <- MCL1b
    Leaps <- MCLeaps
    Made <- MCMade
SPECIFICATION Spec
CHECK_DEADLOCK FALSE
INVARIANTS
    ProductsKept
    TimesExact
    BreakpointExact
