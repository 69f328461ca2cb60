SPECIFICATION Spec
CONSTANTS
    NumRecords = 2
    Latitudes <- TrackLatitudes
    TrackStep = 6
    Modes = {"LRM", "SIN", "SAR", "invalid"}
    Surfaces = {0, 1, 2, 3, 4}
    Options <- OneOption
    Chains <- AllLists
CHECK_DEADLOCK FALSE
INVARIANTS
    KeysInOrder
    TideOnce
    RecordsSound
