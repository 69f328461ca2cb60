CONSTANTS
    NR = 3
    NC = 4
    Voids <- MCVoids
    Rates <- MCRates
    Queries <- MCQueries
    Bounds <- MCBounds
    Directories <- MCDirectories
    ChunkWidths = {1, 2, 4}
    Surface <- MCSurface
    Basins <- MCBasins
    MaxConversions = 2
    MaxGone = 2
SPECIFICATION Spec
CHECK_DEADLOCK FALSE
INVARIANTS
    ValuesExact
    LoadedComplete
    SegmentSound
PROPERTIES
    LoadSucceeds
