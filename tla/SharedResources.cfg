CONSTANTS
    m1 = m1
    m2 = m2
    d = d
    r1 = r1
    r2 = r2
    Runs = {r1, r2}
    Masks = {m1, m2}
    Dems = {d}
    Algorithms <- MCAlgorithms
SYMMETRY Symmetry
SPECIFICATION Spec
CHECK_DEADLOCK FALSE
INVARIANTS
    SegmentsSound
    CleanWhenAlone
PROPERTIES
    RaisesOnlyInCompany
