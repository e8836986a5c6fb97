CONSTANTS
    Size = 4
    Values = {0, 1, 2}
    FRAC = 4
    RING = 512
    Scalars = {0, 1, 5}
SPECIFICATION Spec
INVARIANTS
    NoTieCounts
    WithTieCounts
    PRIsTrapezoid
    NormRoundsDown
