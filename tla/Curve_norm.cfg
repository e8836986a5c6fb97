CONSTANTS
    Size = 3
    Values = {0, 1}
    FRAC = 4
    RING = 512
    Scalars = {0, 1}
SPECIFICATION Spec
INVARIANTS
    NormAssumption
