CONSTANTS
    W = 7
    FRAC = 2
    Operands <- MCOperands
    Ratios <- MCRatios
    Shares = {0, 37}
    Masks = {5, 90}
SPECIFICATION Spec
INVARIANTS
    MuxSelects
    MulRounds
    NormDivides
