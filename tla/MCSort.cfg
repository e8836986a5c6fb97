CONSTANTS
    NStation = 5
    Deltas = {0, 1, 2, 5}
    N1 = 3
    MaxLen = 4
    MaxVal = 2
    Label <- MCLabel
    Inputs <- MCInputs
SPECIFICATION FairSpec
INVARIANTS
    TypeOK
    PrefixAbove
    PositionsOrdered
    HeadsExist
    BuffersHold
    ResultSorted
PROPERTIES
    SamplesKept
    ImplementsRunMerge
    Termination
