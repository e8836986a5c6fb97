CONSTANTS
    MAXSAMPLESIZE = 4
    Values = {0, 1, 2}
    SampleSizes <- MCSizes
    Memory <- MCZero
SPECIFICATION Spec
INVARIANTS
    ScoresGenerated
