CONSTANTS
    MAXSAMPLESIZE = 4
    Values = {0, 1, 2}
    SampleSizes <- MCSizes
    Memory <- MCMemory
SPECIFICATION Spec
INVARIANTS
    SortTypeOK
    OrderedAcross
    ListsReady
    GreatestKept
    FreshIsExact
PROPERTIES
    OnlySwaps
