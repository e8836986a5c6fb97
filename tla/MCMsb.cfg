CONSTANTS
    L1 = 3
    N1 = 8
    LP = 7
    YbBound = 3
    YbShares = {0, 5}
    One = 2
    XShares = {11}
    AnswerMasks = {6}
    Seeds = {3, 252}
    FactorRows <- MCFactorRows
SPECIFICATION Spec
INVARIANTS
    SignIsShared
    ComparesMask
    OneZero
    MocConverts
