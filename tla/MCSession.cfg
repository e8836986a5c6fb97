CONSTANTS
    BITS = 1
    FRAC = 2
    MAXMUL = 2
    Settings <- MCSettings
SPECIFICATION FairSpec
INVARIANTS
    TypeOK
    FramesAgree
    MasksAgree
    Drained
PROPERTIES
    ImplementsLockstep
    Termination
