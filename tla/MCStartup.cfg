CONSTANTS
    SCKNUM = 3
    Backlog = 3
    HPort = 10
    CPort = 20
    Arguments <- MCArguments
    DefaultStations = 4
    DefaultSize = 2
SPECIFICATION StartupSpec
INVARIANTS
    SocketsPair
    StreamsClean
    StationsAligned
    MergesStations
PROPERTIES
    ProxiesFinish
