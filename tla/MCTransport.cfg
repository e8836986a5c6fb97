CONSTANTS
    a = a
    b = b
    Peer <- MCPeer
    Capacity = 2
    Scripts <- MCScripts
SPECIFICATION FairSpec
INVARIANTS
    WholeMessages
    CountersWithin
PROPERTIES
    EndsWithPeers
