SPECIFICATION Spec
CONSTANTS
    a = a
    b = b
    c = c
    d = d
    Node = {a, b}
    NoNode = NoNode
    DestinationOnlyNodes = {}
    RreqRateLimit = 1
    NodeTraversalTime = 1
    NetTraversalTime = 2
    PathDiscoveryTime = 2
    DeletePeriod = 1
    HopDelay = 1
    MaxTime = 2
    MaxRequests <- MCThreeByA
    AskedFor <- MCAnyRoute
    Unacked = {}
INVARIANTS
    TypeOK
    NoDiscoveryLost
PROPERTIES
    DeferredGetsSent
CHECK_DEADLOCK FALSE
