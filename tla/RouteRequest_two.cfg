SPECIFICATION Spec
CONSTANTS
    a = a
    b = b
    c = c
    d = d
    Node = {a, b, c}
    NoNode = NoNode
    DestinationOnlyNodes = {c}
    RreqRateLimit = 1
    NodeTraversalTime = 1
    NetTraversalTime = 2
    PathDiscoveryTime = 3
    DeletePeriod = 0
    HopDelay = 1
    MaxTime = 4
    MaxRequests <- MCOneEach
    AskedFor <- MCAnyRoute
    Unacked <- MCUnacked
INVARIANTS
    NoRouteToSelf
    HandledOnce
    ReverseRouteIsAPath
    ReverseRouteOutlastsAnswer
PROPERTIES
    FloodsAreTrees
CHECK_DEADLOCK FALSE
