SPECIFICATION Spec
CONSTANTS
    a = a
    b = b
    c = c
    d = d
    Node = {a, b, c}
    NoNode = NoNode
    DestinationOnlyNodes = {}
    RreqRateLimit = 2
    NodeTraversalTime = 1
    NetTraversalTime = 2
    PathDiscoveryTime = 3
    DeletePeriod = 1
    HopDelay = 0
    MaxTime = 0
    MaxRequests <- MCTwoAndOne
    AskedFor <- MCAskedOfA
    Unacked = {}
INVARIANTS
    SeqNoAuthentic
    AnswerFreshEnough
PROPERTIES
    SeqNoNeverGoesBack
CHECK_DEADLOCK FALSE
