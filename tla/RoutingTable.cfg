SPECIFICATION Spec
CONSTANTS
    x = x
    y = y
    eth = eth
    Node = {x, y}
    NoNode = NoNode
    Interface = {eth}
    NoInterface = NoInterface
    BadLinkLifetime = 1
    BlacklistTimeout = 1
    Lifetime <- MCLifetime
    MaxTime = 2
SYMMETRY Symmetry
INVARIANTS
    TypeOK
    HeldWithEntry
    NoRouteThroughLostHop
PROPERTIES
    ForgottenOnlyAfterDown
CHECK_DEADLOCK FALSE
