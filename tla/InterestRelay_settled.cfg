SPECIFICATION Spec
CONSTANTS
    a = a
    b = b
    c = c
    d = d
    Node = {a, b, c, d}
    NoNode = NoNode
    Level = Level
    Centrality = Centrality
    Standings <- Settled
    Requests <- TwoAsk
    MaxLoad = 4
    MaxDigests = 0
CHECK_DEADLOCK FALSE
INVARIANTS
    DataClimbs
    PendingDataOnce
