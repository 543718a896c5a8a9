SPECIFICATION Spec
CONSTANTS
    a = a
    b = b
    c = c
    d = d
    Node = {a, b, c}
    NoNode = NoNode
    Level = Level
    Centrality = Centrality
    Standings <- Turning
    Requests <- OneAsks
    MaxLoad = 3
    MaxDigests = 1
CHECK_DEADLOCK FALSE
PROPERTIES
    ProviderStaysKnown
