SPECIFICATION Spec
CONSTANTS
    a = a
    b = b
    c = c
    d = d
    Node = {a, b, c}
    NoNode = NoNode
    Level = Level
    Centrality = Centrality
    Standings <- Turning
    Requests <- Asks
    MaxLoad = 2
    MaxDigests = 1
INVARIANTS
    TypeOK
    SeenHasOneFate
    PendingDataOnce
    OnlyWhatWasAsked
PROPERTIES
    FatesAreFinal
CHECK_DEADLOCK FALSE
