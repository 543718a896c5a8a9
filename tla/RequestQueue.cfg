SPECIFICATION Spec
CONSTANTS
    u = u
    v = v
    x = x
    y = y
    Uid = {u, v}
    Dst = {x, y}
    Limit = {1, 2}
    Timeout = {0, 1}
    MaxTime = 3
    MaxAccepted = 4
SYMMETRY Symmetry
INVARIANTS
    TypeOK
    NoPacketQueuedTwice
    EveryPacketEndsOnce
    WithinLimitUnlessUndercut
PROPERTIES
    DequeueInOrderAndInTime
