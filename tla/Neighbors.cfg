SPECIFICATION Spec
CONSTANTS
    p = p
    q = q
    Peer = {p, q}
    InitDeposit = 1
    Delay = 2
    Lifetime = {0, 2}
    Modulus = 2
    MaxTime = 5
    MaxOpen = 2
SYMMETRY Symmetry
INVARIANTS
    TypeOK
    ClosedInTime
    EveryCloseReportedOnce
    NoneLeftMarked
PROPERTIES
    ExpiryNeverMovesBack
    LeasesAreKept
