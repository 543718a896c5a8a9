SPECIFICATION Spec
CONSTANTS
    a = a
    b = b
    c = c
    Node = {a, b, c}
    MultiHomed = {c}
    Life = 1
    Interval = 1
    Jitter = 0
    Events <- MCEvents
    InitDeposit = 1
    Memory = {0}
    Modulus = 2
    MaxAir = 2
    MaxTime = 3
INVARIANTS
    TypeOK
    PromisedByLastHello
    OneHelloPerExchange
CHECK_DEADLOCK FALSE
