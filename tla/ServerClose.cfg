SPECIFICATION FairSpec
CONSTANTS
    w1 = w1
    w2 = w2
    none = none
    NoSocket = none
    Sockets = {w1, w2}
    MaxBackpressure = 1
    Bodies <- PingBodies
    MaxReads = 1
    MaxSends = 0
INVARIANTS ServerClosesOnce SessionsDisposed
PROPERTIES ServerCloses
CHECK_DEADLOCK FALSE
