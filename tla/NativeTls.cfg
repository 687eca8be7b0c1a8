SPECIFICATION FairSpec
CONSTANTS
    Tls = TRUE
    MaxBackpressure = 2
    Bodies <- PairBodies
    MaxReads = 1
    Sizes = {1, 2}
    MaxSends = 1
INVARIANTS
    PendingBytes
    WritesProgress
PROPERTIES
    ClosingEnds
    ClosedIsFreed
\* A finalized WebSocket takes no more steps.
CHECK_DEADLOCK FALSE
