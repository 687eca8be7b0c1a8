SPECIFICATION Spec
CONSTANTS
    Tls = FALSE
    MaxBackpressure = 2
    Bodies <- PairBodies
    MaxReads = 2
    Sizes = {1, 2}
    MaxSends = 3
INVARIANTS
    TypeOK
    AnsweredOnce
    LooksForItsOwn
    BackpressureBounded
    BackpressureIsTold
    FreedOnce
    HandshakeLosesNothing
    NoDataAfterClose
\* A finalized WebSocket takes no more steps.
CHECK_DEADLOCK FALSE
