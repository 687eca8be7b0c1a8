SPECIFICATION Spec
CONSTANTS
    w1 = w1
    w2 = w2
    none = none
    NoSocket = none
    Sockets = {w1}
    MaxBackpressure = 3
    Bodies <- MixedBodies
    MaxReads = 2
    MaxSends = 4
INVARIANTS AnsweredOnce NoDataAfterClose QueueBounded
CHECK_DEADLOCK FALSE
