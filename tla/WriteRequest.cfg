SPECIFICATION Spec
CONSTANTS
    ShortString = 2
    InlineBytes = 5
    FullCoalesceLimit = 6
    CoalescePrefix = 4
    PlaintextBatch = 3
    MaximumIOVectors = 2
    Lists <- AllLists
    Payloads = {0, 1, 2, 3}
INVARIANTS
    WholeMessage
    HeldUntilSent
    WritesSomething
\* A request that was written or cancelled takes no more steps.
CHECK_DEADLOCK FALSE
