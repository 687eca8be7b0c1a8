SPECIFICATION FairSpec
CONSTANTS
    ShortHeader = 2
    MediumHeader = 3
    LongHeader = 4
    ShortMax = 2
    MediumMax = 3
    MaxPayload = 4
    UIntMax = 6
    Deflate = TRUE
    Wires <- AllStreams
    MaxSends = 1
INVARIANTS
    TipIsControlFrame
    MemoryBounded
    StaysInRead
    NothingAfterClose
PROPERTIES
    ImplementsMessageStream
    AllFramesJudged
\* A closed session, and one whose peer sent everything, take no more steps.
CHECK_DEADLOCK FALSE
