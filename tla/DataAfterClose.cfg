SPECIFICATION Spec
CONSTANTS
    ShortHeader = 6
    MediumHeader = 8
    LongHeader = 14
    ShortMax = 2
    MediumMax = 3
    MaxPayload = 0
    UIntMax = 6
    Deflate = TRUE
    Wires <- CompressedPair
    MaxSends = 0
PROPERTIES
    IgnoresDataAfterClose
CHECK_DEADLOCK FALSE
