SPECIFICATION Spec
CONSTANTS
    s1 = s1
    s2 = s2
    Server = Server
    Sessions <- TwoSessions
    Contents = {1, 2}
    MaxBlocks = 1
    Reach <- ShortReach
    Headers <- AllHeaders
SYMMETRY Symmetry
INVARIANTS
    AnswersTheOffer
    ClientCanInflate
    ServerCanInflate
