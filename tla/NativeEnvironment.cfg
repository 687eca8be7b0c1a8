SPECIFICATION FairSpec
CONSTANTS
    s1 = s1
    s2 = s2
    c1 = c1
    c2 = c2
    Sessions = {s1, s2}
    Contexts = {c1, c2}
    Connections <- ServerNames
    Callbacks = {"none", "logs"}
    Multiplex = "multiplex"
    MaxStarts = 2
INVARIANTS
    PointersLive
    EnvironmentLast
    RegistryExact
    NodeHears
PROPERTIES
    ThreadEnds
\* No thread is started for ever.
CHECK_DEADLOCK FALSE
