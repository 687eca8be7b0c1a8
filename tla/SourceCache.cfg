SPECIFICATION FairSpec
CONSTANTS
    a = a
    b = b
    c = c
    Installers = {a, b, c}
    Host <- OneHost
    Absent = Absent
    Ownerless = Ownerless
CHECK_DEADLOCK FALSE
INVARIANTS
    Exclusion
    RobbedOnlyAfterRelease
    CacheIsWhole
    BuildsWhole
PROPERTIES
    StaleLockGoes
