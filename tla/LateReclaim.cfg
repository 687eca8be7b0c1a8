SPECIFICATION LockSpec
CONSTANTS
    a = a
    b = b
    c = c
    Installers = {a, b, c}
    Host <- TwoHosts
    Absent = Absent
    Ownerless = Ownerless
CHECK_DEADLOCK FALSE
INVARIANTS
    NeverRobbed
