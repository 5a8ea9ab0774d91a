CONSTANTS
    Sessions = {s1, s2}
    Identities = {i1, i2}
    Requests = {r1, r2, r3}
    None = None
    Destroyer = TRUE
    BatchSize = 1
    Lifespan = 1
    MinTimeLeft = 2
    MaxTime = 1
SYMMETRY Symmetric
SPECIFICATION Spec
INVARIANTS
    TypeOK
    AssuranceIsTheOwners
    SweepIsComplete
PROPERTIES
    ComesBackByStaleLogin
    LostOnlyToStaleWrite
CHECK_DEADLOCK FALSE
