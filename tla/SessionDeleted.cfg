CONSTANTS
    Sessions = {s1}
    Identities = {i1}
    Requests = {r1, r2}
    None = None
    Destroyer = FALSE
    BatchSize = 1
    Lifespan = 2
    MinTimeLeft = 1
    MaxTime = 0
SPECIFICATION Spec
PROPERTY
    DeletedStaysDeleted
CHECK_DEADLOCK FALSE
