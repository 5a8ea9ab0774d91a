SPECIFICATION Spec
CONSTANTS
    w1 = w1
    w2 = w2
    Workers <- TwoWorkers
    NumMessages = 2
    PullCount = 2
    MaxRetries = 0
    Smtp = {1, 2}
    Http = {}
    BadRecipients = {}
    Cockroach = FALSE
    FailOnDispatchError = FALSE
    MaxFaults = 1
SYMMETRY Symmetry
INVARIANTS
    TypeOK
    SendCountBound
    DeliveriesAreCounted
    AbandonedForCause
    ProcessingIsHeld
    EveryAttemptIsRecorded
