SPECIFICATION Spec
CONSTANTS
    w1 = w1
    w2 = w2
    Workers <- OneWorker
    NumMessages = 1
    PullCount = 1
    MaxRetries = 1
    Smtp = {1}
    Http = {}
    BadRecipients = {}
    Cockroach = FALSE
    FailOnDispatchError = FALSE
    MaxFaults = 0
INVARIANTS
    NoRetryAfterReject
