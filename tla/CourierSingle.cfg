SPECIFICATION Spec
CONSTANTS
    w1 = w1
    w2 = w2
    Workers <- OneWorker
    NumMessages = 3
    PullCount = 2
    MaxRetries = 1
    Smtp = {1, 3}
    Http = {2}
    BadRecipients = {3}
    Cockroach = FALSE
    FailOnDispatchError = FALSE
    MaxFaults = 2
INVARIANTS
    DeliveredOnce
PROPERTIES
    SentIsFinal
