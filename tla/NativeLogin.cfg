CONSTANTS
    Requests = {1, 2, 3, 4}
    MaxEvents = 2
    MaxInFlight = 2
SPECIFICATION Spec
INVARIANTS
    TypeOK
    RedirectLeadsToSession
    AnsweredThroughApp
    PendingShowsError
CHECK_DEADLOCK FALSE
