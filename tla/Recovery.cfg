CONSTANTS
    Requests = {1, 2, 3, 4}
    Codes = {c1, c2}
    None = None
    MaxSubmissions = 2
    Dialects = {"mysql", "returning"}
    Setups <- MCSetups
    Bodies <- AllBodies
    MaxInFlight = 2
    MaxConcurrent = 3
SYMMETRY Symmetric
SPECIFICATION Spec
INVARIANTS
    TypeOK
    SessionNeedsCode
    PassedIsEarned
    OneRecovery
    OneLiveCode
PROPERTIES
    CodeSpec
CHECK_DEADLOCK FALSE
