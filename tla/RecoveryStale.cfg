CONSTANTS
    Requests = {1, 2, 3}
    Codes = {c1}
    None = None
    MaxSubmissions = 2
    Dialects = {"returning"}
    Setups <- OldSetups
    Bodies <- OldForms
    MaxInFlight = 2
    MaxConcurrent = 3
SPECIFICATION Spec
PROPERTY
    PassedIsFinal
CHECK_DEADLOCK FALSE
