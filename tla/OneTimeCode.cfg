CONSTANTS
    Requests = {r1, r2, r3, r4}
    Codes = {c1, c2}
    None = None
    MaxSubmissions = 2
    MaxAddresses = 2
    Dialects = {"mysql", "returning"}
SYMMETRY Symmetric
SPECIFICATION Spec
INVARIANTS
    TypeOK
    SubmissionBound
    SingleUse
    ReplacedNeverUsed
    AlreadyUsedIsTrue
CHECK_DEADLOCK FALSE
