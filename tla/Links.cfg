SPECIFICATION Spec
CONSTANTS
    Requests = {1, 2, 3, 4}
    Tokens = {1, 2}
    Addresses = {a1, a2}
    None = None
    MaxEvents = 2
    MaxInFlight = 2
SYMMETRY Symmetric
CHECK_DEADLOCK FALSE
INVARIANTS
    TypeOK
    OneEffectPerLink
    VerifiedIsProven
