CONSTANTS
    Changes = {c1, c2}
    Requests = {r1, r2}
    a0 = a0
    a1 = a1
    a2 = a2
    Addresses = {a0, a1, a2}
    First = a0
    None = None
    Proposals <- MCProposals
    Isolations = {"serializable", "readCommitted"}
    MaxEvents = 2
    MaxInFlight = 2
SYMMETRY Symmetric
SPECIFICATION Spec
INVARIANTS
    TypeOK
    UnprovenNeverTakesEffect
    VerifiedIsProven
    PassedIsEarned
    RowsFollowTraits
PROPERTIES
    AppliesToItsBase
    
CHECK_DEADLOCK FALSE
