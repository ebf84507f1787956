SPECIFICATION Spec
CONSTANTS
    Requests = {r1, r2}
    Codes = {c1, c2, taken}
    Foreign = taken
    MaxTime = 3
    MaxRequests = 5
SYMMETRY Symmetric
INVARIANTS
    TypeOK
    ConsumedOnce
    PaidShown
    OneActive
    DeletedIsInert
CHECK_DEADLOCK FALSE
