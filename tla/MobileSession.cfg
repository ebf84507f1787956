SPECIFICATION Spec
CONSTANTS
    Tasks = {k1, k2}
    MaxTokens = 3
    MaxKills = 1
    MaxCalls = 2
SYMMETRY Symmetric
INVARIANTS
    TypeOK
    OutForCause
    NothingLeft
    SessionsAccounted
CHECK_DEADLOCK FALSE
