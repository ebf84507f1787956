SPECIFICATION Spec
CONSTANTS
    Users = {u1, u2}
    Requests = {r1, r2}
    NoStore = NoStore
    Nobody = Nobody
    MaxConversations = 2
    MaxMessages = 2
    MaxClicks = 1
    MaxGone = 1
SYMMETRY Symmetric
INVARIANTS
    TypeOK
    InquiriesOnce
    ReadMeansShown
    ForgottenForGood
PROPERTIES
    PromiseKept
    ContextKept
CHECK_DEADLOCK FALSE
