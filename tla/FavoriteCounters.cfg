SPECIFICATION FairSpec
CONSTANTS
  Requests = {r1, r2}
  Users = {u1}
  Products = {p1}
  Store = Store
  NoUser = NoUser
  RollbackExpires = TRUE
  MaxRows = 3
  Handlers = {"add", "remove", "migrate", "unlist", "leave"}
INVARIANTS TypeOK DriftExplained TapsDoNotDeadlock
PROPERTIES EveryRequestEnds
