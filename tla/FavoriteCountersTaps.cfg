SPECIFICATION Spec
CONSTANTS
  Requests = {r1, r2, r3}
  Users = {u1}
  Products = {p1}
  Store = Store
  NoUser = NoUser
  RollbackExpires = FALSE
  MaxRows = 3
  Handlers = {"add", "remove"}
SYMMETRY Symmetry
INVARIANTS AddNeverFails
