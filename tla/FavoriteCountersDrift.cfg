SPECIFICATION Spec
CONSTANTS
  Requests = {r1, r2}
  Users = {u1, u2}
  Products = {p1}
  Store = Store
  NoUser = NoUser
  RollbackExpires = TRUE
  MaxRows = 2
  Handlers = {"add", "remove"}
SYMMETRY Symmetry
INVARIANTS CountIsFavorites
