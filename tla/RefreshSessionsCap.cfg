SPECIFICATION Spec
CONSTANTS
  Requests = {r1, r2}
  MaxSessions = 1
  MaxTokens = 4
  Handlers = {"login", "refresh", "logout", "logoutAll", "setPassword", "suspend", "reactivate"}
INVARIANT TenSessions
