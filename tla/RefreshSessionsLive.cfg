SPECIFICATION FairSpec
CONSTANTS
  Requests = {r1, r2}
  MaxSessions = 1
  MaxTokens = 4
  Handlers = {"login", "refresh", "logoutAll", "resetPassword", "remove", "delete"}
ACTION_CONSTRAINT LastAmongFew
INVARIANTS SweepTakesEffect
PROPERTIES EveryRequestEnds
