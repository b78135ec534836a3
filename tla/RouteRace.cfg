SPECIFICATION Spec
CONSTANTS
  Requests = {r1, r2}
  Workers = {w1, w2}
  NoRequest = NoRequest
  ScriptsRoute = TRUE
  ScriptsThrow = FALSE
INVARIANT RoutesThreadSafe
CHECK_DEADLOCK FALSE
