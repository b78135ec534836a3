SPECIFICATION Spec
CONSTANTS
  Requests = {r1, r2}
  Workers = {w1, w2}
  NoRequest = NoRequest
  ScriptsRoute = FALSE
  ScriptsThrow = FALSE
INVARIANT ApplicationOutlivesHandlers
CHECK_DEADLOCK FALSE
