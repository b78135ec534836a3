SPECIFICATION Spec
CONSTANTS
  Handles = {h1}
  Conns = {c1}
  Workers = {w1}
  HeaderSizes = {1}
  BodySizes = {0, 1}
  HandlersMayThrow = TRUE
  NoHandle = NoHandle
  NoConn = NoConn
INVARIANTS
  HandlerFailureContained
CHECK_DEADLOCK FALSE
