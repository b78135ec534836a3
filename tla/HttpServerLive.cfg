SPECIFICATION FairSpec
CONSTANTS
  Handles = {h1}
  Conns = {c1}
  Workers = {w1, w2}
  HeaderSizes = {2}
  BodySizes = {0, 2}
  HandlersMayThrow = FALSE
  NoHandle = NoHandle
  NoConn = NoConn
INVARIANTS
  ResponseInOrder
PROPERTIES
  RequestReleased
  IdleConnectionLeaves
  StopReturns
CHECK_DEADLOCK FALSE
