SPECIFICATION FairSpec
CONSTANTS
  Handles = {h1}
  Conns = {c1}
  Workers = {w1}
  HeaderSizes = {1}
  BodySizes = {0, 1}
  HandlersMayThrow = FALSE
  NoHandle = NoHandle
  NoConn = NoConn
PROPERTIES
  StopHonoured
CHECK_DEADLOCK FALSE
