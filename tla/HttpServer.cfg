SPECIFICATION Spec
CONSTANTS
  Handles = {h1, h2}
  Conns = {c1, c2}
  Workers = {w1}
  HeaderSizes = {1}
  BodySizes = {0, 1}
  HandlersMayThrow = TRUE
  NoHandle = NoHandle
  NoConn = NoConn
SYMMETRY ServerSymmetry
INVARIANTS
  TypeOK
  PassesExclude
  SocketsOwned
  PoolTasksAlive
  OneTaskPerConnection
  ListenerOutlivesAccept
PROPERTIES
  ImplementsConnection
CHECK_DEADLOCK FALSE
