SPECIFICATION Spec
CONSTANTS
  Slash = 47
  Methods = {"GET", "POST"}
  Paths <- MCPaths
  Routes <- MCRoutes
  Files = {"index.html"}
  Nodes = {n1, n2}
  NoNode = NoNode
  FileOf <- MCFileOf
  Outside = Outside
  Bytes = {"a"}
  MaxSize = 1
  MaxCalls = 4
INVARIANTS
  TypeOK
  LongestRouteFound
  SerializerOrder
  AnswersWellFormed
  SentAsRead
PROPERTY
  FileAnswered
CHECK_DEADLOCK FALSE
