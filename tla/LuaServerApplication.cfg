SPECIFICATION FairSpec
CONSTANTS
  Requests = {r1, r2}
  Workers = {w1, w2}
  NoRequest = NoRequest
  ScriptsRoute = TRUE
  ScriptsThrow = TRUE
INVARIANTS
  TypeOK
  NoLostLuaWakeup
  LuaReferencesAlive
  OneTaskPerRequest
  TasksRunBeforeJoin
PROPERTIES
  LuaAnswers
  ApplicationDestroyed
CHECK_DEADLOCK FALSE
