SPECIFICATION FairSpec
CONSTANTS
  Workers = {w1, w2}
  Submitters = {s1, s2}
  Owner = owner
  Tasks = {t1, t2, t3}
  NoTask = NoTask
  NoThread = NoThread
INVARIANTS
  TypeOK
  NoLostWakeup
  NoSleeperAfterStop
  DrainedOnDestruction
PROPERTIES
  ImplementsExecutor
  DestructorReturns
CHECK_DEADLOCK FALSE
