SPECIFICATION Spec
CONSTANTS
  Rows = {r1, r2, r3}
  Arguments <- MCArguments
  Callees <- MCCallees
  Results <- MCResults
  MaxSlots = 8
  MaxCaps = 4
INVARIANTS
  TypeOK
  RowUsable
  ClosedCleanly
  ValuesKeepSlots
PROPERTY TaskFindsTables
CHECK_DEADLOCK FALSE
