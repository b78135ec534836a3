SPECIFICATION Spec
CONSTANTS
  Rows = {r1, r2}
  Arguments <- MCArguments
  Callees <- MCCallees
  Results <- MCResults
  MaxSlots = 8
  MaxCaps = 4
PROPERTY QueryReturnsRow
CHECK_DEADLOCK FALSE
