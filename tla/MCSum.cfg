SPECIFICATION Spec
CONSTANTS
  Limits = {3}
  MaxWrites = 1
INVARIANTS
  SumFromZero
CHECK_DEADLOCK FALSE
