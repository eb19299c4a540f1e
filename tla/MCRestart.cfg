SPECIFICATION Spec
CONSTANTS
  Limits = {1, 3}
  MaxWrites = 1
PROPERTIES
  NewLimitRestarts
CHECK_DEADLOCK FALSE
