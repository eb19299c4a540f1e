CONSTANTS
  MatrixA <- One
  MatrixB <- One
  Ten = 10
SPECIFICATION Spec
INVARIANTS
  ChainIsAwaited
CHECK_DEADLOCK FALSE
