CONSTANTS
  NoSnapshot = NoSnapshot
  MaxIndex = 2
  MaxTerm = 3
SPECIFICATION Spec
CHECK_DEADLOCK FALSE
INVARIANT ReadExact
