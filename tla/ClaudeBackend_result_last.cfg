SPECIFICATION Spec
CONSTANTS
  Faults = {"auth"}
  MaxTurns = 2
  MaxLines = 2
CHECK_DEADLOCK FALSE
INVARIANT ResultIsLast
