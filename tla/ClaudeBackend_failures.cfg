SPECIFICATION Spec
CONSTANTS
  Faults = {"exit", "raise", "nospawn", "overrun"}
  MaxTurns = 2
  MaxLines = 1
CHECK_DEADLOCK FALSE
INVARIANT TypeOK
PROPERTY Lifecycle
