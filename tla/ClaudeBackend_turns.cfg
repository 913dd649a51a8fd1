SPECIFICATION Spec
CONSTANTS
  Faults = {"exit", "auth"}
  MaxTurns = 2
  MaxLines = 1
CHECK_DEADLOCK FALSE
INVARIANT ReadersCloseOnce
PROPERTIES KillIsNoCrash Lifecycle
