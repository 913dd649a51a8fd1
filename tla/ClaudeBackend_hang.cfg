SPECIFICATION Spec
CONSTANTS
  Faults = {"raise"}
  MaxTurns = 1
  MaxLines = 2
CHECK_DEADLOCK FALSE
PROPERTY NoTurnHangs
