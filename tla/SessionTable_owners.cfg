CONSTANTS
  Conns = {a, b}
  Reaper = reaper
  None = none
  MaxObjs = 2
  MaxKids = 2
SPECIFICATION Spec
CHECK_DEADLOCK FALSE
INVARIANTS TypeOK NoLeak OwnerHasSession
PROPERTIES TurnKept CleanedUp
