SPECIFICATION Spec
CONSTANTS
  c1 = c1
  c2 = c2
  s1 = s1
  s2 = s2
  None = None
  Free = Free
  Conns <- MCOneConn
  Sources <- MCOneSource
  RingSize = 2
  QueueSize = 2
  TailSpan = 4
  Sizes = {1, 2}
  Kinds = {"result", "init"}
  MaxEvents = 3
  MaxConnects = 2
  MaxReloads = 2
  MaxFails = 0
  MaxMisses = 1
CHECK_DEADLOCK FALSE
INVARIANTS RingIsNewest EventSeqUnique TurnsCounted OwnerComplete
