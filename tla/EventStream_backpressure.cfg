SPECIFICATION Spec
CONSTANTS
  c1 = c1
  c2 = c2
  s1 = s1
  s2 = s2
  None = None
  Free = Free
  Conns <- MCConns
  Sources <- MCSources
  RingSize = 1
  QueueSize = 3
  TailSpan = 100
  Sizes = {1}
  Kinds = {"output", "result"}
  MaxEvents = 3
  MaxConnects = 1
  MaxReloads = 0
  MaxFails = 1
  MaxMisses = 0
SYMMETRY Symmetry
CHECK_DEADLOCK FALSE
INVARIANTS TypeOK OwnerNoDuplicate OwnerComplete InOrder
