SPECIFICATION Spec
CONSTANTS
  c1 = c1
  c2 = c2
  s1 = s1
  s2 = s2
  None = None
  Free = Free
  Conns <- MCOneConn
  Sources <- MCOneSource
  RingSize = 1
  QueueSize = 8
  TailSpan = 100
  Sizes = {1}
  Kinds = {"output"}
  MaxEvents = 3
  MaxConnects = 2
  MaxReloads = 0
  MaxFails = 0
  MaxMisses = 0
CHECK_DEADLOCK FALSE
INVARIANT NoSilentLoss
