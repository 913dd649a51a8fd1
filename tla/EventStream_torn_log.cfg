SPECIFICATION Spec
CONSTANTS
  c1 = c1
  c2 = c2
  s1 = s1
  s2 = s2
  None = None
  Free = Free
  Conns <- MCOneConn
  Sources <- MCOneSource
  RingSize = 2
  QueueSize = 3
  TailSpan = 100
  Sizes = {2}
  Kinds = {"output"}
  MaxEvents = 2
  MaxConnects = 3
  MaxReloads = 2
  MaxFails = 0
  MaxMisses = 0
CHECK_DEADLOCK FALSE
INVARIANT ReplaySurvivesRestart
