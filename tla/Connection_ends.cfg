CONSTANTS
  QueueSize = 1
  High = 0
  Asks = {r1}
  MaxInbox = 1
SPECIFICATION Spec
CHECK_DEADLOCK FALSE
INVARIANTS TypeOK AnsweredOnce ClientUnderstood
PROPERTIES LeaverDetached NoRequestHangs PutsReturn ShutdownEnds
