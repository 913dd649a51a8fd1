SPECIFICATION Spec
CONSTANTS
  Faults = {"exit", "handshake", "auth", "raise", "overrun"}
  MaxTurns = 2
  MaxLines = 1
CHECK_DEADLOCK FALSE
INVARIANTS TypeOK ChildClosesItsTurn ResultIsOwn InterruptedOnRequest OneConversation
PROPERTY Lifecycle
