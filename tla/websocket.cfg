CONSTANTS
  Sizes = {0, 1, 2}
  Limit16 = 2
  Limit64 = 3
  MaxMessage = 4
  ClientFrames = 2
  ServerFrames = 1
  ClientPings = 1
  ServerPings = 0
  Concurrent = FALSE
SPECIFICATION Spec
INVARIANTS  MessagesIntact
CHECK_DEADLOCK FALSE
