SPECIFICATION MCSpec
CONSTANTS
  MaxRestarts = 2
  MaxSwResets = 1
  FrameMax = 3
  FifoMax = 2
  TickMax = 1
  IdleInTime = TRUE
  HeapStart = 2
  HeapLimit = 16
  Increments <- MCIncrements
CHECK_DEADLOCK FALSE
INVARIANTS
  HandlersReady
  AtMostOneAhead
  BlocksApart
PROPERTIES
  ComesUp
  HandlerOwnsFrame
  NothingStays
