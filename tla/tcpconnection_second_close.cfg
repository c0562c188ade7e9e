CONSTANTS
  Threads = {}
  ThreadOps = {}
  LoopOps = {"stopRead", "forceClose"}
  Messages = {m1}
  Size <- TwoBytes
  HighWaterMark = 3
  CarefulReads = TRUE
  ServerDies = FALSE
  UseEPoll = TRUE
  MaxQueue = 1
  MaxReceived = 1
SPECIFICATION Spec
INVARIANT CallbacksOnce
CHECK_DEADLOCK FALSE
