CONSTANTS
  Threads = {t1}
  ThreadOps = {"shutdown"}
  LoopOps = {"send", "forceCloseWithDelay"}
  Messages = {m1}
  Size <- TwoBytes
  HighWaterMark = 3
  CarefulReads = TRUE
  ServerDies = FALSE
  UseEPoll = TRUE
  MaxQueue = 1
  MaxReceived = 1
SPECIFICATION FairSpec
PROPERTY EndsComplete
CHECK_DEADLOCK FALSE
