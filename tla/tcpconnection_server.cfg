CONSTANTS
  Threads = {t1}
  ThreadOps = {"stopRead"}
  LoopOps = {"send", "startRead", "stopRead"}
  Messages = {m1, m2}
  Size <- TwoBytes
  HighWaterMark = 3
  CarefulReads = TRUE
  ServerDies = TRUE
  UseEPoll = TRUE
  MaxQueue = 2
  MaxReceived = 1
SPECIFICATION Spec
PROPERTY DestroyedClean
SYMMETRY Symmetry
CHECK_DEADLOCK FALSE
