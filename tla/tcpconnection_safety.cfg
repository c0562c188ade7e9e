CONSTANTS
  Threads = {t1, t2}
  ThreadOps = {"send"}
  LoopOps = {"send", "shutdown", "forceClose", "forceCloseWithDelay", "startRead"}
  Messages = {m1, m2, m3}
  Size <- TwoBytes
  HighWaterMark = 3
  CarefulReads = TRUE
  ServerDies = FALSE
  UseEPoll = TRUE
  MaxQueue = 2
  MaxReceived = 1
SPECIFICATION Spec
INVARIANTS CallbacksOnce ChannelInStep
PROPERTY StreamSafe
SYMMETRY Symmetry
CHECK_DEADLOCK FALSE
