CONSTANTS
  Owner = owner
  Threads = {owner}
  Functors = {f1, f2}
  Channels = {}
  WakeupChannel = wakeupChannel
  SelfQuit = TRUE
SPECIFICATION ThreadFairSpec
\* Once the destructor has returned nothing is left to happen.
CHECK_DEADLOCK FALSE
INVARIANTS
  LoopShared
  OutlivesThreadFunc
PROPERTIES
  StartAndStopEnd
