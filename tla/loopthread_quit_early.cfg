CONSTANTS
  Owner = owner
  Threads = {owner}
  Functors = {f1}
  Channels = {}
  WakeupChannel = wakeupChannel
  SelfQuit = FALSE
SPECIFICATION ThreadFairSpec
\* Once the destructor has returned nothing is left to happen.
CHECK_DEADLOCK FALSE
PROPERTY DestructorReturns
