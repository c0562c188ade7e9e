\* Two foreign threads, three functors, one I/O channel besides the eventfd;
\* poll() is not assumed to time out.
CONSTANTS
  Threads = {t1, t2}
  Functors = {f1, f2, f3}
  Channels = {c1}
  WakeupChannel = wakeupChannel
SPECIFICATION FairSpec
INVARIANTS
  TypeOK
  NoLostWakeup
PROPERTIES
  FifoOnce
  LoopResponds
  EveryFunctorRuns
