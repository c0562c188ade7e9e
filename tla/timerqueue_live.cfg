CONSTANTS
  Addrs = {a1, a2}
  Intervals = {0, 1}
  Expirations = {0, 3}
  MaxCreated = 2
  MaxTime = 3
  MaxPending = 1
  StepsBack = FALSE
SPECIFICATION FairSpec
PROPERTY EveryTimerRuns
