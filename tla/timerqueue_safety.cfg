\* Three timers at two addresses.
CONSTANTS
  Addrs = {a1, a2}
  Intervals = {0, 1}
  Expirations = {0, 2}
  MaxCreated = 3
  MaxTime = 2
  MaxPending = 1
  StepsBack = TRUE
SPECIFICATION Spec
SYMMETRY Symmetry
INVARIANTS
  TypeOK
  IndexesAgree
  PointersOwned
  TimersKept
