\* Two other threads; delays of 2, 4 and 5, the last one capped.
CONSTANTS
  Threads = {t1, t2}
  kInitRetryDelayMs = 2
  kMaxRetryDelayMs = 5
  Retry = TRUE
  MaxPending = 2
SPECIFICATION FairSpec
INVARIANTS
  OneOwnedAttempt
  KeepsTrying
PROPERTY StopIsFinal
