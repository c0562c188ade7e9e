\* Three threads share a queue with one place; two workers and two callers of
\* run(); two Thread objects; buffers of one line, four of which are too many,
\* one fwrite that fails, and a clock that may be set back;
\* six centuries and the transitions of two dozen zones; one thread with two
\* operands for a line and room for both only if one is short.
CONSTANTS
  QueueThreads = {q1, q2, q3}
  Items = {i1, i2}
  Capacity = 1
  Workers = {1, 2}
  Submitters = {s1, s2}
  Tasks = {t1, t2, t3}
  QueueSizes = {0, 1, 2}
  ThreadObjs = {o1, o2}
  RollSize = 2
  RollPeriod = 2
  FlushInterval = 0
  CheckEveryN = 2
  MaxClock = 2
  MaxFaults = 1
  BufferLines = 1
  DropOver = 3
  MaxLines = 4
  FirstYear = 1900
  LastYear = 2500
  FirstWeekDay = 1
  Sixty = 2
  Zones <- MCZones
  MinTime = 0
  MaxTime = 100
  LogThreads = {g1}
  BufferSize = 16
  MaxNumericSize = 6
  TextSizes = {1, 7}
  Numbers <- MCNumbers
  LogZones = {nozone, here}
  NoZone = nozone
  MaxOperands = 2
  MaxLogSeconds = 2
SPECIFICATION Spec
CHECK_DEADLOCK FALSE
INVARIANTS
  TypeOK
  QueueSound
  PoolSound
  StartHandsOver
  LinesKept
  TextRight
PROPERTY WorkServed
