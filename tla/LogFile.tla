------------------------------ MODULE LogFile ------------------------------
(***************************************************************************)
(* muduo::LogFile and FileUtil::AppendFile as AsyncLogging uses them: one  *)
(* thread appends, so mutex_ is NULL.  A file is named after the second it *)
(* was opened in; stdio keeps what was not flushed; the clock may be set   *)
(* back.  Sizes are counted in lines.                                      *)
(***************************************************************************)
EXTENDS Integers, Sequences, FiniteSets, SequencesExt

CONSTANTS
  RollSize,      \* rollSize_
  RollPeriod,    \* kRollPerSeconds_
  FlushInterval, \* flushInterval_
  CheckEveryN,   \* checkEveryN_
  MaxClock,      \* bound: seconds
  MaxFaults      \* bound: calls of fwrite that write less than they should

ASSUME ClockAssumption == MaxClock \in Nat

ASSUME LogFileAssumption ==
  /\ RollSize \in Int /\ RollPeriod \in Nat \ {0} /\ FlushInterval \in Int
  /\ CheckEveryN \in Nat \ {0} /\ MaxFaults \in Nat

VARIABLES
  clock,   \* the wall clock
  onDisk,  \* per second: the file opened then, what of it left stdio
  stdio,   \* file_: lines in the buffer of its FILE
  written, \* file_->writtenBytes()
  logCount, \* count_
  startOfPeriod, lastRoll, lastFlush,
  lost,    \* history: lines a failed fwrite left out
  faults   \* history: failed calls

logFileVars == <<onDisk, stdio, written, logCount, startOfPeriod, lastRoll,
                 lastFlush, lost, faults>>

Seconds == 1..MaxClock

LogFileTypeOK ==
  /\ clock \in Seconds /\ lastRoll \in Seconds
  /\ onDisk \in [Seconds -> Seq(Nat)]
  /\ stdio \in Seq(Nat)
  /\ written \in Nat
  /\ logCount \in 0..CheckEveryN-1
  /\ startOfPeriod \in {0} \cup Seconds
  /\ lastFlush \in Seconds
  /\ lost \subseteq Nat /\ faults \in 0..MaxFaults

PeriodOf(now) == (now \div RollPeriod) * RollPeriod

\* The constructor's rollFile() opens the first file.
LogFileInit ==
  /\ clock \in Seconds
  /\ onDisk = [t \in Seconds |-> <<>>]
  /\ stdio = <<>> /\ written = 0 /\ logCount = 0
  /\ startOfPeriod = PeriodOf(clock)
  /\ lastRoll = clock /\ lastFlush = clock
  /\ lost = {} /\ faults = 0

\* fflush(), or fclose() by the destructor, of a FILE that holds out.
FlushOut(out) ==
  /\ onDisk' = [onDisk EXCEPT ![lastRoll] = @ \o out]
  /\ stdio' = <<>>

Flush ==
  /\ FlushOut(stdio)
  /\ UNCHANGED <<written, logCount, startOfPeriod, lastRoll, lastFlush, lost,
                 faults>>

KeepFile(out, size) ==
  /\ stdio' = out /\ written' = size
  /\ UNCHANGED <<onDisk, startOfPeriod, lastRoll, lastFlush>>

\* rollFile() when file_ holds out; size is its writtenBytes().
RollFile(out, size) ==
  IF clock > lastRoll
    THEN /\ FlushOut(out) /\ written' = 0
         /\ lastRoll' = clock /\ lastFlush' = clock
         /\ startOfPeriod' = PeriodOf(clock)
    ELSE KeepFile(out, size)

\* append_unlocked(): AppendFile::append() counts all of lines as written,
\* whatever fwrite did with them.
AppendToFile(lines) ==
  \E n \in 0..Len(lines) :
    LET out == stdio \o SubSeq(lines, 1, n)
        size == written + Len(lines)
        failed == IF n < Len(lines) THEN 1 ELSE 0
        checks == size <= RollSize /\ logCount + 1 >= CheckEveryN
    IN /\ faults' = faults + failed /\ faults' <= MaxFaults
       /\ lost' = lost \cup ToSet(SubSeq(lines, n + 1, Len(lines)))
       /\ logCount' = IF size > RollSize THEN logCount
                      ELSE IF checks THEN 0 ELSE logCount + 1
       /\ IF size > RollSize \/ (checks /\ PeriodOf(clock) # startOfPeriod)
            THEN RollFile(out, size)
            ELSE IF checks /\ clock - lastFlush > FlushInterval
            THEN /\ FlushOut(out) /\ lastFlush' = clock /\ written' = size
                 /\ UNCHANGED <<startOfPeriod, lastRoll>>
            ELSE KeepFile(out, size)
=============================================================================
