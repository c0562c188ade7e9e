---------------------------- MODULE AsyncLogging ----------------------------
(***************************************************************************)
(* muduo::AsyncLogging: threads that append() lines, numbered in the order *)
(* in which they take mutex_, the writer thread and stop().  A section     *)
(* under mutex_ is one step; running_ is read and written without it.      *)
(* nextBuffer_, newBuffer1 and newBuffer2 are empty whenever they are not  *)
(* null, so a boolean tells all.                                           *)
(***************************************************************************)
EXTENDS LogFile

CONSTANTS
  BufferLines, \* lines a buffer has room for
  DropOver,    \* 25: with more buffers than this, all but two are dropped
  MaxLines     \* bound: lines appended

ASSUME LoggingAssumption == DropOver \in Nat /\ DropOver >= 2

ASSUME BuffersAssumption == BufferLines \in Nat \ {0} /\ MaxLines \in Nat

VARIABLES
  loggingRunning, \* running_
  stopLogging,    \* stop(): "no", "notify", "join" or "done"
  current,        \* currentBuffer_
  nextBuffer,     \* nextBuffer_ is not null
  full,           \* buffers_
  newBuffer1, newBuffer2, \* not null
  toWrite,        \* buffersToWrite
  wrote,          \* how many of them have been written
  writerPc,       \* where threadFunc() is
  lines,          \* history: lines appended so far
  dropped         \* history: lines dropped

bufferVars == <<current, nextBuffer, full, lines>>
writerVars == <<newBuffer1, newBuffer2, toWrite, wrote, dropped>>
loggingVars == <<loggingRunning, stopLogging, writerPc, bufferVars, writerVars,
                 clock, logFileVars>>

LoggingTypeOK ==
  /\ LogFileTypeOK
  /\ loggingRunning \in BOOLEAN
  /\ stopLogging \in {"no", "notify", "join", "done"}
  /\ current \in Seq(1..MaxLines) /\ Len(current) <= BufferLines
  /\ full \in Seq(Seq(1..MaxLines))
  /\ \A flag \in {nextBuffer, newBuffer1, newBuffer2} : flag \in BOOLEAN
  /\ toWrite \in Seq(Seq(0..MaxLines)) /\ wrote \in 0..Len(toWrite)
  /\ writerPc \in {"none", "loop", "lock", "waiting", "swap", "write", "ended"}
  /\ lines \in 0..MaxLines /\ dropped \subseteq 1..MaxLines

LoggingInit ==
  /\ LogFileInit
  /\ loggingRunning = FALSE /\ stopLogging = "no" /\ writerPc = "none"
  /\ current = <<>> /\ full = <<>> /\ nextBuffer = TRUE /\ lines = 0
  /\ newBuffer1 = TRUE /\ newBuffer2 = TRUE
  /\ toWrite = <<>> /\ wrote = 0 /\ dropped = {}

NotifyWriter == writerPc' = IF writerPc = "waiting" THEN "swap" ELSE writerPc

AppendLine ==
  /\ lines < MaxLines
  /\ lines' = lines + 1
  /\ IF Len(current) < BufferLines
       THEN /\ current' = Append(current, lines')
            /\ UNCHANGED <<nextBuffer, full, writerPc>>
       ELSE /\ full' = Append(full, current)
            /\ current' = <<lines'>>
            /\ nextBuffer' = FALSE
            /\ NotifyWriter
  /\ UNCHANGED <<loggingRunning, stopLogging, writerVars, clock, logFileVars>>

StartLogging ==
  /\ writerPc = "none"
  /\ loggingRunning' = TRUE
  /\ writerPc' = "loop"
  /\ UNCHANGED <<stopLogging, bufferVars, writerVars, clock, logFileVars>>

\* stop(), also called by the destructor: running_, notify(), join().
StopLogging ==
  /\ UNCHANGED <<bufferVars, writerVars, clock, logFileVars>>
  /\ \/ /\ stopLogging = "no" /\ loggingRunning
        /\ loggingRunning' = FALSE
        /\ stopLogging' = "notify"
        /\ UNCHANGED writerPc
     \/ /\ stopLogging = "notify"
        /\ stopLogging' = "join"
        /\ NotifyWriter
        /\ UNCHANGED loggingRunning
     \/ /\ stopLogging = "join" /\ writerPc = "ended"
        /\ stopLogging' = "done"
        /\ UNCHANGED <<loggingRunning, writerPc>>

-----------------------------------------------------------------------------
(* The writer.                                                             *)

WriterLoop ==
  /\ writerPc = "loop"
  /\ IF loggingRunning
       THEN writerPc' = "lock" /\ UNCHANGED logFileVars
       ELSE writerPc' = "ended" /\ Flush
  /\ UNCHANGED <<loggingRunning, stopLogging, bufferVars, writerVars, clock>>

\* waitForSeconds() when there is no full buffer.
WriterWaits ==
  /\ writerPc = "lock" /\ full = <<>>
  /\ writerPc' = "waiting"
  /\ UNCHANGED <<loggingRunning, stopLogging, bufferVars, writerVars, clock,
                 logFileVars>>

WaitEnds ==
  /\ writerPc = "waiting"
  /\ writerPc' = "swap"
  /\ UNCHANGED <<loggingRunning, stopLogging, bufferVars, writerVars, clock,
                 logFileVars>>

\* Under mutex_ again: every buffer is taken, the current one too.
Swap ==
  /\ (writerPc = "lock" /\ full # <<>>) \/ writerPc = "swap"
  /\ LET taken == Append(full, current)
         over == Len(taken) > DropOver
     IN /\ toWrite' = IF over THEN <<<<0>>>> \o SubSeq(taken, 1, 2) ELSE taken
        /\ dropped' = dropped \cup
             IF over THEN UNION {ToSet(taken[i]) : i \in 3..Len(taken)} ELSE {}
  /\ full' = <<>> /\ current' = <<>> /\ newBuffer1' = FALSE
  /\ nextBuffer' = TRUE
  /\ newBuffer2' = (newBuffer2 /\ nextBuffer)
  /\ writerPc' = "write" /\ wrote' = 0
  /\ UNCHANGED <<loggingRunning, stopLogging, lines, clock, logFileVars>>

WriteBuffer ==
  /\ writerPc = "write" /\ wrote < Len(toWrite)
  /\ AppendToFile(toWrite[wrote + 1])
  /\ wrote' = wrote + 1
  /\ UNCHANGED <<loggingRunning, stopLogging, bufferVars, newBuffer1,
                 newBuffer2, toWrite, dropped, writerPc, clock>>

\* Mutant of KeptBuffers: all but one are dropped.
KeptBuffersOne == 1

\* What resize(2) leaves to make newBuffer1 and newBuffer2 of; the notice of a
\* drop is not one of them.
KeptBuffers == IF Len(toWrite) < 2 THEN Len(toWrite) ELSE 2

Refill ==
  /\ writerPc = "write" /\ wrote = Len(toWrite)
  /\ newBuffer1' = (newBuffer1 \/ KeptBuffers > 0)
  /\ newBuffer2' =
       (newBuffer2 \/ KeptBuffers > 1 \/ (newBuffer1 /\ KeptBuffers > 0))
  /\ toWrite' = <<>> /\ wrote' = 0
  /\ Flush
  /\ writerPc' = "loop"
  /\ UNCHANGED <<loggingRunning, stopLogging, bufferVars, dropped, clock>>

SetClock(now) ==
  /\ clock' = now
  /\ UNCHANGED <<loggingRunning, stopLogging, writerPc, bufferVars, writerVars,
                 logFileVars>>

WriterStep ==
  WriterLoop \/ WriterWaits \/ WaitEnds \/ Swap \/ WriteBuffer \/ Refill

LoggingNext ==
  \/ AppendLine \/ StartLogging \/ StopLogging \/ WriterStep
  \/ \E now \in Seconds : SetClock(now)

LoggingSpec == LoggingInit /\ [][LoggingNext]_loggingVars

-----------------------------------------------------------------------------
(* Properties                                                              *)

\* The lines of a sequence, without the notice of a drop.
LinesOf(s) == ToSet(s) \ {0}

\* The lines of a sequence of sequences.
Held(seqs) == UNION {LinesOf(seqs[i]) : i \in DOMAIN seqs}

Ascends(s) ==
  \A p, q \in DOMAIN s : p < q /\ s[p] # 0 /\ s[q] # 0 => s[p] < s[q]

Ordered(seqs) ==
  /\ \A i \in DOMAIN seqs : Ascends(seqs[i])
  /\ \A i, j \in DOMAIN seqs : i < j =>
       \A k \in LinesOf(seqs[i]), l \in LinesOf(seqs[j]) : k < l

\* What has not been written of buffersToWrite.
Waiting == SubSeq(toWrite, wrote + 1, Len(toWrite))

\* Where lines are: every file in the order of its name, stdio, the buffers.
Places == onDisk \o <<stdio>> \o Waiting \o full \o <<current>>

\* A line is in a file, in order whatever the clock does, or on its way there,
\* in one place only, or was dropped, or lost by fwrite (AsyncLogging.cc:38,
\* :87, LogFile.cc:95).
LinesInOrder ==
  /\ Ordered(Places)
  /\ Held(Places) = (1..lines) \ (dropped \cup lost)

\* The buffers threadFunc() asserts are there each round (AsyncLogging.cc:66).
SpareBuffersReady ==
  writerPc \in {"loop", "lock", "waiting", "swap"} => newBuffer1 /\ newBuffer2

\* Lines and buffers (the parts above).
LinesKept == LinesInOrder /\ SpareBuffersReady

\* While logging runs every line leaves stdio in the end, even when no buffer
\* fills, and stop() returns even when its notify() comes before the wait
\* (AsyncLogging.h:45).
LoggingServes ==
  /\ \A l \in 1..MaxLines :
       (lines >= l /\ writerPc # "none" /\ stopLogging = "no")
         ~> (l \in lost \cup dropped \cup UNION {ToSet(onDisk[t]) : t \in Seconds}
               \/ stopLogging # "no")
  /\ stopLogging = "notify" ~> stopLogging = "done"
=============================================================================
