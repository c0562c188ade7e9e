----------------------------- MODULE LogStream -----------------------------
(***************************************************************************)
(* A LOG_ statement: a Logger on the stack of its thread gathers what it   *)
(* is given in a buffer of fixed size, each piece whole or not at all, and *)
(* hands the line to g_output when it goes.  The time of the last second   *)
(* is formatted once per thread.  Sizes are small; text is left out except *)
(* that of numbers.                                                        *)
(***************************************************************************)
EXTENDS Integers, Sequences, FiniteSets, SequencesExt

CONSTANTS
  LogThreads,     \* threads that log
  BufferSize,     \* kSmallBuffer
  MaxNumericSize, \* kMaxNumericSize
  TextSizes,      \* bound: sizes of the text that is logged
  Numbers,        \* bound: integers that are logged
  LogZones,       \* time zones, NoZone among them
  NoZone,         \* of a g_logTimeZone that is not valid
  MaxOperands,    \* bound: what a statement is given
  MaxLogSeconds   \* bound: seconds

ASSUME NumbersFit == Numbers \subseteq -128..127

\* A header finds room for its last piece, and a number with its sign is
\* shorter than kMaxNumericSize.
ASSUME BufferFits ==
  /\ BufferSize \in Nat /\ BufferSize > 6
  /\ MaxNumericSize \in Nat /\ MaxNumericSize > 4
  /\ TextSizes \subseteq Nat

ASSUME StatementAssumption ==
  NoZone \in LogZones /\ MaxOperands \in Nat /\ MaxLogSeconds \in Nat \ {0}

VARIABLES
  logSecond,  \* the clock's second
  logZone,    \* g_logTimeZone
  logLevel,   \* g_logLevel
  lastSecond, \* t_lastSecond of each thread
  timeText,   \* t_time of each thread: of which second, in which zone
  logger,     \* the Logger of each thread: "none", "open", "abort"
  logLine,    \* its line: level, time and stream_
  operands,   \* how much it has been given
  aborted,    \* the program has ended
  rezoned     \* history: threads whose t_time is older than g_logTimeZone

logVars == <<logSecond, logZone, logLevel, lastSecond, timeText, logger,
             logLine, operands, aborted, rezoned>>

INFO == 2
WARN == 3
FATAL == 5
Levels == {1, INFO, FATAL}

LogTypeOK ==
  /\ logSecond \in 1..MaxLogSeconds
  /\ logZone \in LogZones /\ logLevel \in Levels
  /\ lastSecond \in [LogThreads -> 0..MaxLogSeconds]
  /\ \A t \in LogThreads :
       timeText[t].second = lastSecond[t] /\ timeText[t].zone \in LogZones
  /\ logger \in [LogThreads -> {"none", "open", "abort"}]
  /\ operands \in [LogThreads -> 0..MaxOperands]
  /\ aborted \in BOOLEAN /\ rezoned \subseteq LogThreads

\* data_ with the pieces it holds, and how far cur_ is.
Empty == [pieces |-> <<>>, length |-> 0]

NoLine == [level |-> 0, second |-> 0, time |-> [second |-> 0, zone |-> NoZone],
           zone |-> NoZone, stale |-> FALSE, stream |-> Empty]

LogInit ==
  /\ logSecond = 1 /\ logZone \in LogZones /\ logLevel = INFO
  /\ lastSecond = [t \in LogThreads |-> 0]
  /\ timeText = [t \in LogThreads |-> [second |-> 0, zone |-> NoZone]]
  /\ logger = [t \in LogThreads |-> "none"]
  /\ logLine = [t \in LogThreads |-> NoLine]
  /\ operands = [t \in LogThreads |-> 0]
  /\ aborted = FALSE
  /\ rezoned = {}

-----------------------------------------------------------------------------
(* The buffer.                                                             *)

Text(what, size) == [what |-> what, size |-> size, text |-> <<>>, value |-> 0]

Avail(stream) == BufferSize - stream.length

AddPiece(stream, piece) ==
  [pieces |-> Append(stream.pieces, piece), length |-> stream.length + piece.size]

\* append()
PutText(stream, piece) ==
  IF Avail(stream) > piece.size THEN AddPiece(stream, piece) ELSE stream

\* The table that is as long on both sides of zero, and / and % as C has them.
Zero == [lsd \in -9..9 |-> <<9, 8, 7, 6, 5, 4, 3, 2, 1, 0,
                             1, 2, 3, 4, 5, 6, 7, 8, 9>>[lsd + 10]]
Quotient10(i) == IF i < 0 THEN -((-i) \div 10) ELSE i \div 10
Remainder10(i) == i - 10 * Quotient10(i)

Minus == -1

\* convert(): the digits from the last to the first, the sign, all reversed.
Digits[i \in -128..127] ==
  LET rest == Quotient10(i)
  IN <<Zero[Remainder10(i)]>> \o (IF rest = 0 THEN <<>> ELSE Digits[rest])

Convert(value) ==
  Reverse(Digits[value] \o (IF value < 0 THEN <<Minus>> ELSE <<>>))

\* formatInteger()
PutNumber(stream, value) ==
  IF Avail(stream) < MaxNumericSize THEN stream
  ELSE AddPiece(stream, [what |-> "number", size |-> Len(Convert(value)),
                         text |-> Convert(value), value |-> value])

-----------------------------------------------------------------------------
(* A statement.                                                            *)

Logs(level) == level >= WARN \/ logLevel <= level

\* formatTime(): t_time as it is from now on.
TimeText(t) ==
  IF logSecond # lastSecond[t]
    THEN [second |-> logSecond, zone |-> logZone] ELSE timeText[t]

\* Impl(): the time, with a Z if there is no zone, the thread, the level.
Header ==
  LET time == PutText(Empty, Text("time", 2))
      us == PutText(time, Text("us", IF logZone = NoZone THEN 2 ELSE 1))
      tid == PutText(us, Text("tid", 1))
  IN PutText(tid, Text("level", 1))

Open(t, level) ==
  /\ ~aborted /\ logger[t] = "none"
  /\ Logs(level)
  /\ lastSecond' = [lastSecond EXCEPT ![t] = logSecond]
  /\ timeText' = [timeText EXCEPT ![t] = TimeText(t)]
  /\ rezoned' = IF logSecond # lastSecond[t] THEN rezoned \ {t} ELSE rezoned
  /\ logger' = [logger EXCEPT ![t] = "open"]
  /\ operands' = [operands EXCEPT ![t] = 0]
  /\ logLine' = [logLine EXCEPT ![t] =
       [level |-> level, second |-> logSecond, time |-> TimeText(t),
        zone |-> logZone, stale |-> t \in rezoned',
        stream |-> Header]]
  /\ UNCHANGED <<logSecond, logZone, logLevel, aborted>>

\* stream() << ...
Give(t) ==
  /\ ~aborted /\ logger[t] = "open" /\ operands[t] < MaxOperands
  /\ operands' = [operands EXCEPT ![t] = @ + 1]
  /\ \/ \E size \in TextSizes :
          logLine' = [logLine EXCEPT ![t].stream = PutText(@, Text("text", size))]
     \/ \E value \in Numbers :
          logLine' = [logLine EXCEPT ![t].stream = PutNumber(@, value)]
  /\ UNCHANGED <<logSecond, logZone, logLevel, lastSecond, timeText, logger,
                 aborted, rezoned>>

\* finish()
Finish(stream) ==
  LET dash == PutText(stream, Text("dash", 1))
      basename == PutText(dash, Text("basename", 2))
      place == PutText(basename, Text("colon", 1))
  IN PutText(PutNumber(place, 7), Text("newline", 1))

\* ~Logger(): g_output() gets what finish() makes of the line.
CloseLine(t) ==
  /\ ~aborted /\ logger[t] = "open"
  /\ logger' = [logger EXCEPT ![t] =
                  IF logLine[t].level = FATAL THEN "abort" ELSE "none"]
  /\ logLine' = [logLine EXCEPT ![t] = NoLine]
  /\ operands' = [operands EXCEPT ![t] = 0]
  /\ UNCHANGED <<logSecond, logZone, logLevel, lastSecond, timeText, aborted,
                 rezoned>>

\* g_flush() and abort()
Abort(t) ==
  /\ ~aborted /\ logger[t] = "abort"
  /\ aborted' = TRUE
  /\ UNCHANGED <<logSecond, logZone, logLevel, lastSecond, timeText, logger,
                 logLine, operands, rezoned>>

-----------------------------------------------------------------------------
(* The rest of the program.                                                *)

SetLogLevel ==
  /\ ~aborted /\ logLevel' \in Levels
  /\ UNCHANGED <<logSecond, logZone, lastSecond, timeText, logger, logLine,
                 operands, aborted, rezoned>>

SetTimeZone ==
  /\ ~aborted /\ logZone' \in LogZones
  /\ rezoned' = rezoned \cup {t \in LogThreads : lastSecond[t] # 0}
  /\ UNCHANGED <<logSecond, logLevel, lastSecond, timeText, logger, logLine,
                 operands, aborted>>

NextSecond ==
  /\ ~aborted /\ logSecond < MaxLogSeconds /\ logSecond' = logSecond + 1
  /\ UNCHANGED <<logZone, logLevel, lastSecond, timeText, logger, logLine,
                 operands, aborted, rezoned>>

LogNext ==
  \/ \E t \in LogThreads :
       \/ \E level \in Levels : Open(t, level)
       \/ Give(t) \/ CloseLine(t) \/ Abort(t)
  \/ SetLogLevel \/ SetTimeZone \/ NextSecond

LogSpec == LogInit /\ [][LogNext]_logVars

-----------------------------------------------------------------------------
(* Properties                                                              *)

\* The number that text stands for, of one to three digits.
ValueOf(text) ==
  LET digit(k) == IF k < Len(text) /\ text[Len(text) - k] # Minus
                    THEN text[Len(text) - k] ELSE 0
      size == digit(0) + 10 * digit(1) + 100 * digit(2)
  IN IF text[1] = Minus THEN -size ELSE size

ReadsAsGiven(number) ==
  LET text == number.text
  IN /\ ValueOf(text) = number.value
     /\ Len(text) <= (IF text[1] = Minus THEN 4 ELSE 3)
     /\ text[1] = 0 => Len(text) = 1
     /\ number.size < MaxNumericSize

\* Wherever a statement ends, the buffer has a place left for the 0 that
\* convert() and debugString() write behind what is there; the line has its
\* whole header, its numbers, the least one included, read as they were given,
\* and its time is that of its second and in the zone that is set, unless that
\* zone was set within the second (Logging.cc:134); a line without its '\n'
\* leaves no more than that one place (LogStream.h:39).
LogRight ==
  \A t \in LogThreads : logger[t] = "open" =>
    LET line == logLine[t]
        output == Finish(line.stream)
    IN /\ output.length < BufferSize
       /\ [k \in 1..4 |-> output.pieces[k].what] = <<"time", "us", "tid", "level">>
       /\ line.time.second = line.second
       /\ line.time.zone = line.zone \/ line.stale
       /\ \/ Last(output.pieces).what = "newline"
          \/ output.length = BufferSize - 1
       /\ \A k \in 1..Len(output.pieces) :
            output.pieces[k].what = "number" => ReadsAsGiven(output.pieces[k])
=============================================================================
