------------------------------- MODULE MCBase -------------------------------
(* Parts of muduo/base that share no state: a run takes one. *)
EXTENDS BlockingQueue, ThreadPool, Thread, AsyncLogging, LogStream,
        TimeZone

VARIABLE part  \* the part that runs

baseVars == <<part, queueVars, poolStateVars, threadObjVars, loggingVars,
              calendarVars, zoneVars, logVars>>

\* The least number of eight bits among others.
MCNumbers == {-128, 0}

\* Fixed zones, zones with summer time that begin without and with it, and
\* zones whose offset changes.
MCZones ==
  LET hour == Sixty * Sixty
      made(times, indexes, types) ==
        [times |-> times, indexes |-> indexes, types |-> types]
      type(offset, dst) == [gmtOffset |-> offset, isDst |-> dst]
      offsets == {-2 * hour, 0, 3}
      gaps == {2 * hour + 1, 30}
  IN UNION {
       {made(<<>>, <<>>, <<type(o, FALSE)>>) : o \in offsets},
       {made(<<10, 10 + g, 20 + 2 * g>>, <<1, 0, 1>>,
             <<type(o, FALSE), type(o + hour, TRUE)>>) : o \in offsets, g \in gaps},
       {made(<<10, 10 + g>>, <<1, 0>>,
             <<type(o + hour, TRUE), type(o, FALSE)>>) : o \in offsets, g \in gaps},
       {made(<<10>>, <<1>>, <<type(o, FALSE), type(p, FALSE)>>) : o, p \in offsets}}

Init ==
  /\ part \in {"queue", "pool", "thread", "logging", "date", "zone", "line"}
  /\ QueueInit /\ PoolInit /\ ThreadObjInit /\ LoggingInit
  /\ CalendarInit /\ ZoneInit /\ LogInit
  /\ part = "zone" \/ zone = CHOOSE f \in MCZones : TRUE
  /\ part = "line" \/ logZone = NoZone

\* Each part keeps its types.
TypeOK ==
  /\ QueueTypeOK /\ PoolTypeOK /\ ThreadObjTypeOK /\ LoggingTypeOK
  /\ CalendarTypeOK /\ ZoneTypeOK /\ LogTypeOK

Only(p) == part = p /\ UNCHANGED part

Next ==
  \/ /\ Only("queue") /\ QueueNext
     /\ UNCHANGED <<poolStateVars, threadObjVars, loggingVars, calendarVars,
                    zoneVars, logVars>>
  \/ /\ Only("pool") /\ PoolNext
     /\ UNCHANGED <<queueVars, threadObjVars, loggingVars, calendarVars,
                    zoneVars, logVars>>
  \/ /\ Only("thread") /\ ThreadObjNext
     /\ UNCHANGED <<queueVars, poolStateVars, loggingVars, calendarVars,
                    zoneVars, logVars>>
  \/ /\ Only("logging") /\ LoggingNext
     /\ UNCHANGED <<queueVars, poolStateVars, threadObjVars, calendarVars,
                    zoneVars, logVars>>
  \/ /\ Only("date") /\ CalendarNext
     /\ UNCHANGED <<queueVars, poolStateVars, threadObjVars, loggingVars,
                    zoneVars, logVars>>
  \/ /\ Only("zone") /\ ZoneNext
     /\ UNCHANGED <<queueVars, poolStateVars, threadObjVars, loggingVars,
                    calendarVars, logVars>>
  \/ /\ Only("line") /\ LogNext
     /\ UNCHANGED <<queueVars, poolStateVars, threadObjVars, loggingVars,
                    calendarVars, zoneVars>>

\* Threads that can go on do, a wait with a timeout ends, and a thread that
\* can take a lock again and again gets it.
Fairness ==
  /\ WF_poolStateVars(Only("pool") /\ JoinWorkers)
  /\ \A w \in Workers :
       /\ WF_poolStateVars(Only("pool") /\ (WorkerLoop(w) \/ TaskEnds(w)))
       /\ SF_poolStateVars(Only("pool")
            /\ (TakeWaits(w) \/ TakeNothing(w) \/ TakeTask(w)))
  /\ \A s \in Submitters : SF_poolStateVars(Only("pool") /\ SubmitStep(s))
  /\ WF_loggingVars(Only("logging") /\ WriterStep)
  /\ WF_loggingVars(Only("logging") /\ stopLogging # "no" /\ StopLogging)

\* What is computed without other threads: a line of the log, dates, local
\* times (LogStream.h:36, Date.cc:26, TimeZone.cc:310).
TextRight == LogRight /\ DateRight /\ ZoneRight

\* Submitted tasks and appended lines are dealt with (ThreadPool.cc:62,
\* AsyncLogging.cc:29).
WorkServed == PoolServes /\ LoggingServes

Spec == Init /\ [][Next]_baseVars /\ Fairness
=============================================================================
