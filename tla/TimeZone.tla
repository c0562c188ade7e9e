------------------------------ MODULE TimeZone ------------------------------
(***************************************************************************)
(* Local time in a TimeZone while a clock runs through its transitions.  A *)
(* struct tm is the time timegm() would make of it and tm_isdst.           *)
(***************************************************************************)
EXTENDS Date, Sequences

CONSTANTS
  Zones,   \* bound: what zone files hold: times of the transitions, the index
           \* after each of them, and offset and dst of each index
  MinTime, \* bound: times of the clock
  MaxTime

VARIABLES
  zone,    \* what the zone's file holds
  seconds  \* the clock, since the epoch

zoneVars == <<zone, seconds>>

\* What local time is from transition i on, before the first one if i is 0.
LocalType(f, i) == IF i = 0 THEN f.types[1] ELSE f.types[f.indexes[i] + 1]

\* Zones as they are: transitions are further apart than offsets, and a zone
\* with summer time has local times twice only when it ends, by an hour.
Usual(f) ==
  LET n == Len(f.times)
      types == DOMAIN f.types
      drop(i) == LocalType(f, i).gmtOffset - LocalType(f, i + 1).gmtOffset
  IN /\ f.times \in Seq(Int) /\ f.types \in Seq([gmtOffset : Int, isDst : BOOLEAN])
     /\ f.types # <<>> /\ \A i \in 1..n : f.indexes[i] + 1 \in types
     /\ \A i, j \in 1..n : i < j =>
          \A k, l \in types :
            f.types[k].gmtOffset - f.types[l].gmtOffset < f.times[j] - f.times[i]
     /\ (\E k \in types : f.types[k].isDst) =>
          \A i \in 0..n-1 : drop(i) > 0 =>
            /\ drop(i) = Sixty * Sixty
            /\ LocalType(f, i).isDst /\ ~LocalType(f, i + 1).isDst

ASSUME ZoneAssumption ==
  /\ \A f \in Zones : Usual(f)
  /\ MinTime \in Int /\ MaxTime \in Int /\ MinTime <= MaxTime

\* readTimeZoneFile(): indexes count from 0.
Transitions(f) ==
  [i \in 1..Len(f.times) |->
     [gmttime |-> f.times[i],
      localtime |-> f.times[i] + LocalType(f, i).gmtOffset,
      localtimeIdx |-> f.indexes[i]]]

\* Comp::operator().
Comp(key, t) == key < t

\* findLocaltime() for a time t, which is gmttime or localtime of transitions;
\* lower_bound() finds the first that is not before t.
FindLocaltime(f, key, t) ==
  LET n == Len(f.times)
      time(i) == Transitions(f)[i][key]
      lower == CHOOSE i \in 1..n+1 :
                 (i = n + 1 \/ ~Comp(time(i), t)) /\ \A j \in 1..i-1 : Comp(time(j), t)
  IN IF n = 0 \/ Comp(t, time(1)) THEN LocalType(f, 0)
     ELSE IF lower = n + 1 THEN LocalType(f, n)
     ELSE IF t # time(lower) THEN LocalType(f, lower - 1)
     ELSE LocalType(f, lower)

\* toLocalTime().
ToLocalTime(f, t) ==
  LET local == FindLocaltime(f, "gmttime", t)
  IN [seconds |-> t + local.gmtOffset, isdst |-> local.isDst]

\* tm_hour and tm_min.
HourAndMinute(t) == (t % SecondsPerDay) \div Sixty

\* Mutant of FromLocalTime: it does not look at tm_isdst.
FromLocalTimeNoDst(f, tm) ==
  tm.seconds - FindLocaltime(f, "localtime", tm.seconds).gmtOffset

\* fromLocalTime().
FromLocalTime(f, tm) ==
  LET local == FindLocaltime(f, "localtime", tm.seconds)
      tried == ToLocalTime(f, tm.seconds - local.gmtOffset)
      hack == tm.isdst /\ ~tried.isdst
                /\ HourAndMinute(tried.seconds) = HourAndMinute(tm.seconds)
  IN tm.seconds - (IF hack THEN Sixty * Sixty ELSE 0) - local.gmtOffset

ZoneInit == zone \in Zones /\ seconds = MinTime

Tick == seconds < MaxTime /\ seconds' = seconds + 1 /\ UNCHANGED zone

ZoneNext == Tick

ZoneSpec == ZoneInit /\ [][ZoneNext]_zoneVars

ZoneTypeOK == zone \in Zones /\ seconds \in MinTime..MaxTime

-----------------------------------------------------------------------------
(* Properties                                                              *)

\* Through all transitions, the clock's local time goes back to the clock, also
\* in the hour that a zone with summer time has twice; where a zone has local
\* times twice and tm_isdst does not tell them apart it goes to the other
\* (TimeZone.cc:310).
ZoneRight ==
  LET tm == ToLocalTime(zone, seconds)
      back == FromLocalTime(zone, tm)
  IN /\ ToLocalTime(zone, back) = tm
     /\ (\E i \in 1..Len(zone.types) : zone.types[i].isDst) => back = seconds
=============================================================================
