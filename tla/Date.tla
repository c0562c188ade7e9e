-------------------------------- MODULE Date --------------------------------
(***************************************************************************)
(* The calendar's arithmetic in Date and the conversions between seconds   *)
(* and calendar time in TimeZone, against a calendar that is turned over   *)
(* month by month.                                                         *)
(***************************************************************************)
EXTENDS Integers

CONSTANTS
  FirstYear, \* bound: 1900 and 2500, between which the code is to be right
  LastYear,
  FirstWeekDay, \* day of the week on which FirstYear begins
  Sixty      \* seconds in a minute and minutes in an hour, 60

\* The day of the week is that of Gauss's formula; 0 is Sunday.
ASSUME CalendarAssumption ==
  /\ FirstYear \in Nat /\ LastYear \in Nat /\ FirstYear <= LastYear + 1
  /\ LET y == FirstYear - 1
     IN FirstWeekDay = (1 + 5 * (y % 4) + 4 * (y % 100) + 6 * (y % 400)) % 7
  /\ Sixty \in Nat \ {0}

VARIABLES
  year,    \* the month the calendar shows
  month,
  firstDay, \* days from the calendar's beginning to the month's first day
  newYear   \* and to the year's

calendarVars == <<year, month, firstDay, newYear>>

SecondsPerDay == 24 * Sixty * Sixty

-----------------------------------------------------------------------------
(* The reference.                                                          *)

Leap(y) == y % 4 = 0 /\ (y % 100 = 0 => y % 400 = 0)
DaysOf(y, m) == CASE m \in {4, 6, 9, 11} -> 30
                  [] m = 2 -> IF Leap(y) THEN 29 ELSE 28
                  [] OTHER -> 31

CalendarInit == year = FirstYear /\ month = 1 /\ firstDay = 0 /\ newYear = 0

TurnOver ==
  /\ year <= LastYear
  /\ firstDay' = firstDay + DaysOf(year, month)
  /\ month' = (month % 12) + 1
  /\ year' = year + (month \div 12)
  /\ newYear' = IF month = 12 THEN firstDay' ELSE newYear

CalendarNext == TurnOver

CalendarSpec == CalendarInit /\ [][CalendarNext]_calendarVars

CalendarTypeOK ==
  year \in FirstYear..LastYear+1 /\ month \in 1..12 /\ newYear \in 0..firstDay

-----------------------------------------------------------------------------
(* Date.                                                                   *)

\* a in getJulianDayNumber(): a year begins in March.
MonthShift(m) == (14 - m) \div 12

JulianDayNumber(y, m, day) ==
  LET z == y + 4800 - MonthShift(m)
      k == m + 12 * MonthShift(m) - 3
  IN day + (153 * k + 2) \div 5 + z * 365 + z \div 4 - z \div 100 + z \div 400 - 32045

YearMonthDay(julianDayNumber) ==
  LET a == julianDayNumber + 32044
      b == (4 * a + 3) \div 146097
      c == a - ((b * 146097) \div 4)
      d == (4 * c + 3) \div 1461
      e == c - ((1461 * d) \div 4)
      m == (5 * e + 2) \div 153
  IN [year  |-> b * 100 + d - 4800 + (m \div 10),
      month |-> m + 3 - 12 * (m \div 10),
      day   |-> e - ((153 * m + 2) \div 5) + 1]

WeekDay(julianDayNumber) == (julianDayNumber + 1) % 7

Epoch == JulianDayNumber(1970, 1, 1)

-----------------------------------------------------------------------------
(* TimeZone's conversions in UTC.                                          *)

\* C++ divides towards zero.
Quotient(x, n) == IF x < 0 THEN -((-x) \div n) ELSE x \div n
Remainder(x, n) == x - n * Quotient(x, n)

FillHMS(seconds) ==
  [hour |-> seconds \div (Sixty * Sixty), min |-> (seconds \div Sixty) % Sixty,
   sec  |-> seconds % Sixty]

ToUtcTime(t) ==
  LET rest == Remainder(t, SecondsPerDay)
      seconds == IF rest < 0 THEN rest + SecondsPerDay ELSE rest
      days == Quotient(t, SecondsPerDay) - (IF rest < 0 THEN 1 ELSE 0)
      jdn == days + Epoch
      ymd == YearMonthDay(jdn)
  IN [date |-> ymd, time |-> FillHMS(seconds), wday |-> WeekDay(jdn),
      yday |-> jdn - JulianDayNumber(ymd.year, 1, 1)]

FromUtcTime(ymd, hms) ==
  (JulianDayNumber(ymd.year, ymd.month, ymd.day) - Epoch) * SecondsPerDay
    + hms.hour * Sixty * Sixty + hms.min * Sixty + hms.sec

-----------------------------------------------------------------------------
(* Properties                                                              *)

\* On every day of the month that is shown, the Julian day numbers count days,
\* give the date and the day of the week back, and the seconds of its midnight
\* and its last second go to calendar time and back, before 1970 too
\* (Date.cc:26, :32, TimeZone.cc:324).
DateRight ==
  LET first == JulianDayNumber(FirstYear, 1, 1)
      hms == {[hour |-> 0, min |-> 0, sec |-> 0],
              [hour |-> 23, min |-> Sixty - 1, sec |-> Sixty - 1]}
  IN \A d \in 1..DaysOf(year, month) :
       LET jdn == JulianDayNumber(year, month, d)
           ymd == [year |-> year, month |-> month, day |-> d]
       IN /\ jdn = first + firstDay + d - 1
          /\ YearMonthDay(jdn) = ymd
          /\ WeekDay(jdn) = (FirstWeekDay + firstDay + d - 1) % 7
          /\ \A t \in hms :
               LET utc == ToUtcTime(FromUtcTime(ymd, t))
               IN utc.date = ymd /\ utc.time = t
                    /\ utc.wday = WeekDay(jdn) /\ utc.yday = firstDay + d - 1 - newYear
=============================================================================
