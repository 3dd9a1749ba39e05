----------------------------- MODULE CalendarDraw -----------------------------
(* Dates and times: the engine's bounded draws (native/draws/special.rs) and the *)
(* generators of extras/chrono, which draw one integer between the images of     *)
(* their bounds and convert it back.  A value is the tuple of its fields, most   *)
(* significant first, and is ordered as its type orders it: lexicographically.   *)
(* An operator of two bounds is the set of the values that may be drawn, {} when *)
(* the arguments are rejected.                                                   *)
EXTENDS Integers

CONSTANTS
    SecondNanos, MinuteSeconds, HourMinutes, DayHours, \* the units of the clock
    MinDay, MaxDay   \* NaiveDate::MIN and MAX, as day numbers

DaySeconds == DayHours * HourMinutes * MinuteSeconds

UpTo(a, b) == a = b \/ \E i \in DOMAIN a : a[i] < b[i] /\ \A j \in 1..(i - 1) : a[j] = b[j]

(* The engine: <<year, month, day>> and <<hour, minute, second, nanosecond>>.    *)
LeapYear(y) == y % 4 = 0 /\ (y % 100 # 0 \/ y % 400 = 0)
DaysInMonth(y, m) ==
    CASE m \in {1, 3, 5, 7, 8, 10, 12} -> 31 [] m \in {4, 6, 9, 11} -> 30
      [] m = 2 -> IF LeapYear(y) THEN 29 ELSE 28

DaysFromCivil(d) ==
    LET y   == IF d[2] <= 2 THEN d[1] - 1 ELSE d[1]
        yoe == y % 400
        mp  == IF d[2] > 2 THEN d[2] - 3 ELSE d[2] + 9
        doy == (153 * mp + 2) \div 5 + d[3] - 1
    IN  (y \div 400) * 146097 + yoe * 365 + yoe \div 4 - yoe \div 100 + doy - 719468

CivilFromDays(days) ==
    LET z   == days + 719468
        doe == z % 146097
        yoe == (doe - doe \div 1460 + doe \div 36524 - doe \div 146096) \div 365
        doy == doe - (365 * yoe + yoe \div 4 - yoe \div 100)
        mp  == (5 * doy + 2) \div 153
        m   == IF mp < 10 THEN mp + 3 ELSE mp - 9
        y   == yoe + (z \div 146097) * 400
    IN  <<IF m <= 2 THEN y + 1 ELSE y, m, doy - (153 * mp + 2) \div 5 + 1>>

ValidDate(d) == d[1] \in -999999..999999 /\ d[2] \in 1..12 /\ d[3] \in 1..DaysInMonth(d[1], d[2])
ValidTime(t) ==
    t[1] < DayHours /\ t[2] < HourMinutes /\ t[3] < MinuteSeconds /\ t[4] < SecondNanos

TimeToNs(t) == ((t[1] * HourMinutes + t[2]) * MinuteSeconds + t[3]) * SecondNanos + t[4]
TimeFromNs(ns) ==
    LET s == ns \div SecondNanos
    IN  <<s \div (HourMinutes * MinuteSeconds), (s \div MinuteSeconds) % HourMinutes,
          s % MinuteSeconds, ns % SecondNanos>>
LastNsOfDay == DaySeconds * SecondNanos - 1

\* An offset from 2000-01-01 or the bound nearest to it, and one from the lower bound.
DateCenter(lo, hi) ==
    LET millennium == DaysFromCivil(<<2000, 1, 1>>)
    IN  IF millennium < lo THEN lo ELSE IF millennium > hi THEN hi ELSE millennium
DrawDateIn(lo, hi) ==
    {CivilFromDays(DateCenter(lo, hi) + offset) :
        offset \in (lo - DateCenter(lo, hi))..(hi - DateCenter(lo, hi))}
DrawTimeIn(lo, hi) == {TimeFromNs(lo + offset) : offset \in 0..(hi - lo)}

GenerateDate(lo, hi) ==
    IF ValidDate(lo) /\ ValidDate(hi) /\ DaysFromCivil(lo) <= DaysFromCivil(hi)
    THEN DrawDateIn(DaysFromCivil(lo), DaysFromCivil(hi)) ELSE {}
GenerateTime(lo, hi) ==
    IF ValidTime(lo) /\ ValidTime(hi) /\ TimeToNs(lo) <= TimeToNs(hi)
    THEN DrawTimeIn(TimeToNs(lo), TimeToNs(hi)) ELSE {}

\* A date, then a time between bounds that are the request's only on its first and last day.
\* Mutant: the first and the last day are not told apart.
TimesOfDayEitherEnd(day, first, last, lo, hi) ==
    IF day \in {first, last} THEN DrawTimeIn(lo, hi) ELSE DrawTimeIn(0, LastNsOfDay)
TimesOfDay(day, first, last, lo, hi) ==
    DrawTimeIn(IF day = first THEN lo ELSE 0, IF day = last THEN hi ELSE LastNsOfDay)
GenerateDateTime(lo, hi) ==
    LET first == DaysFromCivil(lo.date)  last == DaysFromCivil(hi.date)
        from  == TimeToNs(lo.time)       to   == TimeToNs(hi.time)
    IN  IF /\ ValidDate(lo.date) /\ ValidDate(hi.date) /\ ValidTime(lo.time) /\ ValidTime(hi.time)
           /\ UpTo(<<first, from>>, <<last, to>>)
        THEN UNION {{[date |-> date, time |-> time] :
                        time \in TimesOfDay(DaysFromCivil(date), first, last, from, to)} :
                    date \in DrawDateIn(first, last)}
        ELSE {}

(* chrono's NaiveTime, <<seconds, nanoseconds>>: a leap second is a nanosecond   *)
(* part of a second or more.                                                     *)
TimeToTotalNanos(t) == t[1] * SecondNanos + t[2]
IsMidDayLeap(t) == t[2] >= SecondNanos /\ t[1] # DaySeconds - 1
TotalNanosToTime(total) ==
    IF total >= DaySeconds * SecondNanos
    THEN <<DaySeconds - 1, total - (DaySeconds - 1) * SecondNanos>>
    ELSE <<total \div SecondNanos, total % SecondNanos>>
NaiveTimes(lo, hi) ==
    IF IsMidDayLeap(lo) \/ IsMidDayLeap(hi) THEN {}
    ELSE {TotalNanosToTime(n) : n \in TimeToTotalNanos(lo)..TimeToTotalNanos(hi)}

(* chrono's TimeDelta, <<seconds, nanoseconds>> with nanoseconds below a second; *)
(* num_seconds and subsec_nanos truncate towards zero.                           *)
NumSeconds(d) == IF d[1] < 0 /\ d[2] > 0 THEN d[1] + 1 ELSE d[1]
SubsecNanos(d) == IF d[1] < 0 /\ d[2] > 0 THEN d[2] - SecondNanos ELSE d[2]
TimeDeltaToNanos(d) == NumSeconds(d) * SecondNanos + SubsecNanos(d)
NanosToTimeDelta(n) == <<n \div SecondNanos, n % SecondNanos>>
TimeDeltas(lo, hi) ==
    IF UpTo(lo, hi) THEN {NanosToTimeDelta(n) : n \in TimeDeltaToNanos(lo)..TimeDeltaToNanos(hi)}
    ELSE {}

(* chrono's NaiveDateTime, <<day number, seconds, nanoseconds>>, as UTC.         *)
Timestamp(dt) == dt[1] * DaySeconds + dt[2]
DateTimeToNanos(dt) == Timestamp(dt) * SecondNanos + dt[3]
NanosToUtcDateTime(n) ==
    LET s == n \div SecondNanos IN <<s \div DaySeconds, s % DaySeconds, n % SecondNanos>>
NaiveDateTimes(lo, hi) ==
    IF lo[3] >= SecondNanos \/ hi[3] >= SecondNanos \/ ~UpTo(lo, hi) THEN {}
    ELSE {NanosToUtcDateTime(n) : n \in DateTimeToNanos(lo)..DateTimeToNanos(hi)}

\* A week of a date: the seven days that begin with the last `start` up to it.
WeekOf(day, start) == LET first == day - ((day + 3 - start) % 7) IN first..(first + 6)
NaiveWeeks == {WeekOf(day, start) : day \in (MinDay + 7)..(MaxDay - 7), start \in 0..6}
===============================================================================
