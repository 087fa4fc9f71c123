------------------------------ MODULE Calendar ------------------------------
(***************************************************************************)
(* The calendar of ChronoPoint.cpp: dates from days since 1970-01-01 and   *)
(* back, and the fields of a moment.  ChronoPoint keeps one number of      *)
(* microseconds; a moment here is the whole seconds and the microseconds   *)
(* after them, and none is before 1970.  The code divides rounding towards *)
(* zero and corrects negative dividends first; \div rounds down by itself. *)
(***************************************************************************)
EXTENDS Integers

Civil(y, m, d) == [y |-> y, m |-> m, d |-> d]

DaysInEra == 146097      \* 400 years
EpochDay == 719468       \* 1970-01-01, counted from 0000-03-01
SecondsInDay == 86400

\* An era in days from its first day, years from March: the year, the day of the year, the month.
YearOfEra(doe) == (doe - doe \div 1460 + doe \div 36524 - doe \div 146096) \div 365
DaysToYear(yoe) == yoe * 365 + yoe \div 4 - yoe \div 100
DayOfYear(doe) == doe - DaysToYear(YearOfEra(doe))
MonthOfDay(doy) == (5 * doy + 2) \div 153
MonthStart(mp) == (153 * mp + 2) \div 5

days_from_civil(c) ==
    LET y == IF c.m <= 2 THEN c.y - 1 ELSE c.y
        era == y \div 400
        mp == IF c.m > 2 THEN c.m - 3 ELSE c.m + 9
        doe == DaysToYear(y - era * 400) + (MonthStart(mp) + c.d - 1)
    IN  era * DaysInEra + doe - EpochDay

civil_from_days(z) ==
    LET era == (z + EpochDay) \div DaysInEra
        doe == z + EpochDay - era * DaysInEra
        y == YearOfEra(doe) + era * 400
        mp == MonthOfDay(DayOfYear(doe))
        m == IF mp < 10 THEN mp + 3 ELSE mp - 9
        d == DayOfYear(doe) - MonthStart(mp) + 1
    IN  Civil(IF m <= 2 THEN y + 1 ELSE y, m, d)

weekday_from_days(z) == IF z >= -4 THEN (z + 4) % 7 ELSE 6 - ((0 - (z + 5)) % 7)

\* The fields GetTm() fills in.
GetTm(p) ==
    LET d == p.seconds \div SecondsInDay
        t == p.seconds - d * SecondsInDay
        c == civil_from_days(d)
    IN  [year |-> c.y, mon |-> c.m, mday |-> c.d, wday |-> weekday_from_days(d),
         yday |-> d - days_from_civil(Civil(c.y, 1, 1)),
         hour |-> t \div 3600, min |-> (t % 3600) \div 60, sec |-> t % 60]

\* The moment SetTm() makes of fields and milliseconds.  It adds them to a duration it never
\* initialises: the value d that happens to be there is a moment of its own.
SetTm(d, tm, ms) ==
    LET us == d.us + ms * 1000 IN
    [seconds |-> d.seconds + days_from_civil(Civil(tm.year, tm.mon, tm.mday)) * SecondsInDay
                 + tm.hour * 3600 + tm.min * 60 + tm.sec + us \div 1000000,
     us |-> us % 1000000]

\* What ToString(true, true) prints of a moment, and the order of the printed strings: the
\* fields have fixed widths as long as the year has four digits.
Printed(p) ==
    LET tm == GetTm(p) IN
    <<tm.year, tm.mon, tm.mday, tm.hour, tm.min, tm.sec, p.us \div 1000>>

Before(f, g) == \E i \in 1 .. 7 : f[i] < g[i] /\ \A j \in 1 .. i - 1 : f[j] = g[j]

=============================================================================
