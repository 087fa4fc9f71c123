----------------------------- MODULE MCLogFiles -----------------------------
(* Moments around the end of February and of December of a leap year, two of   *)
(* them in one millisecond, and the calendar checked day by day against the    *)
(* lengths of the months for the four hundred years it repeats after.          *)
EXTENDS LogFiles, TLC

Leap(y) == y % 4 = 0 /\ (y % 100 # 0 \/ y % 400 = 0)

Length(y, m) ==
    CASE m = 2 -> IF Leap(y) THEN 29 ELSE 28
      [] m \in {4, 6, 9, 11} -> 30
      [] OTHER -> 31

DayAfter(c) ==
    IF c.d < Length(c.y, c.m) THEN [c EXCEPT !.d = @ + 1]
    ELSE IF c.m < 12 THEN Civil(c.y, c.m + 1, 1)
    ELSE Civil(c.y + 1, 1, 1)

ASSUME EpochIsThursday == civil_from_days(0) = Civil(1970, 1, 1) /\ weekday_from_days(0) = 4

ASSUME DatesFollow ==
    \A z \in -1000 .. DaysInEra :
        /\ civil_from_days(z + 1) = DayAfter(civil_from_days(z))
        /\ weekday_from_days(z + 1) = (weekday_from_days(z) + 1) % 7

At(y, m, d, hour, min, sec, us) ==
    [seconds |-> days_from_civil(Civil(y, m, d)) * SecondsInDay + hour * 3600 + min * 60 + sec, us |-> us]

Moments == {At(2024, 2, 29, 23, 59, 59, 999000), At(2024, 2, 29, 23, 59, 59, 999999),
            At(2024, 12, 31, 23, 59, 59, 5000), At(2025, 1, 1, 0, 0, 0, 0)}

Symmetric == Permutations(Thread)
=============================================================================
