--------------------------- MODULE LogFilesProofs ---------------------------
(***************************************************************************)
(* The limits on the log files hold for any number of threads, messages,   *)
(* faults and moments, and for any limits.  They need to know who works on *)
(* the file: one thread at a time, and none opens a file while another one *)
(* is open, so the counter is never less than what the file holds.         *)
(*                                                                         *)
(* Files are named after dates, so the calendar comes first.               *)
(***************************************************************************)
EXTENDS LogFiles, FiniteSetTheorems, WellFoundedInduction, TLAPS

-----------------------------------------------------------------------------
(* Dates and days are two names of the same thing: what civil_from_days()  *)
(* makes of a day, days_from_civil() makes the day of again, for every     *)
(* integer.  An era has 146097 days; within it the year, the day of the    *)
(* year and the month follow from each other in turn.                      *)

\* A day of an era is in one of its 400 years.
LEMMA YearBounds ==
  ASSUME NEW doe \in Int, 0 <= doe, doe <= 146096
  PROVE  YearOfEra(doe) \in Int /\ 0 <= YearOfEra(doe) /\ YearOfEra(doe) <= 399
BY DEF YearOfEra

\* It is one of the 366 days of that year, at most.
LEMMA DayBounds ==
  ASSUME NEW doe \in Int, 0 <= doe, doe <= 146096
  PROVE  DayOfYear(doe) \in Int /\ 0 <= DayOfYear(doe) /\ DayOfYear(doe) <= 365
BY DEF YearOfEra, DayOfYear, DaysToYear

\* A day of a year is in one of its 12 months, counted from March.
LEMMA MonthBounds ==
  ASSUME NEW doy \in Int, 0 <= doy, doy <= 365
  PROVE  LET mp == MonthOfDay(doy) IN mp \in Int /\ mp >= 0 /\ mp <= 11 /\ MonthStart(mp) \in Int
BY DEF MonthStart, MonthOfDay

\* A year of an era leads back to the era.
LEMMA EraOfYear ==
  ASSUME NEW era \in Int, NEW yoe \in Int, 0 <= yoe, yoe <= 399
  PROVE  (yoe + era * 400) \div 400 = era
OBVIOUS

\* civil_from_days() loses nothing: days_from_civil() finds the day again, whatever the era, the
\* leap years and the length of the months.
THEOREM RoundTrip ==
  ASSUME NEW z \in Int
  PROVE  days_from_civil(civil_from_days(z)) = z
<1> DEFINE era == (z + EpochDay) \div DaysInEra
        doe == z + EpochDay - era * DaysInEra
        yoe == YearOfEra(doe)
        y == yoe + era * 400
        doy == DayOfYear(doe)
        mp == MonthOfDay(doy)
        start == MonthStart(mp)
        m == IF mp < 10 THEN mp + 3 ELSE mp - 9
        d == doy - start + 1
        year == IF m <= 2 THEN y + 1 ELSE y
<1>1. era \in Int /\ doe \in Int /\ 0 <= doe /\ doe <= 146096
  BY DEF EpochDay, DaysInEra
<1> HIDE DEF doe, era
<1>2. yoe \in Int /\ 0 <= yoe /\ yoe <= 399
  BY <1>1, YearBounds
<1>3. doy \in Int /\ 0 <= doy /\ doy <= 365
  BY <1>1, DayBounds
<1>4. doy = doe - DaysToYear(yoe)
  BY DEF DayOfYear
<1> HIDE DEF yoe, doy
<1>5. mp \in Int /\ mp >= 0 /\ mp <= 11 /\ start \in Int
  BY <1>3, MonthBounds
<1> HIDE DEF mp, start
<1>6. m \in Int /\ (IF m > 2 THEN m - 3 ELSE m + 9) = mp
  BY <1>5
<1>7. y \in Int /\ (IF m <= 2 THEN year - 1 ELSE year) = y
  BY <1>1, <1>2, <1>6
<1>8. y \div 400 = era /\ y - era * 400 = yoe
  BY <1>1, <1>2, EraOfYear
<1>9. civil_from_days(z) = [y |-> year, m |-> m, d |-> d]
  BY DEF civil_from_days, era, doe, yoe, doy, mp, start, Civil
<1> HIDE DEF m, y, d, year
<1>10. days_from_civil([y |-> year, m |-> m, d |-> d])
        = era * DaysInEra + (DaysToYear(yoe) + (start + d - 1)) - EpochDay
  BY <1>6, <1>7, <1>8 DEF days_from_civil, start
<1>11. start + d - 1 = doy
  BY <1>3, <1>5 DEF d
<1>12. DaysToYear(yoe) \in Int
  BY <1>2 DEF DaysToYear
<1>13. era * DaysInEra + (DaysToYear(yoe) + doy) - EpochDay = z
  BY <1>1, <1>3, <1>4, <1>12 DEF doe, EpochDay, DaysInEra
<1> QED BY <1>9, <1>10, <1>11, <1>13

\* What is left of a moment after its days is put back.
LEMMA TimeOfDay ==
  ASSUME NEW day \in Int, NEW hour \in Int, NEW min \in Int, NEW sec \in Int, NEW seconds \in Int,
         hour * 3600 + min * 60 + sec = seconds - day * 86400
  PROVE  day * 86400 + hour * 3600 + min * 60 + sec = seconds
OBVIOUS

\* ChronoPoint::GetTm and SetTm: the fields of a moment and its milliseconds are the moment
\* again, without what is less than a millisecond, if the duration SetTm() starts from is zero;
\* whatever it is otherwise (it is not initialised) is added to the moment.
THEOREM FieldsRoundTrip ==
  ASSUME NEW seconds \in Int, NEW us \in Nat, us < 1000000, NEW extra \in Int
  PROVE  SetTm([seconds |-> extra, us |-> 0], GetTm([seconds |-> seconds, us |-> us]), us \div 1000)
            = [seconds |-> extra + seconds, us |-> (us \div 1000) * 1000]
<1> DEFINE day == seconds \div SecondsInDay
           time == seconds - day * SecondsInDay
           c == civil_from_days(day)
           tm == GetTm([seconds |-> seconds, us |-> us])
<1>1. day \in Int /\ time \in Int
  BY DEF SecondsInDay
<1>2. (time \div 3600) * 3600 + ((time % 3600) \div 60) * 60 + (time % 60) = time
  <2> HIDE DEF time
  <2> QED BY <1>1
<1>3. c = Civil(c.y, c.m, c.d)
  BY DEF civil_from_days, Civil
<1>4. days_from_civil(c) = day
  BY <1>1, RoundTrip
<1> HIDE DEF day, c
<1>5. /\ tm.year = c.y /\ tm.mon = c.m /\ tm.mday = c.d
      /\ tm.hour = time \div 3600 /\ tm.min = (time % 3600) \div 60 /\ tm.sec = time % 60
  BY DEF GetTm, c, day
<1>6. days_from_civil(Civil(tm.year, tm.mon, tm.mday)) = day
  BY <1>3, <1>4, <1>5
<1>7. PICK hour \in Int, min \in Int, sec \in Int :
        hour = tm.hour /\ min = tm.min /\ sec = tm.sec
  BY <1>1, <1>5
<1>8. hour * 3600 + min * 60 + sec = time
  BY <1>2, <1>5, <1>7
<1> HIDE DEF tm
<1>9. day * 86400 + hour * 3600 + min * 60 + sec = seconds
  BY <1>1, <1>8, TimeOfDay DEF SecondsInDay
<1>10. extra + day * 86400 + hour * 3600 + min * 60 + sec + 0 = extra + seconds
  BY <1>1, <1>9
<1>11. extra + day * SecondsInDay + tm.hour * 3600 + tm.min * 60 + tm.sec + 0 = extra + seconds
  BY <1>7, <1>10 DEF SecondsInDay
<1>12. /\ (0 + (us \div 1000) * 1000) \div 1000000 = 0
       /\ (0 + (us \div 1000) * 1000) % 1000000 = (us \div 1000) * 1000
  OBVIOUS
<1> QED BY <1>6, <1>11, <1>12 DEF SetTm, tm
-----------------------------------------------------------------------------
(* The names of files, and their order.                                    *)

Printable == [1 .. 7 -> Int]

\* What is printed of a moment are seven numbers.
LEMMA PrintedType ==
  ASSUME NEW p \in [seconds : Int, us : Int]
  PROVE  Printed(p) \in Printable
<1> DEFINE day == p.seconds \div SecondsInDay
           time == p.seconds - day * SecondsInDay
           c == civil_from_days(day)
           tm == GetTm(p)
<1>1. day \in Int /\ time \in Int
  BY DEF SecondsInDay
<1>2. c.y \in Int /\ c.m \in Int /\ c.d \in Int
  <2> HIDE DEF day
  <2>1. ASSUME NEW doe \in Int PROVE YearOfEra(doe) \in Int
    BY DEF YearOfEra
  <2>2. ASSUME NEW yoe \in Int PROVE DaysToYear(yoe) \in Int
    BY DEF DaysToYear
  <2>3. ASSUME NEW doe \in Int PROVE DayOfYear(doe) \in Int
    BY <2>1, <2>2 DEF DayOfYear
  <2>4. ASSUME NEW doy \in Int PROVE MonthOfDay(doy) \in Int /\ MonthStart(doy) \in Int
    BY DEF MonthOfDay, MonthStart
  <2> DEFINE era == (day + EpochDay) \div DaysInEra
             doe == day + EpochDay - era * DaysInEra
  <2>5. era \in Int /\ doe \in Int
    BY <1>1 DEF EpochDay, DaysInEra
  <2> DEFINE mp == MonthOfDay(DayOfYear(doe))
  <2> HIDE DEF era, doe
  <2>6. DayOfYear(doe) \in Int /\ mp \in Int /\ MonthStart(mp) \in Int /\ YearOfEra(doe) + era * 400 \in Int
    BY <2>1, <2>3, <2>4, <2>5
  <2> HIDE DEF mp
  <2> DEFINE y == YearOfEra(doe) + era * 400
             m == IF mp < 10 THEN mp + 3 ELSE mp - 9
  <2>7. c = Civil(IF m <= 2 THEN y + 1 ELSE y, m, DayOfYear(doe) - MonthStart(mp) + 1)
    BY DEF civil_from_days, era, doe, mp
  <2> HIDE DEF c
  <2>8. m \in Int /\ y \in Int
    BY <2>6
  <2> HIDE DEF m, y
  <2> QED
    BY <2>6, <2>7, <2>8 DEF Civil
<1>3. /\ tm.year = c.y /\ tm.mon = c.m /\ tm.mday = c.d
      /\ tm.hour = time \div 3600 /\ tm.min = (time % 3600) \div 60 /\ tm.sec = time % 60
  BY DEF GetTm
<1> HIDE DEF day, c, time, tm
<1>4. time \div 3600 \in Int /\ (time % 3600) \div 60 \in Int /\ time % 60 \in Int /\ p.us \div 1000 \in Int
  BY <1>1
<1>5. Printed(p) = <<c.y, c.m, c.d, time \div 3600, (time % 3600) \div 60, time % 60, p.us \div 1000>>
  BY <1>3 DEF Printed, tm
<1> QED
  BY <1>2, <1>4, <1>5 DEF Printable

\* Their order is a strict and total one.
LEMMA BeforeIrreflexive ==
  ASSUME NEW f \in Printable
  PROVE  ~Before(f, f)
BY DEF Before, Printable

LEMMA BeforeTransitive ==
  ASSUME NEW f \in Printable, NEW g \in Printable, NEW h \in Printable, Before(f, g), Before(g, h)
  PROVE  Before(f, h)
<1>1. PICK i \in 1 .. 7 : f[i] < g[i] /\ \A j \in 1 .. i - 1 : f[j] = g[j]
  BY DEF Before
<1>2. PICK k \in 1 .. 7 : g[k] < h[k] /\ \A j \in 1 .. k - 1 : g[j] = h[j]
  BY DEF Before
<1>3. \A j \in 1 .. 7 : f[j] \in Int /\ g[j] \in Int /\ h[j] \in Int
  BY DEF Printable
<1>4. CASE i < k
  <2>1. f[i] < h[i] /\ \A j \in 1 .. i - 1 : f[j] = h[j]
    BY <1>1, <1>2, <1>4
  <2> QED
    BY <2>1 DEF Before
<1>5. CASE k < i
  <2>1. f[k] < h[k] /\ \A j \in 1 .. k - 1 : f[j] = h[j]
    BY <1>1, <1>2, <1>5
  <2> QED
    BY <2>1 DEF Before
<1>6. CASE i = k
  <2>1. f[i] < h[i]
    BY <1>1, <1>2, <1>3, <1>6
  <2>2. \A j \in 1 .. i - 1 : f[j] = h[j]
    BY <1>1, <1>2, <1>6
  <2> QED
    BY <2>1, <2>2 DEF Before
<1> QED
  BY <1>4, <1>5, <1>6

LEMMA BeforeTotal ==
  ASSUME NEW f \in Printable, NEW g \in Printable, f # g
  PROVE  Before(f, g) \/ Before(g, f)
<1>1. \A j \in 1 .. 7 : f[j] \in Int /\ g[j] \in Int
  BY DEF Printable
<1>2. \E i \in 1 .. 7 : f[i] # g[i]
  BY DEF Printable
<1>3. \E i \in 1 .. 7 : f[i] # g[i] /\ \A j \in 1 .. i - 1 : f[j] = g[j]
  <2>1. \E i \in {1, 2, 3, 4, 5, 6, 7} : f[i] # g[i] /\ \A j \in 1 .. i - 1 : f[j] = g[j]
    <3>1. CASE f[1] # g[1]
      BY <3>1
    <3>2. CASE f[1] = g[1] /\ f[2] # g[2]
      BY <3>2
    <3>3. CASE f[1] = g[1] /\ f[2] = g[2] /\ f[3] # g[3]
      BY <3>3
    <3>4. CASE f[1] = g[1] /\ f[2] = g[2] /\ f[3] = g[3] /\ f[4] # g[4]
      BY <3>4
    <3>5. CASE f[1] = g[1] /\ f[2] = g[2] /\ f[3] = g[3] /\ f[4] = g[4] /\ f[5] # g[5]
      BY <3>5
    <3>6. CASE f[1] = g[1] /\ f[2] = g[2] /\ f[3] = g[3] /\ f[4] = g[4] /\ f[5] = g[5] /\ f[6] # g[6]
      BY <3>6
    <3>7. CASE f[1] = g[1] /\ f[2] = g[2] /\ f[3] = g[3] /\ f[4] = g[4] /\ f[5] = g[5] /\ f[6] = g[6]
      BY <1>2, <3>7
    <3> QED
      BY <3>1, <3>2, <3>3, <3>4, <3>5, <3>6, <3>7
  <2> QED
    BY <2>1
<1>4. PICK i \in 1 .. 7 : f[i] # g[i] /\ \A j \in 1 .. i - 1 : f[j] = g[j]
  BY <1>3
<1>5. CASE f[i] < g[i]
  BY <1>4, <1>5 DEF Before
<1>6. CASE g[i] < f[i]
  <2>1. \A j \in 1 .. i - 1 : g[j] = f[j]
    BY <1>4
  <2> QED
    BY <1>6, <2>1 DEF Before
<1> QED
  BY <1>1, <1>4, <1>5, <1>6

-----------------------------------------------------------------------------
(* Who works on the files.                                                 *)

\* A thread works on the file only with the mutex.
LockHeld ==
    \A t \in Thread : pc[t] \in {"cleanup", "write", "unlock"} => mutex = t

\* Files are opened when none is open, and written to when one is.
FileReady ==
    \A t \in Thread :
        /\ pc[t] = "cleanup" => current = NoFile
        /\ pc[t] = "write" => current # NoFile

\* The counter starts with the file and misses no message in it.
CounterCovers ==
    /\ current = NoFile => counter = 0
    /\ current # NoFile => Len(dir[current]) <= counter

IInv == TypeOK /\ LockHeld /\ FileReady /\ CounterCovers /\ FilesBounded /\ FileBounded

-----------------------------------------------------------------------------
\* One element more or less.
LEMMA AddOne ==
  ASSUME NEW S, IsFiniteSet(S), NEW x
  PROVE  /\ IsFiniteSet(S \cup {x})
         /\ Cardinality(S) \in Nat /\ Cardinality(S \cup {x}) \in Nat
         /\ Cardinality(S \cup {x}) <= Cardinality(S) + 1
<1>1. IsFiniteSet(S \cup {x})
  BY FS_AddElement
<1>2. Cardinality(S) \in Nat /\ Cardinality(S \cup {x}) \in Nat
  BY <1>1, FS_CardinalityType
<1>3. Cardinality(S \cup {x}) = (IF x \in S THEN Cardinality(S) ELSE Cardinality(S) + 1)
  BY FS_AddElement
<1> QED BY <1>1, <1>2, <1>3

LEMMA RemoveOne ==
  ASSUME NEW S, IsFiniteSet(S), NEW x
  PROVE  /\ IsFiniteSet(S \ {x})
         /\ Cardinality(S) \in Nat /\ Cardinality(S \ {x}) \in Nat
         /\ Cardinality(S \ {x}) <= Cardinality(S)
<1>1. IsFiniteSet(S \ {x})
  BY FS_RemoveElement
<1>2. Cardinality(S) \in Nat /\ Cardinality(S \ {x}) \in Nat
  BY <1>1, FS_CardinalityType
<1>3. Cardinality(S \ {x}) = (IF x \in S THEN Cardinality(S) - 1 ELSE Cardinality(S))
  BY FS_RemoveElement
<1> QED BY <1>1, <1>2, <1>3

LEMMA InitIsRight == Init => IInv
<1> SUFFICES ASSUME Init PROVE IInv
  OBVIOUS
<1> USE LimitsAssumption, NobodyAssumption DEF Init
<1>1. Files = {} /\ IsFiniteSet(Files) /\ Cardinality(Files) = 0
  <2>1. Files = {}
    BY DEF Files
  <2>2. IsFiniteSet({}) /\ Cardinality({}) = 0
    BY FS_EmptySet
  <2> QED BY <2>1, <2>2
<1>2. TypeOK
  <2>1. dir \in [Files -> Seq(0 .. MaxLogged)]
    BY <1>1
  <2>2. written \in Seq(0 .. MaxLogged)
    OBVIOUS
  <2>3. pc \in [Thread -> {"idle", "open", "flush", "cleanup", "write", "unlock"}]
    OBVIOUS
  <2>4. message \in [Thread -> 0 .. MaxLogged]
    OBVIOUS
  <2>5. Files \subseteq Name
    BY <1>1
  <2>6. failed \subseteq Name /\ unsorted \subseteq Name
    OBVIOUS
  <2> QED BY <1>1, <2>1, <2>2, <2>3, <2>4, <2>5, <2>6 DEF TypeOK
<1>3. FilesBounded /\ FileBounded
  BY <1>1 DEF FilesBounded, FileBounded
<1>4. LockHeld /\ FileReady /\ CounterCovers
  BY DEF LockHeld, FileReady, CounterCovers
<1> QED BY <1>2, <1>3, <1>4 DEF IInv

\* Steps that leave the files alone: they only have to hand the mutex on properly.
LEMMA OthersKeep ==
  ASSUME IInv, TypeOK', LockHeld', FileReady', UNCHANGED <<dir, current, counter>>
  PROVE  IInv'
<1>1. CounterCovers' /\ FilesBounded' /\ FileBounded'
  BY DEF IInv, CounterCovers, FilesBounded, FileBounded, Files
<1> QED BY <1>1 DEF IInv

LEMMA ConstructKeeps == \A t \in Thread : IInv /\ Construct(t) => IInv'
<1> SUFFICES ASSUME NEW t \in Thread, IInv, Construct(t) PROVE IInv'
  OBVIOUS
<1> USE LimitsAssumption DEF Construct, Goto
<1>1. TypeOK'
  <2>1. logged' \in 0 .. MaxLogged /\ message' \in [Thread -> 0 .. MaxLogged]
    BY DEF IInv, TypeOK
  <2>2. level' \in [Thread -> Level \cup {0}]
    BY DEF IInv, TypeOK
  <2>3. pc' \in [Thread -> {"idle", "open", "flush", "cleanup", "write", "unlock"}]
    BY DEF IInv, TypeOK
  <2>4. UNCHANGED <<now, dir, current, failed, counter, mutex, written, unsorted, backend, dropped, faults, swaps>>
    BY DEF file
  <2> QED BY <2>1, <2>2, <2>3, <2>4 DEF IInv, TypeOK, Files
<1>2. LockHeld' /\ FileReady'
  BY DEF IInv, TypeOK, LockHeld, FileReady, file
<1> QED BY <1>1, <1>2, OthersKeep DEF file

LEMMA DestroyKeeps == \A t \in Thread : IInv /\ Destroy(t) => IInv'
<1> SUFFICES ASSUME NEW t \in Thread, IInv, Destroy(t) PROVE IInv'
  OBVIOUS
<1> USE DEF Destroy, Goto
<1>1. TypeOK'
  <2>1. dropped' \subseteq 0 .. MaxLogged
    BY DEF IInv, TypeOK
  <2>2. level' \in [Thread -> Level \cup {0}]
    BY DEF IInv, TypeOK
  <2>3. pc' \in [Thread -> {"idle", "open", "flush", "cleanup", "write", "unlock"}]
    BY DEF IInv, TypeOK
  <2>4. UNCHANGED <<now, dir, current, failed, counter, mutex, written, unsorted, backend, logged, message, faults, swaps>>
    BY DEF file
  <2> QED BY <2>1, <2>2, <2>3, <2>4 DEF IInv, TypeOK, Files
<1>2. LockHeld' /\ FileReady'
  BY DEF IInv, TypeOK, LockHeld, FileReady, file
<1> QED BY <1>1, <1>2, OthersKeep DEF file

LEMMA LockKeeps == \A t \in Thread : IInv /\ Lock(t) => IInv'
<1> SUFFICES ASSUME NEW t \in Thread, IInv, Lock(t) PROVE IInv'
  OBVIOUS
<1> USE NobodyAssumption DEF Lock, Goto, file, logger
<1>1. TypeOK'
  BY DEF IInv, TypeOK, Files
<1>2. LockHeld' /\ FileReady'
  BY DEF IInv, TypeOK, LockHeld, FileReady
<1> QED BY <1>1, <1>2, OthersKeep

LEMMA UnlockKeeps == \A t \in Thread : IInv /\ Unlock(t) => IInv'
<1> SUFFICES ASSUME NEW t \in Thread, IInv, Unlock(t) PROVE IInv'
  OBVIOUS
<1> USE NobodyAssumption DEF Unlock, Goto, file, logger
<1>1. TypeOK'
  BY DEF IInv, TypeOK, Files
<1>2. LockHeld' /\ FileReady'
  BY DEF IInv, TypeOK, LockHeld, FileReady
<1> QED BY <1>1, <1>2, OthersKeep

LEMMA OpenFailsKeeps == \A t \in Thread : IInv /\ OpenFails(t) => IInv'
<1> SUFFICES ASSUME NEW t \in Thread, IInv, OpenFails(t) PROVE IInv'
  OBVIOUS
<1> USE LimitsAssumption DEF OpenFails, Goto, file, logger, MayDisturb
<1>1. TypeOK'
  BY DEF IInv, TypeOK, Files
<1>2. LockHeld' /\ FileReady'
  BY DEF IInv, TypeOK, LockHeld, FileReady
<1> QED BY <1>1, <1>2, OthersKeep

LEMMA TickKeeps == IInv /\ Tick => IInv'
<1> SUFFICES ASSUME IInv, Tick PROVE IInv'
  OBVIOUS
<1> USE DEF Tick, file, logger
<1>1. TypeOK'
  BY DEF IInv, TypeOK, Files
<1>2. LockHeld' /\ FileReady'
  BY DEF IInv, LockHeld, FileReady
<1> QED BY <1>1, <1>2, OthersKeep

LEMMA RestartKeeps == IInv /\ Restart => IInv'
<1> SUFFICES ASSUME IInv, Restart PROVE IInv'
  OBVIOUS
<1> USE LimitsAssumption DEF Restart, MayDisturb
<1>1. TypeOK'
  BY DEF IInv, TypeOK, Files
<1>2. LockHeld' /\ FileReady' /\ CounterCovers'
  BY DEF LockHeld, FileReady, CounterCovers
<1>3. FilesBounded' /\ FileBounded'
  BY DEF IInv, FilesBounded, FileBounded, Files
<1> QED BY <1>1, <1>2, <1>3 DEF IInv

\* Nobody works on the file when the backend is replaced.
LEMMA SetLoggerBackendKeeps == IInv /\ SetLoggerBackend => IInv'
<1> SUFFICES ASSUME IInv, SetLoggerBackend PROVE IInv'
  OBVIOUS
<1> USE LimitsAssumption DEF SetLoggerBackend, MayDisturb
<1>1. TypeOK'
  BY DEF IInv, TypeOK, Files
<1>2. LockHeld' /\ FileReady' /\ CounterCovers'
  BY DEF LockHeld, FileReady, CounterCovers
<1>3. FilesBounded' /\ FileBounded'
  BY DEF IInv, FilesBounded, FileBounded, Files
<1> QED BY <1>1, <1>2, <1>3 DEF IInv

\* A file less does no harm: none is open.
LEMMA RemoveOldestKeeps == \A t \in Thread : IInv /\ RemoveOldest(t) => IInv'
<1> SUFFICES ASSUME NEW t \in Thread, IInv, RemoveOldest(t) PROVE IInv'
  OBVIOUS
<1> USE DEF RemoveOldest
<1>1. PICK f \in Files : dir' = Removed(f)
  OBVIOUS
<1>2. Files' = Files \ {f}
  BY <1>1 DEF Removed, Files
<1>3. current = NoFile
  BY DEF IInv, FileReady
<1>4. IsFiniteSet(Files) /\ IsFiniteSet(Files') /\ Cardinality(Files') <= Cardinality(Files)
  <2>1. IsFiniteSet(Files)
    BY DEF IInv, TypeOK
  <2> QED BY ONLY <1>2, <2>1, RemoveOne
<1>5. \A g \in Files' : dir'[g] = dir[g]
  BY <1>1, <1>2 DEF Removed
<1>6. TypeOK'
  <2>1. dir' \in [Files' -> Seq(0 .. MaxLogged)]
    BY <1>1, <1>2 DEF IInv, TypeOK, Removed
  <2>2. Files' \subseteq Name
    BY <1>2 DEF IInv, TypeOK
  <2> QED BY <1>3, <1>4, <2>1, <2>2 DEF IInv, TypeOK, logger
<1>7. LockHeld' /\ FileReady' /\ CounterCovers'
  BY <1>3 DEF IInv, LockHeld, FileReady, CounterCovers
<1>8. FilesBounded'
  <2>1. Cardinality(Files) \in Nat /\ Cardinality(Files') \in Nat /\ MaxFiles \in Nat
    BY <1>4, FS_CardinalityType, LimitsAssumption
  <2> QED BY <1>4, <2>1 DEF IInv, FilesBounded
<1>9. FileBounded'
  BY <1>2, <1>5 DEF IInv, FileBounded
<1> QED BY <1>6, <1>7, <1>8, <1>9 DEF IInv

\* The cleanup has left room for one file, and the file starts empty, with the counter at zero.
LEMMA OpenFileKeeps == \A t \in Thread : IInv /\ OpenFile(t) => IInv'
<1> SUFFICES ASSUME NEW t \in Thread, IInv, OpenFile(t) PROVE IInv'
  OBVIOUS
<1> DEFINE f == Printed(now)
<1> USE DEF OpenFile
<1>1. f \in Name
  BY DEF IInv, TypeOK, Name
<1> HIDE DEF f
<1>2. Files' = Files \cup {f} /\ current' = f /\ counter' = counter
  BY DEF f, Files
<1>3. dir'[f] = << >> /\ \A g \in Files \ {f} : dir'[g] = dir[g]
  BY DEF f
<1>4. counter = 0
  BY DEF IInv, FileReady, CounterCovers
<1>5. IsFiniteSet(Files) /\ IsFiniteSet(Files') /\ Cardinality(Files') <= Cardinality(Files) + 1
  <2>1. IsFiniteSet(Files)
    BY DEF IInv, TypeOK
  <2> QED BY ONLY <1>2, <2>1, AddOne
<1>6. TypeOK'
  <2>1. dir' \in [Files' -> Seq(0 .. MaxLogged)]
    <3>1. dir' = [g \in Files \cup {f} |-> IF g = f THEN << >> ELSE dir[g]]
      BY DEF f
    <3>2. << >> \in Seq(0 .. MaxLogged)
      OBVIOUS
    <3> QED BY <1>2, <3>1, <3>2 DEF IInv, TypeOK
  <2>2. Files' \subseteq Name /\ current' \in Files'
    BY <1>1, <1>2 DEF IInv, TypeOK
  <2>3. unsorted' \subseteq Name /\ failed' \subseteq Name
    BY <1>1 DEF IInv, TypeOK, f
  <2>4. pc' \in [Thread -> {"idle", "open", "flush", "cleanup", "write", "unlock"}]
    BY DEF IInv, TypeOK, Goto
  <2> QED BY <1>2, <1>5, <2>1, <2>2, <2>3, <2>4 DEF IInv, TypeOK, logger
<1>7. LockHeld'
  BY DEF IInv, LockHeld, TypeOK, Goto
<1>8. FileReady'
  <2>1. f # NoFile
    BY <1>1, NobodyAssumption
  <2>2. \A u \in Thread \ {t} : pc'[u] = pc[u] /\ pc[u] # "cleanup" /\ pc[u] # "write"
    BY DEF IInv, LockHeld, TypeOK, Goto
  <2>3. pc'[t] = "write"
    BY DEF IInv, TypeOK, Goto
  <2> QED BY <1>2, <2>1, <2>2, <2>3 DEF FileReady
<1>9. CounterCovers'
  <2>1. f # NoFile
    BY <1>1, NobodyAssumption
  <2> QED BY <1>2, <1>3, <1>4, <2>1 DEF CounterCovers
<1>10. FilesBounded'
  <2>1. Cardinality(Files) \in Nat /\ Cardinality(Files') \in Nat
    BY <1>5, FS_CardinalityType
  <2>2. Cardinality(Files) <= MaxFiles - 1
    BY <2>1, LimitsAssumption DEF TooMany
  <2> QED BY <1>5, <2>1, <2>2, LimitsAssumption DEF FilesBounded
<1>11. FileBounded'
  <2>1. Len(<< >>) <= MaxMessages + 1
    BY LimitsAssumption
  <2> QED BY <1>2, <1>3, <2>1 DEF IInv, FileBounded
<1> QED BY <1>6, <1>7, <1>8, <1>9, <1>10, <1>11 DEF IInv

\* Counting a message leaves the counter in its range, and closes the file with it at zero.
LEMMA CountIsRight ==
  ASSUME IInv, CountMessage
  PROVE  /\ counter' \in 0 .. MaxMessages
         /\ current' \in {current, NoFile}
         /\ current' = NoFile => counter' = 0 \/ current = NoFile
         /\ current' # NoFile => counter' = counter + 1
BY LimitsAssumption DEF CountMessage, Full, IInv, TypeOK

LEMMA WriteMessageKeeps == \A t \in Thread : IInv /\ WriteMessage(t) => IInv'
<1> SUFFICES ASSUME NEW t \in Thread, IInv, WriteMessage(t) PROVE IInv'
  OBVIOUS
<1> USE LimitsAssumption
<1>1. current # NoFile /\ current \in Files
  BY DEF IInv, TypeOK, FileReady, WriteMessage
<1>2. /\ counter' \in 0 .. MaxMessages
      /\ current' \in {current, NoFile}
      /\ current' = NoFile => counter' = 0
      /\ current' # NoFile => counter' = counter + 1
  BY <1>1, CountIsRight DEF WriteMessage
<1>3. dir[current] \in Seq(0 .. MaxLogged) /\ message[t] \in 0 .. MaxLogged
  BY <1>1 DEF IInv, TypeOK
<1>4. Files' = Files
  BY DEF WriteMessage, Files
<1>5. /\ dir'[current] = Append(dir[current], message[t])
      /\ \A g \in Files \ {current} : dir'[g] = dir[g]
  BY <1>1 DEF WriteMessage, IInv, TypeOK, Files
<1>6. Len(dir'[current]) = Len(dir[current]) + 1 /\ Len(dir[current]) \in Nat
  BY <1>3, <1>5
<1>7. TypeOK'
  <2>1. Append(dir[current], message[t]) \in Seq(0 .. MaxLogged)
    BY <1>3
  <2>2. dir' \in [Files' -> Seq(0 .. MaxLogged)]
    <3>1. dir' = [dir EXCEPT ![current] = Append(dir[current], message[t])]
      BY DEF WriteMessage
    <3> QED BY <1>1, <1>4, <2>1, <3>1 DEF IInv, TypeOK
  <2>3. written' \in Seq(0 .. MaxLogged)
    BY <1>3 DEF IInv, TypeOK, WriteMessage
  <2>4. pc' \in [Thread -> {"idle", "open", "flush", "cleanup", "write", "unlock"}]
    BY DEF IInv, TypeOK, WriteMessage, Goto
  <2>5. UNCHANGED <<now, failed, mutex, logger, unsorted, faults>>
    BY DEF WriteMessage
  <2> QED BY <1>1, <1>2, <1>4, <2>2, <2>3, <2>4, <2>5 DEF IInv, TypeOK, logger
<1>8. LockHeld'
  BY DEF IInv, LockHeld, TypeOK, Goto, WriteMessage
<1>9. FileReady'
  <2>1. \A u \in Thread \ {t} : pc'[u] = pc[u] /\ pc[u] # "cleanup" /\ pc[u] # "write"
    BY DEF IInv, LockHeld, TypeOK, Goto, WriteMessage
  <2>2. pc'[t] = "unlock"
    BY DEF IInv, TypeOK, Goto, WriteMessage
  <2> QED BY <2>1, <2>2 DEF FileReady
<1>10. CounterCovers'
  <2>1. counter \in 0 .. MaxMessages /\ Len(dir[current]) <= counter
    BY <1>1 DEF IInv, TypeOK, CounterCovers
  <2> QED BY <1>2, <1>6, <2>1 DEF CounterCovers
<1>11. FilesBounded'
  BY <1>4 DEF IInv, FilesBounded
<1>12. FileBounded'
  <2>1. counter \in 0 .. MaxMessages /\ Len(dir[current]) <= counter
    BY <1>1 DEF IInv, TypeOK, CounterCovers
  <2>2. Len(dir'[current]) <= MaxMessages + 1
    BY <1>6, <2>1
  <2> QED BY <1>4, <1>5, <2>2 DEF IInv, FileBounded
<1> QED BY <1>7, <1>8, <1>9, <1>10, <1>11, <1>12 DEF IInv

LEMMA WriteFailsKeeps == \A t \in Thread : IInv /\ WriteFails(t) => IInv'
<1> SUFFICES ASSUME NEW t \in Thread, IInv, WriteFails(t) PROVE IInv'
  OBVIOUS
<1> USE LimitsAssumption
<1>1. current # NoFile /\ current \in Files
  BY DEF IInv, TypeOK, FileReady, WriteFails
<1>2. /\ counter' \in 0 .. MaxMessages
      /\ current' \in {current, NoFile}
      /\ current' = NoFile => counter' = 0
      /\ current' # NoFile => counter' = counter + 1
  BY <1>1, CountIsRight DEF WriteFails
<1>3. dir' = dir /\ Files' = Files
  BY DEF WriteFails, Files
<1>4. TypeOK'
  <2>1. failed' \subseteq Name /\ faults' \in 0 .. MaxFaults
    BY <1>1 DEF IInv, TypeOK, WriteFails, MayDisturb
  <2>2. pc' \in [Thread -> {"idle", "open", "flush", "cleanup", "write", "unlock"}]
    BY DEF IInv, TypeOK, WriteFails, Goto
  <2>3. UNCHANGED <<now, mutex, logger, written, unsorted>>
    BY DEF WriteFails
  <2> QED BY <1>1, <1>2, <1>3, <2>1, <2>2, <2>3 DEF IInv, TypeOK, logger
<1>5. LockHeld'
  BY DEF IInv, LockHeld, TypeOK, Goto, WriteFails
<1>6. FileReady'
  <2>1. \A u \in Thread \ {t} : pc'[u] = pc[u] /\ pc[u] # "cleanup" /\ pc[u] # "write"
    BY DEF IInv, LockHeld, TypeOK, Goto, WriteFails
  <2>2. pc'[t] = "unlock"
    BY DEF IInv, TypeOK, Goto, WriteFails
  <2> QED BY <2>1, <2>2 DEF FileReady
<1>7. CounterCovers'
  <2>1. counter \in Nat /\ Len(dir[current]) <= counter /\ Len(dir[current]) \in Nat
    BY <1>1 DEF IInv, TypeOK, CounterCovers
  <2> QED BY <1>2, <1>3, <2>1 DEF CounterCovers
<1>8. FilesBounded' /\ FileBounded'
  BY <1>3 DEF IInv, FilesBounded, FileBounded
<1> QED BY <1>4, <1>5, <1>6, <1>7, <1>8 DEF IInv

LEMMA NextKeeps == IInv /\ [Next]_vars => IInv'
<1> SUFFICES ASSUME IInv, [Next]_vars PROVE IInv'
  OBVIOUS
<1>1. ASSUME NEW t \in Thread, Step(t) PROVE IInv'
  BY <1>1, ConstructKeeps, DestroyKeeps, LockKeeps, RemoveOldestKeeps, OpenFileKeeps, OpenFailsKeeps,
     WriteMessageKeeps, WriteFailsKeeps, UnlockKeeps DEF Step
<1>2. CASE Tick
  BY <1>2, TickKeeps
<1>3. CASE Restart
  BY <1>3, RestartKeeps
<1>5. CASE SetLoggerBackend
  BY <1>5, SetLoggerBackendKeeps
<1>4. CASE UNCHANGED vars
  <2>1. TypeOK'
    BY <1>4 DEF vars, logger, IInv, TypeOK, Files
  <2>2. LockHeld' /\ FileReady'
    BY <1>4 DEF vars, IInv, LockHeld, FileReady
  <2> QED BY <1>4, <2>1, <2>2, OthersKeep DEF vars
<1> QED BY <1>1, <1>2, <1>3, <1>4, <1>5 DEF Next

-----------------------------------------------------------------------------
\* In every reachable state one thread at most works on the file, and the counter covers it.
THEOREM Invariant == Spec => []IInv
BY InitIsRight, NextKeeps, PTL DEF Spec

\* The variables keep their types.
THEOREM TypesAreKept == Spec => []TypeOK
<1>1. IInv => TypeOK
  BY DEF IInv
<1> QED BY <1>1, Invariant, PTL

\* LoggerBackendFiles::CleanupDir: the directory never holds more than MaxFiles files.
THEOREM DirectoryIsBounded == Spec => []FilesBounded
<1>1. IInv => FilesBounded
  BY DEF IInv
<1> QED BY <1>1, Invariant, PTL

\* LoggerBackendFiles::FlushMessageInternal: no file has more than MaxMessages + 1 messages.
THEOREM FilesAreBounded == Spec => []FileBounded
<1>1. IInv => FileBounded
  BY DEF IInv
<1> QED BY <1>1, Invariant, PTL

-----------------------------------------------------------------------------
(* No message is lost: while nothing fails, the Loggers that are still to  *)
(* flush hold different messages, none of them written or dropped.         *)

Numbered ==
    faults = 0 =>
        /\ failed = {}
        /\ \A t, u \in Thread : Pending(t) /\ Pending(u) /\ message[t] = message[u] => t = u
        /\ Unwritten \cap dropped = {}

LInv == IInv /\ Numbered /\ NoneLost

\* The steps that log, drop and write nothing.
LEMMA MessagesFrame ==
  ASSUME Numbered, NoneLost, faults' = 0 => faults = 0 /\ failed' \subseteq failed,
         UNCHANGED <<logged, message, written, dropped>>,
         \A t \in Thread : Pending(t)' <=> Pending(t)
  PROVE  Numbered' /\ NoneLost'
<1>1. Unwritten' = Unwritten
  BY DEF Unwritten
<1>2. Numbered'
  BY <1>1 DEF Numbered
<1>3. NoneLost'
  <2>1. Range(written)' = Range(written) /\ (IsInjective(written)' <=> IsInjective(written))
    BY DEF Range, IsInjective
  <2> QED BY <1>1, <2>1 DEF NoneLost
<1> QED BY <1>2, <1>3

\* What a thread that begins or ends to hold a message does to the messages held.
LEMMA UnwrittenAfter ==
  ASSUME NEW t \in Thread, Numbered, faults = 0,
         \A u \in Thread \ {t} : (Pending(u)' <=> Pending(u)) /\ message'[u] = message[u]
  PROVE  /\ Pending(t)' /\ ~Pending(t) => Unwritten' = Unwritten \cup {message'[t]}
         /\ ~Pending(t)' /\ Pending(t) => Unwritten' = Unwritten \ {message[t]}
BY DEF Numbered, Unwritten

LEMMA ConstructNumbers == \A t \in Thread : LInv /\ Construct(t) => Numbered' /\ NoneLost'
<1> SUFFICES ASSUME NEW t \in Thread, LInv, Construct(t), faults' = 0
             PROVE  Numbered' /\ NoneLost'
  BY DEF Numbered, NoneLost
<1>1. /\ ~Pending(t) /\ Pending(t)' /\ message'[t] = logged + 1 /\ logged' = logged + 1
      /\ faults = 0 /\ UNCHANGED <<written, dropped, failed>>
      /\ logged \in Nat
  BY DEF LInv, IInv, TypeOK, Construct, Goto, Pending, file
<1>2. \A u \in Thread \ {t} : (Pending(u)' <=> Pending(u)) /\ message'[u] = message[u]
  BY DEF LInv, IInv, TypeOK, Construct, Goto, Pending
<1>3. Unwritten' = Unwritten \cup {logged + 1}
  BY <1>1, <1>2, UnwrittenAfter DEF LInv
<1>4. /\ Range(written) \cup Unwritten \cup dropped = 1 .. logged
      /\ logged + 1 \notin 1 .. logged /\ 1 .. (logged + 1) = (1 .. logged) \cup {logged + 1}
  BY <1>1 DEF LInv, NoneLost
<1>5. \A u \in Thread \ {t} : Pending(u) => message[u] # logged + 1
  BY <1>4 DEF Unwritten
<1>6. Numbered'
  BY <1>1, <1>2, <1>3, <1>4, <1>5 DEF LInv, Numbered
<1>7. NoneLost'
  <2>1. Range(written)' = Range(written) /\ IsInjective(written)'
    BY <1>1 DEF Range, IsInjective, LInv, NoneLost
  <2> QED BY <1>1, <1>3, <1>4, <2>1 DEF LInv, NoneLost
<1> QED BY <1>6, <1>7

LEMMA DestroyNumbers == \A t \in Thread : LInv /\ Destroy(t) => Numbered' /\ NoneLost'
<1> SUFFICES ASSUME NEW t \in Thread, LInv, Destroy(t), faults' = 0
             PROVE  Numbered' /\ NoneLost'
  BY DEF Numbered, NoneLost
<1>0. /\ faults = 0 /\ UNCHANGED <<logged, message, written, failed>> /\ Pending(t)
      /\ message[t] \in Unwritten
  BY DEF LInv, IInv, TypeOK, Destroy, Pending, Unwritten, file
<1>1. \A u \in Thread \ {t} : Pending(u)' <=> Pending(u)
  BY DEF LInv, IInv, TypeOK, Destroy, Goto, Pending
<1>2. CASE Flushed(t)
  <2>1. Pending(t)' /\ dropped' = dropped
    BY <1>2 DEF LInv, IInv, TypeOK, Destroy, Flushed, Goto, Pending
  <2> QED BY <1>0, <1>1, <2>1, MessagesFrame DEF LInv
<1>3. CASE ~Flushed(t)
  <2>1. ~Pending(t)' /\ dropped' = dropped \cup {message[t]}
    BY <1>3 DEF LInv, IInv, TypeOK, Destroy, Flushed, Goto, Pending
  <2>2. Unwritten' = Unwritten \ {message[t]}
    BY <1>0, <1>1, <2>1, UnwrittenAfter DEF LInv
  <2>3. Numbered'
    BY <1>0, <1>1, <2>1, <2>2 DEF LInv, Numbered
  <2>4. NoneLost'
    <3>1. Range(written)' = Range(written) /\ IsInjective(written)'
      BY <1>0 DEF Range, IsInjective, LInv, NoneLost
    <3> QED BY <1>0, <2>1, <2>2, <3>1 DEF LInv, NoneLost
  <2> QED BY <2>3, <2>4
<1> QED BY <1>2, <1>3

LEMMA WriteNumbers == \A t \in Thread : LInv /\ WriteMessage(t) => Numbered' /\ NoneLost'
<1> SUFFICES ASSUME NEW t \in Thread, LInv, WriteMessage(t), faults' = 0
             PROVE  Numbered' /\ NoneLost'
  BY DEF Numbered, NoneLost
<1>0. /\ faults = 0 /\ UNCHANGED <<logged, message, dropped, failed>>
      /\ Pending(t) /\ ~Pending(t)' /\ message[t] \in Unwritten
      /\ written' = Append(written, message[t])
      /\ written \in Seq(0 .. MaxLogged) /\ message[t] \in 0 .. MaxLogged
  BY DEF LInv, IInv, TypeOK, WriteMessage, Goto, Pending, Unwritten, logger
<1>1. \A u \in Thread \ {t} : Pending(u)' <=> Pending(u)
  BY DEF LInv, IInv, TypeOK, WriteMessage, Goto, Pending
<1>2. Unwritten' = Unwritten \ {message[t]}
  BY <1>0, <1>1, UnwrittenAfter DEF LInv
<1>3. message[t] \notin Range(written) /\ message[t] \notin dropped
  BY <1>0 DEF LInv, NoneLost, Numbered
<1>4. /\ DOMAIN written' = DOMAIN written \cup {Len(written) + 1}
      /\ written'[Len(written) + 1] = message[t]
      /\ \A i \in DOMAIN written : written'[i] = written[i] /\ i # Len(written) + 1
  BY <1>0
<1>5. Range(written') = Range(written) \cup {message[t]}
  BY <1>4 DEF Range
<1>6. IsInjective(written')
  <2>1. IsInjective(written) /\ \A i \in DOMAIN written : written[i] # message[t]
    BY <1>0, <1>3 DEF LInv, NoneLost, Range
  <2> QED BY <1>4, <2>1 DEF IsInjective
<1>7. Numbered'
  BY <1>0, <1>1, <1>2 DEF LInv, Numbered
<1>8. NoneLost'
  BY <1>0, <1>2, <1>3, <1>5, <1>6 DEF LInv, NoneLost
<1> QED BY <1>7, <1>8

LEMMA NextNumbers == LInv /\ [Next]_vars => Numbered' /\ NoneLost'
<1> SUFFICES ASSUME LInv, [Next]_vars PROVE Numbered' /\ NoneLost'
  OBVIOUS
<1>0. /\ Numbered /\ NoneLost /\ faults \in Nat
      /\ pc \in [Thread -> {"idle", "open", "flush", "cleanup", "write", "unlock"}]
  BY DEF LInv, IInv, TypeOK
<1>1. ASSUME NEW t \in Thread, Step(t) PROVE Numbered' /\ NoneLost'
  <2>1. CASE Construct(t) \/ Destroy(t) \/ WriteMessage(t)
    BY <2>1, ConstructNumbers, DestroyNumbers, WriteNumbers
  <2>2. CASE Lock(t) \/ RemoveOldest(t) \/ OpenFile(t) \/ Unlock(t)
    <3>1. /\ UNCHANGED <<logged, message, written, dropped, faults>>
          /\ failed' \subseteq failed
      BY <2>2 DEF Lock, RemoveOldest, OpenFile, Unlock, file, logger
    <3>2. \A u \in Thread : Pending(u)' <=> Pending(u)
      BY <1>0, <2>2 DEF Lock, RemoveOldest, OpenFile, Unlock, Goto, Pending
    <3> QED BY <1>0, <3>1, <3>2, MessagesFrame
  <2>3. CASE OpenFails(t) \/ WriteFails(t)
    <3>1. faults' # 0
      BY <1>0, <2>3 DEF OpenFails, WriteFails, Numbered
    <3> QED BY <3>1 DEF Numbered, NoneLost
  <2> QED BY <1>1, <2>1, <2>2, <2>3 DEF Step
<1>2. CASE Restart
  <2>1. faults' # 0
    BY <1>0, <1>2 DEF Restart
  <2> QED BY <2>1 DEF Numbered, NoneLost
<1>3. CASE SetLoggerBackend
  <2>1. /\ UNCHANGED <<logged, message, written, dropped, faults, pc>>
        /\ failed' \subseteq failed
    BY <1>3 DEF SetLoggerBackend
  <2> QED BY <1>0, <2>1, MessagesFrame DEF Pending
<1>4. CASE Tick \/ UNCHANGED vars
  <2>1. UNCHANGED <<logged, message, written, dropped, faults, pc, failed>>
    BY <1>4 DEF Tick, vars, file, logger
  <2> QED BY <1>0, <2>1, MessagesFrame DEF Pending
<1> QED BY <1>1, <1>2, <1>3, <1>4 DEF Next

LEMMA InitNumbers == Init => Numbered /\ NoneLost
<1> SUFFICES ASSUME Init PROVE Numbered /\ NoneLost
  OBVIOUS
<1>1. Unwritten = {} /\ dropped = {} /\ failed = {}
  BY DEF Init, Unwritten, Pending
<1>2. Range(written) = {} /\ IsInjective(written) /\ 1 .. logged = {}
  BY DEF Init, Range, IsInjective
<1>3. \A t \in Thread : ~Pending(t)
  BY DEF Init, Pending
<1> QED BY <1>1, <1>2, <1>3 DEF Numbered, NoneLost

\* Logger: while nothing fails, every message of an enabled Logger is written once, by however
\* many threads and to whatever backends, unless its Logger ends while there is no backend.
THEOREM MessagesArrive == Spec => []NoneLost
<1>1. Init => LInv
  BY InitIsRight, InitNumbers DEF LInv
<1>2. LInv /\ [Next]_vars => LInv'
  BY NextKeeps, NextNumbers DEF LInv
<1>3. LInv => NoneLost
  BY DEF LInv
<1> QED BY <1>1, <1>2, <1>3, PTL DEF Spec

-----------------------------------------------------------------------------
(* The files in the order of their names.                                  *)

\* Induction over the naturals: from the well-founded order of the library, whose induction
\* theorems no prover here can instantiate.
LEMMA SetInduction ==
  ASSUME NEW T \in SUBSET Nat, 0 \in T, \A n \in T : n + 1 \in T
  PROVE  T = Nat
<1>1. \A x, y \in Nat : y < x => <<y, x>> \in OpToRel(<, Nat)
  BY DEF OpToRel
<1>2. SUFFICES ASSUME Nat \ T # {} PROVE FALSE
  OBVIOUS
<1>3. \E x \in Nat \ T : \A y \in Nat \ T : <<y, x>> \notin OpToRel(<, Nat)
  BY <1>2, WFMin, NatLessThanWellFounded
<1>4. \E x \in Nat \ T : \A y \in Nat \ T : ~(y < x)
  BY <1>1, <1>3
<1>5. PICK x \in Nat \ T : \A y \in Nat \ T : ~(y < x)
  BY <1>4
<1>6. x # 0
  OBVIOUS
<1>7. x - 1 \in Nat /\ x - 1 < x /\ (x - 1) + 1 = x
  BY <1>6
<1>8. x - 1 \in T
  BY <1>5, <1>7
<1> QED BY <1>5, <1>7, <1>8

LEMMA NameType == Name \subseteq Printable
<1>1. ASSUME NEW p \in Moment PROVE p \in [seconds : Int, us : Int]
  BY MomentAssumption
<1>2. ASSUME NEW p \in Moment PROVE Printed(p) \in Printable
  BY <1>1, PrintedType
<1> QED BY <1>2 DEF Name

\* Facts of an order, of names.
LEMMA Order ==
  ASSUME NEW f \in Name, NEW g \in Name, NEW h \in Name
  PROVE  /\ ~Before(f, f)
         /\ Before(f, g) => ~Before(g, f)
         /\ Before(f, g) /\ Before(g, h) => Before(f, h)
         /\ f = g \/ Before(f, g) \/ Before(g, f)
BY NameType, BeforeIrreflexive, BeforeTransitive, BeforeTotal

\* The names up to one, and which of them it is.
UpTo(S, f) == {g \in S : g = f \/ Before(g, f)}
Rank(S, f) == Cardinality(UpTo(S, f))

LastOf(S, f) == \A g \in S \ {f} : Before(g, f)

\* Of some names one is the last.
LEMMA SomeLast ==
  ASSUME NEW S \in SUBSET Name, IsFiniteSet(S), S # {}
  PROVE  \E f \in S : LastOf(S, f)
<1> DEFINE T == {n \in Nat : \A R \in SUBSET Name :
                     IsFiniteSet(R) /\ Cardinality(R) = n + 1 => \E f \in R : LastOf(R, f)}
<1>1. 0 \in T
  <2> SUFFICES ASSUME NEW R \in SUBSET Name, IsFiniteSet(R), Cardinality(R) = 0 + 1
               PROVE  \E f \in R : LastOf(R, f)
    OBVIOUS
  <2>1. PICK f : R = {f}
    <3>1. Cardinality(R) = 1
      OBVIOUS
    <3> QED BY <3>1, FS_Singleton
  <2> QED BY <2>1 DEF LastOf
<1>2. ASSUME NEW n \in T PROVE n + 1 \in T
  <2>0. n \in Nat /\ n + 1 \in Nat
    OBVIOUS
  <2> SUFFICES ASSUME NEW R \in SUBSET Name, IsFiniteSet(R), Cardinality(R) = (n + 1) + 1
               PROVE  \E f \in R : LastOf(R, f)
    BY <2>0
  <2>1. PICK f : f \in R
    <3>1. Cardinality(R) # 0
      BY <2>0
    <3> QED BY <3>1, FS_EmptySet
  <2>2. IsFiniteSet(R \ {f}) /\ Cardinality(R \ {f}) = n + 1
    <3>1. IsFiniteSet(R \ {f}) /\ Cardinality(R \ {f}) = Cardinality(R) - 1
      BY <2>1, FS_RemoveElement
    <3> QED BY <2>0, <3>1
  <2>3. PICK g \in R \ {f} : LastOf(R \ {f}, g)
    BY <2>2
  <2>4. CASE Before(f, g)
    <3>1. LastOf(R, g)
      BY <2>3, <2>4 DEF LastOf
    <3> QED BY <3>1
  <2>5. CASE Before(g, f)
    <3>1. ASSUME NEW h \in R \ {f} PROVE Before(h, f)
      <4>1. h = g \/ Before(h, g)
        BY <2>3 DEF LastOf
      <4>2. f \in Name /\ g \in Name /\ h \in Name
        BY <2>1
      <4> QED BY <2>5, <4>1, <4>2, Order
    <3>2. LastOf(R, f)
      BY <3>1 DEF LastOf
    <3> QED BY <2>1, <3>2
  <2> QED BY <2>1, <2>3, <2>4, <2>5, Order
<1>3. T = Nat
  <2>1. T \in SUBSET Nat
    OBVIOUS
  <2> HIDE DEF T
  <2> QED BY <1>1, <1>2, <2>1, SetInduction
<1>4. Cardinality(S) \in Nat /\ Cardinality(S) # 0
  BY FS_CardinalityType, FS_EmptySet
<1>5. Cardinality(S) - 1 \in T /\ Cardinality(S) = (Cardinality(S) - 1) + 1
  <2> HIDE DEF T
  <2> QED BY <1>3, <1>4
<1> QED BY <1>5

\* A later name has a higher rank, and each rank is that of a name.
LEMMA RankType ==
  ASSUME NEW S \in SUBSET Name, IsFiniteSet(S), NEW f \in S
  PROVE  Rank(S, f) \in 1 .. Cardinality(S) /\ Cardinality(S) \in Nat
<1>1. IsFiniteSet(UpTo(S, f)) /\ UpTo(S, f) \subseteq S /\ f \in UpTo(S, f)
  BY FS_Subset DEF UpTo
<1>2. Cardinality(UpTo(S, f)) \in Nat /\ Cardinality(UpTo(S, f)) # 0
  BY <1>1, FS_CardinalityType, FS_EmptySet
<1>3. Cardinality(UpTo(S, f)) <= Cardinality(S) /\ Cardinality(S) \in Nat
  BY <1>1, FS_Subset, FS_CardinalityType
<1> QED BY <1>2, <1>3 DEF Rank

LEMMA RankGrows ==
  ASSUME NEW S \in SUBSET Name, IsFiniteSet(S), NEW f \in S, NEW g \in S, Before(f, g)
  PROVE  Rank(S, f) < Rank(S, g)
<1>1. IsFiniteSet(UpTo(S, g)) /\ g \in UpTo(S, g) /\ g \notin UpTo(S, f)
  <2>1. ~Before(g, f) /\ g # f
    BY Order
  <2> QED BY <2>1, FS_Subset DEF UpTo
<1>2. UpTo(S, f) \subseteq UpTo(S, g) \ {g}
  BY <1>1, Order DEF UpTo
<1>3. /\ IsFiniteSet(UpTo(S, g) \ {g})
      /\ Cardinality(UpTo(S, g) \ {g}) = Cardinality(UpTo(S, g)) - 1
  BY <1>1, FS_RemoveElement
<1>4. Cardinality(UpTo(S, f)) <= Cardinality(UpTo(S, g) \ {g})
  BY <1>2, <1>3, FS_Subset
<1>5. Rank(S, f) \in Nat /\ Rank(S, g) \in Nat
  BY RankType
<1> QED BY <1>3, <1>4, <1>5 DEF Rank

LEMMA SomeOfRank ==
  ASSUME NEW S \in SUBSET Name, IsFiniteSet(S), NEW k \in 1 .. Cardinality(S)
  PROVE  \E f \in S : Rank(S, f) = k
<1> DEFINE T == {n \in Nat : \A R \in SUBSET Name :
                     IsFiniteSet(R) /\ Cardinality(R) = n => \A i \in 1 .. n : \E f \in R : Rank(R, f) = i}
<1>1. 0 \in T
  OBVIOUS
<1>2. ASSUME NEW n \in T PROVE n + 1 \in T
  <2>0. n \in Nat /\ n + 1 \in Nat
    OBVIOUS
  <2> SUFFICES ASSUME NEW R \in SUBSET Name, IsFiniteSet(R), Cardinality(R) = n + 1, NEW i \in 1 .. n + 1
               PROVE  \E f \in R : Rank(R, f) = i
    BY <2>0
  <2>1. R # {}
    BY <2>0, FS_EmptySet
  <2>2. PICK f \in R : LastOf(R, f)
    BY <2>1, SomeLast
  <2>3. IsFiniteSet(R \ {f}) /\ Cardinality(R \ {f}) = n
    <3>1. IsFiniteSet(R \ {f}) /\ Cardinality(R \ {f}) = Cardinality(R) - 1
      BY <2>2, FS_RemoveElement
    <3> QED BY <2>0, <3>1
  <2>4. CASE i = n + 1
    <3>1. UpTo(R, f) = R
      BY <2>2 DEF UpTo, LastOf
    <3> QED BY <2>4, <3>1 DEF Rank
  <2>5. CASE i \in 1 .. n
    <3>1. PICK g \in R \ {f} : Rank(R \ {f}, g) = i
      BY <2>3, <2>5
    <3>2. f # g /\ ~Before(f, g)
      BY <2>2, Order DEF LastOf
    <3>3. UpTo(R \ {f}, g) = UpTo(R, g)
      BY <3>2 DEF UpTo
    <3> QED BY <3>1, <3>3 DEF Rank
  <2> QED BY <2>0, <2>4, <2>5
<1>3. T = Nat
  <2>1. T \in SUBSET Nat
    OBVIOUS
  <2> HIDE DEF T
  <2> QED BY <1>1, <1>2, <2>1, SetInduction
<1>4. Cardinality(S) \in T
  <2> HIDE DEF T
  <2> QED BY <1>3, FS_CardinalityType
<1> QED BY <1>4

\* SortedFiles: the files, each before the next, with none in between.
LEMMA NthFile ==
  ASSUME TypeOK, NEW k \in 1 .. Cardinality(Files)
  PROVE  Nth(k) \in Files /\ Rank(Files, Nth(k)) = k
<1>1. Files \in SUBSET Name /\ IsFiniteSet(Files)
  BY DEF TypeOK
<1>2. \E f \in Files : Cardinality({g \in Files : g = f \/ Before(g, f)}) = k
  BY <1>1, SomeOfRank DEF Rank, UpTo
<1> QED BY <1>2 DEF Nth, Rank, UpTo

LEMMA FilesInOrder ==
  ASSUME TypeOK
  PROVE  /\ Cardinality(Files) \in Nat
         /\ SortedFiles \in [1 .. Cardinality(Files) -> Files]
         /\ \A k \in 1 .. Cardinality(Files) - 1 : Follows(SortedFiles[k], SortedFiles[k + 1])
         /\ Files # {} =>
               /\ Cardinality(Files) >= 1
               /\ Oldest(SortedFiles[1]) /\ Newest(SortedFiles[Cardinality(Files)])
<1> DEFINE n == Cardinality(Files)
<1>1. Files \in SUBSET Name /\ IsFiniteSet(Files) /\ n \in Nat
  BY FS_CardinalityType DEF TypeOK
<1>2. ASSUME NEW k \in 1 .. n PROVE SortedFiles[k] \in Files /\ Rank(Files, SortedFiles[k]) = k
  BY NthFile DEF SortedFiles
<1>3. ASSUME NEW f \in Files, NEW g \in Files
      PROVE  /\ Rank(Files, f) \in 1 .. n
             /\ Before(f, g) => Rank(Files, f) < Rank(Files, g)
             /\ f = g \/ Before(f, g) \/ Before(g, f)
  BY <1>1, RankType, RankGrows, Order
<1>4. SortedFiles \in [1 .. n -> Files]
  BY <1>2 DEF SortedFiles
<1> HIDE DEF n
<1>5. ASSUME NEW k \in 1 .. n - 1 PROVE Follows(SortedFiles[k], SortedFiles[k + 1])
  <2>1. k \in 1 .. n /\ k + 1 \in 1 .. n /\ k # k + 1 /\ ~(k + 1 < k)
    BY <1>1
  <2>2. Before(SortedFiles[k], SortedFiles[k + 1])
    BY <1>2, <1>3, <2>1
  <2>3. ASSUME NEW h \in Files, Before(SortedFiles[k], h), Before(h, SortedFiles[k + 1]) PROVE FALSE
    <3>1. k < Rank(Files, h) /\ Rank(Files, h) < k + 1 /\ Rank(Files, h) \in 1 .. n
      BY <1>2, <1>3, <2>1, <2>3
    <3> QED BY <2>1, <3>1
  <2> QED BY <2>2, <2>3 DEF Follows
<1>6. ASSUME Files # {} PROVE n >= 1 /\ Oldest(SortedFiles[1]) /\ Newest(SortedFiles[n])
  <2>1. n # 0
    BY <1>1, <1>6, FS_EmptySet DEF n
  <2>2. n >= 1 /\ 1 \in 1 .. n /\ n \in 1 .. n
    BY <1>1, <2>1
  <2>3. Oldest(SortedFiles[1])
    BY <1>2, <1>3, <2>2 DEF Oldest
  <2>4. Newest(SortedFiles[n])
    BY <1>2, <1>3, <2>2 DEF Newest
  <2> QED BY <2>2, <2>3, <2>4
<1> QED BY <1>1, <1>4, <1>5, <1>6 DEF n

-----------------------------------------------------------------------------
(* What the files hold.                                                    *)

KInv == LInv /\ Laid

\* The steps that write nothing to the files and do not open or remove one.
LEMMA LaidFrame ==
  ASSUME Laid, UNCHANGED <<dir, written, unsorted>>, current' \in {current, NoFile},
         faults' = 0 /\ swaps' = 0 => faults = 0 /\ swaps = 0 /\ UNCHANGED <<current, counter>>
  PROVE  Laid'
<1> SUFFICES ASSUME unsorted' = {}
             PROVE  /\ current' # NoFile => Newest(current)'
                    /\ \E place \in [Files' -> 0 .. Len(written')] :
                          /\ Layout(place)'
                          /\ faults' = 0 /\ swaps' = 0 => Filled(place)'
  BY DEF Laid
<1>1. current # NoFile => Newest(current)
  BY DEF Laid
<1>2. PICK place \in [Files -> 0 .. Len(written)] :
          Layout(place) /\ (faults = 0 /\ swaps = 0 => Filled(place))
  BY DEF Laid
<1>3. Files' = Files /\ (\A f : Newest(f)' <=> Newest(f)) /\ (\A f : Oldest(f)' <=> Oldest(f))
  BY DEF Files, Newest, Oldest
<1>4. \A f, g : Follows(f, g)' <=> Follows(f, g)
  BY <1>3 DEF Follows
<1>5. Layout(place)'
  BY <1>2, <1>3, <1>4 DEF Layout
<1>6. faults' = 0 /\ swaps' = 0 => Filled(place)'
  BY <1>2, <1>3 DEF Filled, Closed
<1> QED BY <1>1, <1>2, <1>3, <1>5, <1>6

\* Without the oldest file the others follow each other as before, and there are enough of them.
LEMMA RemoveOldestLays == \A t \in Thread : KInv /\ RemoveOldest(t) => Laid'
<1> SUFFICES ASSUME NEW t \in Thread, KInv, RemoveOldest(t), unsorted' = {}
             PROVE  /\ current' # NoFile => Newest(current)'
                    /\ \E place \in [Files' -> 0 .. Len(written')] :
                          /\ Layout(place)'
                          /\ faults' = 0 /\ swaps' = 0 => Filled(place)'
  BY DEF Laid
<1>0. TypeOK /\ current = NoFile /\ TooMany(Cardinality(Files))
      /\ UNCHANGED <<current, counter, written, faults, swaps, unsorted>>
  BY DEF KInv, LInv, IInv, FileReady, RemoveOldest, logger
<1>1. PICK f \in Files : Oldest(f) /\ dir' = Removed(f)
  BY DEF RemoveOldest
<1>2. Files' = Files \ {f} /\ \A g \in Files' : dir'[g] = dir[g]
  BY <1>1 DEF Removed, Files
<1>3. PICK place \in [Files -> 0 .. Len(written)] :
          Layout(place) /\ (faults = 0 /\ swaps = 0 => Filled(place))
  BY <1>0 DEF KInv, Laid
<1>4. PICK rest \in [Files' -> 0 .. Len(written')] : \A g \in Files' : rest[g] = place[g]
  <2>1. [g \in Files' |-> place[g]] \in [Files' -> 0 .. Len(written')]
    BY <1>0, <1>2
  <2> QED BY <2>1
<1>5. ASSUME NEW g \in Files' PROVE Newest(g)' => Newest(g)
  BY <1>1, <1>2 DEF Newest, Oldest
<1>6. ASSUME NEW g \in Files', NEW h \in Files' PROVE Follows(g, h)' => Follows(g, h)
  <2>1. ~Before(g, f)
    <3>1. Before(f, g) /\ f \in Name /\ g \in Name
      BY <1>0, <1>1, <1>2 DEF Oldest, TypeOK
    <3> QED BY <3>1, Order
  <2> QED BY <1>2, <2>1 DEF Follows
<1>7. Layout(rest)'
  <2>1. ASSUME NEW g \in Files'
        PROVE  /\ rest[g] + Len(dir'[g]) <= Len(written')
               /\ \A i \in 1 .. Len(dir'[g]) : dir'[g][i] = written'[rest[g] + i]
               /\ Newest(g)' => rest[g] + Len(dir'[g]) = Len(written')
    <3>1. g \in Files /\ rest[g] = place[g] /\ dir'[g] = dir[g] /\ (Newest(g)' => Newest(g))
      BY <1>2, <1>4, <1>5
    <3> QED BY <1>0, <1>3, <3>1 DEF Layout
  <2>2. ASSUME NEW g \in Files', NEW h \in Files', Follows(g, h)'
        PROVE  rest[g] + Len(dir'[g]) = rest[h]
    <3>1. g \in Files /\ h \in Files /\ dir'[g] = dir[g] /\ Follows(g, h)
      BY <1>2, <1>6, <2>2
    <3>2. rest[g] = place[g] /\ rest[h] = place[h]
      BY <1>4
    <3> QED BY <1>3, <3>1, <3>2 DEF Layout
  <2> QED BY <2>1, <2>2 DEF Layout
<1>8. faults' = 0 /\ swaps' = 0 => Filled(rest)'
  <2> SUFFICES ASSUME faults' = 0, swaps' = 0 PROVE Filled(rest)'
    OBVIOUS
  <2>1. Filled(place)
    BY <1>0, <1>3
  <2>2. Closed = Files /\ Closed' = Files'
    <3>1. NoFile \notin Files
      BY <1>0, NobodyAssumption DEF TypeOK
    <3> QED BY <1>0, <1>2, <3>1 DEF Closed
  <2>3. \A g \in Closed' : Len(dir'[g]) = MaxMessages + 1
    BY <1>2, <2>1, <2>2 DEF Filled
  <2>4. Cardinality(Files') = Cardinality(Files) - 1 /\ Cardinality(Files) \in Nat
    <3>1. IsFiniteSet(Files)
      BY <1>0 DEF TypeOK
    <3> QED BY <1>2, <3>1, FS_RemoveElement, FS_CardinalityType
  <2>5. Cardinality(Closed') >= MaxFiles - 1
    BY <1>0, <2>2, <2>4, LimitsAssumption DEF TooMany
  <2> QED BY <1>0, <2>3, <2>5 DEF Filled
<1> QED BY <1>0, <1>4, <1>7, <1>8

\* A new file is the newest, if the clock has moved on, and it begins where the last one ends.
LEMMA OpenFileLays == \A t \in Thread : KInv /\ OpenFile(t) => Laid'
<1> SUFFICES ASSUME NEW t \in Thread, KInv, OpenFile(t), unsorted' = {}
             PROVE  /\ current' # NoFile => Newest(current)'
                    /\ \E place \in [Files' -> 0 .. Len(written')] :
                          /\ Layout(place)'
                          /\ faults' = 0 /\ swaps' = 0 => Filled(place)'
  BY DEF Laid
<1> PICK f : f = Printed(now)
  OBVIOUS
<1>0. /\ TypeOK /\ Files \subseteq Name /\ current = NoFile /\ counter = 0 /\ current' = f /\ f \in Name
      /\ dir' = [g \in Files \cup {f} |-> IF g = f THEN << >> ELSE dir[g]]
      /\ unsorted' = IF \A g \in Files : Before(g, f) THEN unsorted ELSE unsorted \cup {f}
      /\ UNCHANGED <<counter, written, faults, swaps>>
  BY DEF KInv, LInv, IInv, FileReady, CounterCovers, TypeOK, OpenFile, logger, Name
<1>1. unsorted = {} /\ \A g \in Files : Before(g, f)
  BY <1>0
<1>2. f \notin Files /\ Files' = Files \cup {f} /\ f # NoFile
  <2>1. ~Before(f, f)
    BY <1>0, Order
  <2>2. DOMAIN dir' = Files \cup {f}
    BY <1>0
  <2> QED BY <1>0, <1>1, <2>1, <2>2, NobodyAssumption DEF Files
<1>3. dir'[f] = << >> /\ \A g \in Files : dir'[g] = dir[g]
  BY <1>0, <1>2
<1>4. PICK place \in [Files -> 0 .. Len(written)] :
          Layout(place) /\ (faults = 0 /\ swaps = 0 => Filled(place))
  BY <1>1 DEF KInv, Laid
<1>5. Len(written) \in Nat /\ Len(written) \in 0 .. Len(written)
  BY <1>0 DEF TypeOK
<1>6. PICK more \in [Files' -> 0 .. Len(written')] :
          more[f] = Len(written) /\ \A g \in Files : more[g] = place[g]
  <2> DEFINE p == [g \in Files' |-> IF g = f THEN Len(written) ELSE place[g]]
  <2>1. p \in [Files' -> 0 .. Len(written')] /\ p[f] = Len(written) /\ \A g \in Files : p[g] = place[g]
    BY <1>0, <1>2, <1>5
  <2> QED BY <2>1
<1>7. Newest(f)' /\ \A g \in Files : ~Newest(g)' /\ ~Before(f, g)
  <2>1. ASSUME NEW g \in Files PROVE Before(g, f) /\ ~Before(f, g) /\ g # f
    BY <1>0, <1>1, <1>2, Order
  <2> QED BY <1>2, <2>1 DEF Newest
<1>8. ASSUME NEW g \in Files, NEW h \in Files PROVE Follows(g, h)' => Follows(g, h)
  BY <1>2 DEF Follows
<1>9. ASSUME NEW g \in Files, Follows(g, f)' PROVE Newest(g)
  <2>1. ASSUME NEW h \in Files \ {g} PROVE Before(h, g)
    <3>1. ~(Before(g, h) /\ Before(h, f))
      BY <1>2, <1>9 DEF Follows
    <3> QED BY <1>0, <1>1, <3>1, Order
  <2> QED BY <2>1 DEF Newest
<1>10. Layout(more)'
  <2>1. ASSUME NEW g \in Files'
        PROVE  /\ more[g] + Len(dir'[g]) <= Len(written')
               /\ \A i \in 1 .. Len(dir'[g]) : dir'[g][i] = written'[more[g] + i]
               /\ Newest(g)' => more[g] + Len(dir'[g]) = Len(written')
    <3>1. CASE g = f
      <4>1. Len(dir'[g]) = 0 /\ more[g] = Len(written)
        BY <1>3, <1>6, <3>1
      <4> QED BY <1>0, <1>5, <4>1
    <3>2. CASE g \in Files
      <4>1. more[g] = place[g] /\ dir'[g] = dir[g] /\ ~Newest(g)'
        BY <1>3, <1>6, <1>7, <3>2
      <4> QED BY <1>0, <1>4, <3>2, <4>1 DEF Layout
    <3> QED BY <1>2, <3>1, <3>2
  <2>2. ASSUME NEW g \in Files', NEW h \in Files', Follows(g, h)'
        PROVE  more[g] + Len(dir'[g]) = more[h]
    <3>1. g # f
      <4>1. Before(g, h)
        BY <2>2 DEF Follows
      <4>2. ~Before(f, f)
        BY <1>0, Order
      <4> QED BY <1>2, <1>7, <4>1, <4>2
    <3>2. g \in Files /\ more[g] = place[g] /\ dir'[g] = dir[g]
      BY <1>2, <1>3, <1>6, <3>1
    <3>3. CASE h = f
      <4>1. Newest(g)
        BY <1>9, <2>2, <3>2, <3>3
      <4> QED BY <1>4, <1>6, <3>2, <3>3, <4>1 DEF Layout
    <3>4. CASE h \in Files
      <4>1. Follows(g, h) /\ more[h] = place[h]
        BY <1>6, <1>8, <2>2, <3>2, <3>4
      <4> QED BY <1>4, <3>2, <3>4, <4>1 DEF Layout
    <3> QED BY <1>2, <3>3, <3>4
  <2> QED BY <2>1, <2>2 DEF Layout
<1>11. faults' = 0 /\ swaps' = 0 => Filled(more)'
  <2> SUFFICES ASSUME faults' = 0, swaps' = 0 PROVE Filled(more)'
    OBVIOUS
  <2>1. Filled(place)
    BY <1>0, <1>4
  <2>2. Closed = Files /\ Closed' = Files
    BY <1>0, <1>2, NobodyAssumption DEF Closed, TypeOK
  <2>3. /\ \A g \in Closed' : Len(dir'[g]) = MaxMessages + 1
        /\ Len(dir'[current']) = counter'
    BY <1>0, <1>3, <2>1, <2>2 DEF Filled
  <2>4. CASE Cardinality(Closed) >= MaxFiles - 1
    <3>1. Cardinality(Closed') >= MaxFiles - 1
      BY <2>2, <2>4
    <3> QED BY <2>3, <3>1 DEF Filled
  <2>5. CASE /\ \A g \in Files : Oldest(g) => place[g] = 0
             /\ Files = {} => written = << >>
    <3>1. ASSUME NEW g \in Files', Oldest(g)' PROVE more[g] = 0
      <4>1. CASE g = f
        <5>1. Files = {}
          BY <1>2, <1>7, <3>1, <4>1 DEF Oldest
        <5> QED BY <1>6, <2>5, <4>1, <5>1
      <4>2. CASE g \in Files
        <5>1. Oldest(g)
          BY <1>2, <3>1, <4>2 DEF Oldest
        <5> QED BY <1>6, <2>5, <4>2, <5>1
      <4> QED BY <1>2, <4>1, <4>2
    <3>2. Files' # {}
      BY <1>2
    <3> QED BY <2>3, <3>1, <3>2 DEF Filled
  <2> QED BY <2>1, <2>4, <2>5 DEF Filled
<1> QED BY <1>0, <1>6, <1>7, <1>10, <1>11

\* A message is appended to the newest file and to what is written; a full file is closed.
LEMMA WriteMessageLays == \A t \in Thread : KInv /\ WriteMessage(t) => Laid'
<1> SUFFICES ASSUME NEW t \in Thread, KInv, WriteMessage(t), unsorted' = {}
             PROVE  /\ current' # NoFile => Newest(current)'
                    /\ \E place \in [Files' -> 0 .. Len(written')] :
                          /\ Layout(place)'
                          /\ faults' = 0 /\ swaps' = 0 => Filled(place)'
  BY DEF Laid
<1>0. /\ TypeOK /\ Files \subseteq Name /\ current \in Files /\ current # NoFile
      /\ dir' = [dir EXCEPT ![current] = Append(dir[current], message[t])]
      /\ written' = Append(written, message[t])
      /\ CountMessage /\ UNCHANGED <<unsorted, faults, swaps>>
  BY DEF KInv, LInv, IInv, FileReady, TypeOK, WriteMessage, logger
<1>1. unsorted = {} /\ Newest(current)
  BY <1>0 DEF KInv, Laid
<1> PICK f : f = current
  OBVIOUS
<1>2. Files' = Files /\ (\A g : Newest(g)' <=> Newest(g)) /\ (\A g : Oldest(g)' <=> Oldest(g))
  BY <1>0 DEF Files, Newest, Oldest
<1>3. \A g, h : Follows(g, h)' <=> Follows(g, h)
  BY <1>2 DEF Follows
<1>4. ASSUME NEW g \in Files \ {f} PROVE Before(g, f) /\ ~Before(f, g) /\ ~Newest(g)
  <2>1. Before(g, f)
    BY <1>1 DEF Newest
  <2>2. ~Before(f, g)
    BY <1>0, <2>1, Order
  <2> QED BY <1>0, <2>1, <2>2 DEF Newest
<1>5. \A g \in Files : ~Before(f, g)
  <2>1. ~Before(f, f)
    BY <1>0, Order
  <2> QED BY <1>4, <2>1
<1> DEFINE n == Len(written)
           m == Len(dir[f])
<1>6. /\ n \in Nat /\ Len(written') = n + 1 /\ written'[n + 1] = message[t]
      /\ \A i \in 1 .. n : written'[i] = written[i]
  <2>1. written \in Seq(0 .. MaxLogged)
    BY <1>0 DEF TypeOK
  <2> QED BY <1>0, <2>1
<1>7. /\ m \in Nat /\ Len(dir'[f]) = m + 1 /\ dir'[f][m + 1] = message[t]
      /\ \A i \in 1 .. m : dir'[f][i] = dir[f][i]
      /\ \A g \in Files \ {f} : dir'[g] = dir[g]
  <2>1. dir \in [Files -> Seq(0 .. MaxLogged)]
    BY <1>0 DEF TypeOK
  <2>2. dir[f] \in Seq(0 .. MaxLogged) /\ dir'[f] = Append(dir[f], message[t])
    BY <1>0, <2>1
  <2>3. \A g \in Files \ {f} : dir'[g] = dir[g]
    BY <1>0, <2>1
  <2> QED BY <2>2, <2>3
<1> HIDE DEF n, m
<1>8. PICK place \in [Files -> 0 .. n] :
          Layout(place) /\ (faults = 0 /\ swaps = 0 => Filled(place))
  BY <1>1 DEF KInv, Laid, n
<1>9. place \in [Files' -> 0 .. Len(written')]
  BY <1>2, <1>6
<1>10. Layout(place)'
  <2>1. ASSUME NEW g \in Files'
        PROVE  /\ place[g] + Len(dir'[g]) <= Len(written')
               /\ \A i \in 1 .. Len(dir'[g]) : dir'[g][i] = written'[place[g] + i]
               /\ Newest(g)' => place[g] + Len(dir'[g]) = Len(written')
    <3>1. CASE g = f
      <4>1. /\ place[f] + m = n /\ place[f] \in Nat
            /\ \A i \in 1 .. m : dir[f][i] = written[place[f] + i]
        BY <1>0, <1>1, <1>8 DEF Layout, m, n
      <4>2. ASSUME NEW i \in 1 .. m + 1 PROVE dir'[f][i] = written'[place[f] + i]
        <5>1. CASE i = m + 1
          <6>1. place[f] + i = n + 1
            BY <1>6, <1>7, <4>1, <5>1
          <6> QED BY <1>6, <1>7, <5>1, <6>1
        <5>2. CASE i \in 1 .. m
          <6>1. place[f] + i \in 1 .. n
            BY <1>6, <1>7, <4>1, <5>2
          <6> QED BY <1>6, <1>7, <4>1, <5>2, <6>1
        <5> QED BY <1>7, <5>1, <5>2
      <4>3. place[f] + (m + 1) = n + 1
        BY <1>6, <1>7, <4>1
      <4> QED BY <1>6, <1>7, <3>1, <4>2, <4>3
    <3>2. CASE g \in Files \ {f}
      <4>1. /\ dir'[g] = dir[g] /\ ~Newest(g)'
            /\ place[g] + Len(dir[g]) <= n /\ place[g] \in Nat /\ Len(dir[g]) \in Nat
            /\ \A i \in 1 .. Len(dir[g]) : dir[g][i] = written[place[g] + i]
        BY <1>0, <1>2, <1>4, <1>7, <1>8, <3>2 DEF Layout, n, TypeOK
      <4>2. ASSUME NEW i \in 1 .. Len(dir[g]) PROVE written[place[g] + i] = written'[place[g] + i]
        <5>1. place[g] + i \in 1 .. n
          BY <1>6, <4>1
        <5> QED BY <1>6, <5>1
      <4> QED BY <1>6, <4>1, <4>2
    <3> QED BY <1>2, <3>1, <3>2
  <2>2. ASSUME NEW g \in Files', NEW h \in Files', Follows(g, h)'
        PROVE  place[g] + Len(dir'[g]) = place[h]
    <3>1. Follows(g, h) /\ g \in Files \ {f} /\ h \in Files
      BY <1>2, <1>3, <1>5, <2>2 DEF Follows
    <3> QED BY <1>7, <1>8, <3>1 DEF Layout
  <2> QED BY <2>1, <2>2 DEF Layout
<1>11. faults' = 0 /\ swaps' = 0 => Filled(place)'
  <2> SUFFICES ASSUME faults' = 0, swaps' = 0 PROVE Filled(place)'
    OBVIOUS
  <2>1. Filled(place) /\ m = counter /\ counter \in 0 .. MaxMessages
    BY <1>0, <1>8 DEF Filled, m, TypeOK
  <2>2. \/ current' = NoFile /\ m + 1 = MaxMessages + 1
        \/ current' = f /\ counter' = m + 1
    BY <1>0, <2>1, LimitsAssumption DEF CountMessage, Full
  <2>3. \/ Closed' = Files /\ current' = NoFile
        \/ Closed' = Closed /\ current' = f
    BY <1>0, <1>2, <2>2, NobodyAssumption DEF Closed, TypeOK
  <2>4. \A g \in Closed' : Len(dir'[g]) = MaxMessages + 1
    <3>1. ASSUME NEW g \in Files \ {f} PROVE Len(dir'[g]) = MaxMessages + 1
      BY <1>7, <2>1 DEF Filled, Closed
    <3>2. current' = NoFile => Len(dir'[f]) = MaxMessages + 1
      BY <1>0, <1>7, <2>2
    <3> QED BY <1>0, <2>3, <3>1, <3>2 DEF Closed
  <2>5. current' # NoFile => Len(dir[current])' = counter'
    BY <1>7, <2>2
  <2>6. CASE Cardinality(Closed) >= MaxFiles - 1
    <3>1. IsFiniteSet(Files) /\ Closed \subseteq Files
      BY <1>0 DEF TypeOK, Closed
    <3>2. Cardinality(Closed) <= Cardinality(Files) /\ Cardinality(Closed) \in Nat /\ Cardinality(Files) \in Nat
      BY <3>1, FS_Subset, FS_CardinalityType
    <3>3. Cardinality(Closed') >= MaxFiles - 1
      BY <2>3, <2>6, <3>2, LimitsAssumption
    <3> QED BY <2>4, <2>5, <3>3 DEF Filled
  <2>7. CASE \A g \in Files : Oldest(g) => place[g] = 0
    <3>1. Files' # {} /\ \A g \in Files' : Oldest(g)' => place[g] = 0
      BY <1>0, <1>2, <2>7
    <3> QED BY <2>4, <2>5, <3>1 DEF Filled
  <2> QED BY <2>1, <2>6, <2>7 DEF Filled
<1>12. current' # NoFile => Newest(current)'
  <2>1. current' \in {current, NoFile}
    BY <1>0 DEF CountMessage
  <2>2. Newest(f)'
    BY <1>1, <1>2
  <2>3. current' = f => Newest(current)'
    BY <2>2 DEF Newest
  <2> QED BY <2>1, <2>3
<1> QED BY <1>9, <1>10, <1>11, <1>12

LEMMA NextLays == KInv /\ [Next]_vars => Laid'
<1> SUFFICES ASSUME KInv, [Next]_vars PROVE Laid'
  OBVIOUS
<1>0. Laid /\ Numbered /\ faults \in Nat /\ swaps \in Nat
  BY DEF KInv, LInv, IInv, TypeOK
<1>1. ASSUME NEW t \in Thread, Step(t) PROVE Laid'
  <2>1. CASE RemoveOldest(t) \/ OpenFile(t) \/ WriteMessage(t)
    BY <2>1, RemoveOldestLays, OpenFileLays, WriteMessageLays
  <2>2. CASE Construct(t) \/ Destroy(t) \/ Lock(t) \/ Unlock(t)
    <3>1. UNCHANGED <<dir, written, unsorted, current, counter, faults, swaps>>
      BY <2>2 DEF Construct, Destroy, Lock, Unlock, file, logger
    <3> QED BY <1>0, <3>1, LaidFrame
  <2>3. CASE OpenFails(t)
    <3>1. UNCHANGED <<dir, written, unsorted, current>> /\ faults' # 0
      BY <1>0, <2>3 DEF OpenFails, file
    <3> QED BY <1>0, <3>1, LaidFrame
  <2>4. CASE WriteFails(t)
    <3>1. UNCHANGED <<dir, written, unsorted>> /\ current' \in {current, NoFile} /\ faults' # 0
      BY <1>0, <2>4 DEF WriteFails, CountMessage, Numbered
    <3> QED BY <1>0, <3>1, LaidFrame
  <2> QED BY <1>1, <2>1, <2>2, <2>3, <2>4 DEF Step
<1>2. CASE SetLoggerBackend
  <2>1. UNCHANGED <<dir, written, unsorted>> /\ current' = NoFile /\ swaps' # 0
    BY <1>0, <1>2 DEF SetLoggerBackend
  <2> QED BY <1>0, <2>1, LaidFrame
<1>3. CASE Restart
  <2>1. UNCHANGED <<dir, written, unsorted>> /\ current' = NoFile /\ faults' # 0
    BY <1>0, <1>3 DEF Restart
  <2> QED BY <1>0, <2>1, LaidFrame
<1>4. CASE Tick \/ UNCHANGED vars
  <2>1. UNCHANGED <<dir, written, unsorted, current, counter, faults, swaps>>
    BY <1>4 DEF Tick, vars, file, logger
  <2> QED BY <1>0, <2>1, LaidFrame
<1> QED BY <1>1, <1>2, <1>3, <1>4 DEF Next

LEMMA InitLays == Init => Laid
<1> SUFFICES ASSUME Init PROVE Laid
  OBVIOUS
<1>1. Files = {} /\ current = NoFile /\ written = << >> /\ Len(written) = 0
  BY DEF Init, Files
<1>2. PICK place : place \in [Files -> 0 .. Len(written)]
  <2>1. [f \in Files |-> 0] \in [Files -> 0 .. Len(written)]
    BY <1>1
  <2> QED BY <2>1
<1>3. Layout(place)
  BY <1>1 DEF Layout
<1>4. Filled(place)
  BY <1>1 DEF Filled, Closed
<1> QED BY <1>1, <1>2, <1>3, <1>4 DEF Laid

\* The files follow each other without a gap, up to the last message written.
THEOREM FilesAreLaid == Spec => []Laid
<1>1. Init => KInv
  BY InitIsRight, InitNumbers, InitLays DEF KInv, LInv
<1>2. KInv /\ [Next]_vars => KInv'
  BY NextKeeps, NextNumbers, NextLays DEF KInv, LInv
<1>3. KInv => Laid
  BY DEF KInv
<1> QED BY <1>1, <1>2, <1>3, PTL DEF Spec

-----------------------------------------------------------------------------
(* What is read from the files, one after the other.                       *)

\* What is built up by appending the sequences one by one, is all of them together.
LEMMA Flattened ==
  ASSUME NEW seqs, Len(seqs) \in Nat, Len(seqs) # 0, NEW g,
         g[1] = seqs[1], \A i \in 2 .. Len(seqs) : g[i] = g[i - 1] \o seqs[i]
  PROVE  FlattenSeq(seqs) = g[Len(seqs)]
<1> PICK n \in Nat \ {0} : n = Len(seqs)
  OBVIOUS
<1> DEFINE Flattens(h) == h = [i \in 1 .. n |-> IF i = 1 THEN seqs[i] ELSE h[i - 1] \o seqs[i]]
           f == CHOOSE h : Flattens(h)
<1>1. FlattenSeq(seqs) = f[n]
  BY DEF FlattenSeq
<1> DEFINE h == [i \in 1 .. n |-> g[i]]
<1>2. Flattens(h)
  <2>1. ASSUME NEW i \in 1 .. n PROVE g[i] = IF i = 1 THEN seqs[i] ELSE h[i - 1] \o seqs[i]
    <3>1. CASE i = 1
      BY <3>1
    <3>2. CASE i \in 2 .. n
      <4>1. h[i - 1] = g[i - 1]
        BY <3>2
      <4> QED BY <3>2, <4>1
    <3> QED BY <3>1, <3>2
  <2> QED BY <2>1
<1>3. Flattens(f)
  <2> HIDE DEF Flattens
  <2> QED BY <1>2
<1> HIDE DEF f
<1> DEFINE T == {k \in Nat : k + 1 \in 1 .. n => f[k + 1] = g[k + 1]}
<1>4. 0 \in T
  <2>1. 1 \in 1 .. n
    OBVIOUS
  <2>2. f[1] = seqs[1]
    BY <1>3, <2>1
  <2> QED BY <2>2
<1>5. ASSUME NEW k \in T PROVE k + 1 \in T
  <2> SUFFICES ASSUME (k + 1) + 1 \in 1 .. n PROVE f[(k + 1) + 1] = g[(k + 1) + 1]
    OBVIOUS
  <2>1. k \in Nat /\ k + 1 \in 1 .. n /\ (k + 1) + 1 \in 2 .. n /\ (k + 1) + 1 # 1 /\ ((k + 1) + 1) - 1 = k + 1
    OBVIOUS
  <2>2. f[k + 1] = g[k + 1]
    BY <2>1
  <2>3. f[(k + 1) + 1] = f[((k + 1) + 1) - 1] \o seqs[(k + 1) + 1]
    BY <1>3, <2>1
  <2>4. g[(k + 1) + 1] = g[((k + 1) + 1) - 1] \o seqs[(k + 1) + 1]
    BY <2>1
  <2> QED BY <2>1, <2>2, <2>3, <2>4
<1>6. T = Nat
  <2>1. T \in SUBSET Nat
    OBVIOUS
  <2> HIDE DEF T
  <2> QED BY <1>4, <1>5, <2>1, SetInduction
<1>7. f[n] = g[n]
  <2>1. n - 1 \in Nat /\ (n - 1) + 1 = n /\ n \in 1 .. n
    OBVIOUS
  <2>2. n - 1 \in T
    <3> HIDE DEF T
    <3> QED BY <1>6, <2>1
  <2> QED BY <2>1, <2>2
<1> QED BY <1>1, <1>7

\* From a place in it on, what is written follows itself.
Part(w, p, m) == [j \in 1 .. m |-> w[p + j]]

LEMMA PartsFollow ==
  ASSUME NEW w, NEW p \in Nat, NEW q \in Nat, NEW r \in Nat, NEW s \in Seq(0 .. MaxLogged), r = q + Len(s),
         \A i \in 1 .. Len(s) : s[i] = w[p + q + i]
  PROVE  Part(w, p, q) \o s = Part(w, p, r)
<1> PICK m \in Nat : m = Len(s)
  OBVIOUS
<1> DEFINE a == [j \in 1 .. q |-> w[p + j]]
           b == [j \in 1 .. q + m |-> w[p + j]]
<1>1. Len(a) = q /\ \A j \in 1 .. q : a[j] = w[p + j]
  OBVIOUS
<1>2. a \o s = [j \in 1 .. q + m |-> IF j <= q THEN a[j] ELSE s[j - q]]
  BY <1>1
<1> HIDE DEF a
<1>3. ASSUME NEW j \in 1 .. q + m PROVE (IF j <= q THEN a[j] ELSE s[j - q]) = w[p + j]
  <2>1. CASE j <= q
    <3>1. j \in 1 .. q
      BY <2>1
    <3> QED BY <1>1, <2>1, <3>1
  <2>2. CASE ~(j <= q)
    <3>1. j - q \in 1 .. m /\ p + q + (j - q) = p + j
      BY <2>2
    <3> QED BY <2>2, <3>1
  <2> QED BY <2>1, <2>2
<1>4. a \o s = b
  BY <1>2, <1>3
<1> QED BY <1>4 DEF a, Part

\* Files that are laid out are, read in their order, what was written from the place of the
\* oldest one on.
LEMMA LinesAre ==
  ASSUME TypeOK, NEW place \in [Files -> 0 .. Len(written)], Layout(place), Files # {}
  PROVE  Lines = Part(written, place[SortedFiles[1]], Len(written) - place[SortedFiles[1]])
<1> PICK n : n = Cardinality(Files)
  OBVIOUS
<1> DEFINE S(k) == SortedFiles[k]
           P(k) == place[S(k)]
           L(k) == Len(dir[S(k)])
<1>1. n \in Nat \ {0} /\ 1 \in 1 .. n /\ n \in 1 .. n /\ SortedFiles \in [1 .. n -> Files]
  BY FilesInOrder
<1>2. Len(written) \in Nat /\ dir \in [Files -> Seq(0 .. MaxLogged)]
  BY DEF TypeOK
<1>3. ASSUME NEW k \in 1 .. n
      PROVE  /\ S(k) \in Files /\ P(k) \in Nat /\ L(k) \in Nat /\ dir[S(k)] \in Seq(0 .. MaxLogged)
             /\ P(k) + L(k) <= Len(written)
             /\ \A i \in 1 .. L(k) : dir[S(k)][i] = written[P(k) + i]
  <2>1. S(k) \in Files
    BY <1>1
  <2>2. P(k) \in Nat /\ L(k) \in Nat /\ dir[S(k)] \in Seq(0 .. MaxLogged)
    BY <1>2, <2>1
  <2> QED BY <2>1, <2>2 DEF Layout
<1>4. ASSUME NEW k \in 1 .. n - 1 PROVE P(k) + L(k) = P(k + 1)
  <2>1. Follows(S(k), S(k + 1))
    BY <1>4, FilesInOrder
  <2>2. k \in 1 .. n /\ k + 1 \in 1 .. n
    BY <1>1
  <2> QED BY <1>3, <2>1, <2>2 DEF Layout
<1>5. P(n) + L(n) = Len(written)
  <2>1. Newest(S(n)) /\ S(n) \in Files
    BY <1>1, FilesInOrder
  <2> QED BY <2>1 DEF Layout
<1> DEFINE T == {k \in Nat : k + 1 \in 1 .. n => P(1) <= P(k + 1)}
<1> HIDE DEF S, P, L
<1>6. \A k \in 1 .. n : P(1) <= P(k)
  <2>1. 0 \in T
    BY <1>1, <1>3
  <2>2. ASSUME NEW k \in T PROVE k + 1 \in T
    <3>1. k \in Nat
      OBVIOUS
    <3> SUFFICES ASSUME (k + 1) + 1 \in 1 .. n PROVE P(1) <= P((k + 1) + 1)
      BY <3>1
    <3>2. k + 1 \in 1 .. n /\ k + 1 \in 1 .. n - 1
      BY <1>1, <3>1
    <3>3. P(1) <= P(k + 1) /\ P(k + 1) + L(k + 1) = P((k + 1) + 1)
      BY <1>4, <3>2
    <3>4. P(1) \in Nat /\ P(k + 1) \in Nat /\ L(k + 1) \in Nat
      BY <1>1, <1>3, <3>2
    <3> QED BY <3>3, <3>4
  <2>3. T = Nat
    <3>1. T \in SUBSET Nat
      OBVIOUS
    <3> HIDE DEF T
    <3> QED BY <2>1, <2>2, <3>1, SetInduction
  <2>4. ASSUME NEW k \in 1 .. n PROVE P(1) <= P(k)
    <3>1. k - 1 \in Nat /\ (k - 1) + 1 = k
      OBVIOUS
    <3>2. k - 1 \in T
      <4> HIDE DEF T
      <4> QED BY <2>3, <3>1
    <3> QED BY <3>1, <3>2
  <2> QED BY <2>4
<1> DEFINE size(k) == P(k) + L(k) - P(1)
           g == [k \in 1 .. n |-> Part(written, P(1), size(k))]
           seqs == [k \in 1 .. n |-> dir[S(k)]]
<1>7. Lines = FlattenSeq(seqs) /\ Len(seqs) = n
  BY <1>1 DEF Lines, S
<1>8. g[1] = seqs[1]
  <2>1. size(1) = L(1) /\ L(1) \in Nat
    BY <1>1, <1>3
  <2>2. g[1] = Part(written, P(1), L(1))
    BY <1>1, <2>1
  <2>3. dir[S(1)] = [j \in 1 .. L(1) |-> dir[S(1)][j]]
    BY <1>1, <1>3 DEF L
  <2>4. dir[S(1)] = Part(written, P(1), L(1))
    BY <1>1, <1>3, <2>3 DEF Part
  <2> QED BY <1>1, <2>2, <2>4
<1>9. ASSUME NEW k \in 2 .. n PROVE g[k] = g[k - 1] \o seqs[k]
  <2>1. k \in 1 .. n /\ k - 1 \in 1 .. n /\ k - 1 \in 1 .. n - 1 /\ (k - 1) + 1 = k
    BY <1>1
  <2>2. P(k - 1) + L(k - 1) = P(k)
    BY <1>4, <2>1
  <2>3. P(1) \in Nat /\ P(k) \in Nat /\ L(k) \in Nat /\ P(1) <= P(k)
    BY <1>1, <1>3, <1>6, <2>1
  <2> PICK q \in Nat : q = P(k) - P(1)
    BY <2>3
  <2>4. size(k - 1) = q /\ size(k) = q + L(k)
    <3>1. P(k - 1) \in Nat /\ L(k - 1) \in Nat
      BY <1>3, <2>1
    <3> QED BY <2>2, <2>3, <3>1
  <2>5. dir[S(k)] \in Seq(0 .. MaxLogged) /\ Len(dir[S(k)]) = L(k)
    BY <1>3, <2>1 DEF L
  <2>6. \A i \in 1 .. Len(dir[S(k)]) : dir[S(k)][i] = written[P(1) + q + i]
    <3> SUFFICES ASSUME NEW i \in 1 .. L(k) PROVE dir[S(k)][i] = written[P(1) + q + i]
      BY <2>5
    <3>1. P(1) + q + i = P(k) + i
      BY <2>3
    <3> QED BY <1>3, <2>1, <3>1
  <2>7. Part(written, P(1), q) \o dir[S(k)] = Part(written, P(1), q + L(k))
    <3> PICK r \in Nat : r = q + L(k)
      BY <2>3
    <3>1. r = q + Len(dir[S(k)])
      BY <2>5
    <3>2. Part(written, P(1), q) \o dir[S(k)] = Part(written, P(1), r)
      <4> PICK p \in Nat, s \in Seq(0 .. MaxLogged) : p = P(1) /\ s = dir[S(k)]
        BY <2>3, <2>5
      <4>1. Part(written, p, q) \o s = Part(written, p, r)
        <5>1. r = q + Len(s)
          BY <3>1
        <5>2. \A i \in 1 .. Len(s) : s[i] = written[p + q + i]
          BY <2>6
        <5>3. p \in Nat /\ q \in Nat /\ r \in Nat /\ s \in Seq(0 .. MaxLogged)
          OBVIOUS
        <5> QED BY ONLY <5>1, <5>2, <5>3, PartsFollow
      <4> QED BY <4>1
    <3> QED BY <3>2
  <2>8. /\ g[k] = Part(written, P(1), q + L(k))
        /\ g[k - 1] = Part(written, P(1), q)
        /\ seqs[k] = dir[S(k)]
    <3> HIDE DEF size
    <3> QED BY <2>1, <2>4
  <2> HIDE DEF g, seqs, size
  <2> QED BY <2>7, <2>8
<1>10. g[n] = Part(written, P(1), size(n))
  BY <1>1
<1>11. size(n) = Len(written) - P(1)
  <2>1. P(n) \in Nat /\ L(n) \in Nat /\ P(1) \in Nat
    BY <1>1, <1>3
  <2> QED BY <1>2, <1>5, <2>1
<1> HIDE DEF g, seqs, size
<1>12. FlattenSeq(seqs) = g[n]
  <2>1. \A i \in 2 .. Len(seqs) : g[i] = g[i - 1] \o seqs[i]
    BY <1>7, <1>9
  <2>2. Len(seqs) \in Nat /\ Len(seqs) # 0
    BY <1>1, <1>7
  <2>3. FlattenSeq(seqs) = g[Len(seqs)]
    BY <1>8, <2>1, <2>2, Flattened
  <2> QED BY <1>7, <2>3
<1>13. Lines = Part(written, P(1), Len(written) - P(1))
  BY <1>7, <1>10, <1>11, <1>12
<1> QED BY <1>13 DEF P, S

\* A part up to the end is a suffix.
LEMMA PartIsSuffix ==
  ASSUME NEW w, Len(w) \in Nat, NEW p \in 0 .. Len(w)
  PROVE  IsSuffix(Part(w, p, Len(w) - p), w)
<1> PICK n \in Nat, m \in Nat : n = Len(w) /\ m = n - p
  OBVIOUS
<1> DEFINE s == Part(w, p, m)
<1>1. Len(s) = m /\ \A j \in 1 .. m : s[j] = w[p + j]
  BY DEF Part
<1> HIDE DEF s
<1>2. Len(Reverse(s)) = m /\ \A j \in 1 .. m : Reverse(s)[j] = s[m - j + 1]
  BY <1>1 DEF Reverse
<1>3. Len(Reverse(w)) = n /\ \A j \in 1 .. n : Reverse(w)[j] = w[n - j + 1]
  BY DEF Reverse
<1>4. ASSUME NEW j \in 1 .. m PROVE Reverse(s)[j] = Reverse(w)[j]
  <2>1. m - j + 1 \in 1 .. m /\ j \in 1 .. n /\ p + (m - j + 1) = n - j + 1
    OBVIOUS
  <2>2. s[m - j + 1] = w[p + (m - j + 1)]
    BY <1>1, <2>1
  <2> QED BY <1>2, <1>3, <2>1, <2>2
<1>5. IsPrefix(Reverse(s), Reverse(w))
  <2>1. m <= n
    OBVIOUS
  <2> HIDE DEF s
  <2> QED BY <1>2, <1>3, <1>4, <2>1 DEF IsPrefix
<1> QED BY <1>5 DEF IsSuffix, s

\* With no file there is nothing to read.
LEMMA NoLines ==
  ASSUME Files = {}
  PROVE  Len(Lines) = 0
<1>1. Cardinality(Files) = 0
  BY FS_EmptySet
<1>2. DOMAIN SortedFiles = {}
  BY <1>1 DEF SortedFiles
<1> DEFINE seqs == [i \in DOMAIN SortedFiles |-> dir[SortedFiles[i]]]
<1>3. DOMAIN seqs = 1 .. 0
  BY <1>2
<1>4. Len(seqs) = 0
  BY <1>3
<1>5. Lines = FlattenSeq(seqs)
  BY DEF Lines
<1> HIDE DEF seqs
<1> QED BY <1>4, <1>5 DEF FlattenSeq

\* The full files between the oldest one and the k-th.
LEMMA FullFiles ==
  ASSUME TypeOK, NEW place \in [Files -> 0 .. Len(written)], Layout(place), Files # {},
         current # NoFile => Newest(current), NEW M \in Nat, \A f \in Closed : Len(dir[f]) = M
  PROVE  /\ Len(written) - place[SortedFiles[1]] >= (Cardinality(Files) - 1) * M
         /\ current = NoFile => Len(written) - place[SortedFiles[1]] = Cardinality(Files) * M
<1> PICK n : n = Cardinality(Files)
  OBVIOUS
<1> DEFINE S(k) == SortedFiles[k]
           P(k) == place[S(k)]
<1>1. n \in Nat \ {0} /\ 1 \in 1 .. n /\ n \in 1 .. n /\ SortedFiles \in [1 .. n -> Files]
  BY FilesInOrder
<1>2. Len(written) \in Nat /\ dir \in [Files -> Seq(0 .. MaxLogged)] /\ Files \subseteq Name
  BY DEF TypeOK
<1>3. ASSUME NEW k \in 1 .. n PROVE S(k) \in Files /\ P(k) \in Nat
  <2>1. S(k) \in Files
    BY <1>1
  <2>2. place[S(k)] \in 0 .. Len(written)
    BY <2>1
  <2> QED BY <1>2, <2>1, <2>2
<1>4. ASSUME NEW k \in 1 .. n - 1 PROVE P(k + 1) = P(k) + M
  <2>1. Follows(S(k), S(k + 1)) /\ S(k) \in Files /\ S(k + 1) \in Files
    BY <1>1, <1>4, FilesInOrder
  <2>2. S(k) # current
    <3> SUFFICES ASSUME S(k) = current PROVE FALSE
      OBVIOUS
    <3>1. Before(S(k), S(k + 1)) /\ ~Before(S(k + 1), S(k)) /\ S(k + 1) # S(k)
      BY <1>2, <2>1, Order DEF Follows
    <3>2. current # NoFile
      BY <1>2, <2>1, NobodyAssumption
    <3> QED BY <2>1, <3>1, <3>2 DEF Newest
  <2>3. Len(dir[S(k)]) = M
    BY <2>1, <2>2 DEF Closed
  <2> QED BY <2>1, <2>3 DEF Layout
<1>5. P(n) + Len(dir[S(n)]) = Len(written) /\ Len(dir[S(n)]) \in Nat
  <2>1. Newest(S(n)) /\ S(n) \in Files
    BY <1>1, FilesInOrder
  <2> QED BY <1>2, <2>1 DEF Layout
<1>6. current = NoFile => Len(dir[S(n)]) = M
  BY <1>1, <1>2, NobodyAssumption DEF Closed
<1> DEFINE T == {k \in Nat : k + 1 \in 1 .. n => P(k + 1) = P(1) + k * M}
<1> HIDE DEF S, P
<1>7. 0 \in T
  <2>1. P(1) \in Nat /\ 0 * M = 0
    BY <1>1, <1>3
  <2> QED BY <2>1
<1>8. ASSUME NEW k \in T PROVE k + 1 \in T
  <2>1. k \in Nat
    OBVIOUS
  <2> SUFFICES ASSUME (k + 1) + 1 \in 1 .. n PROVE P((k + 1) + 1) = P(1) + (k + 1) * M
    BY <2>1
  <2>2. k + 1 \in 1 .. n /\ k + 1 \in 1 .. n - 1
    BY <1>1, <2>1
  <2>3. P(k + 1) = P(1) + k * M /\ P((k + 1) + 1) = P(k + 1) + M /\ P(1) \in Nat
    BY <1>1, <1>3, <1>4, <2>2
  <2>4. k * M \in Nat /\ (k + 1) * M = k * M + M
    BY <2>1
  <2> QED BY <2>3, <2>4
<1>9. T = Nat
  <2>1. T \in SUBSET Nat
    OBVIOUS
  <2> HIDE DEF T
  <2> QED BY <1>7, <1>8, <2>1, SetInduction
<1>10. P(n) = P(1) + (n - 1) * M
  <2>1. n - 1 \in Nat /\ (n - 1) + 1 = n
    BY <1>1
  <2>2. n - 1 \in T
    <3> HIDE DEF T
    <3> QED BY <1>9, <2>1
  <2> QED BY <1>1, <2>1, <2>2
<1>11. (n - 1) * M \in Nat /\ n * M = (n - 1) * M + M /\ P(1) \in Nat
  BY <1>1, <1>3
<1>12. /\ Len(written) - P(1) >= (n - 1) * M
       /\ current = NoFile => Len(written) - P(1) = n * M
  BY <1>2, <1>5, <1>6, <1>10, <1>11
<1> QED BY <1>12 DEF P, S

LEMMA MoreTimes ==
  ASSUME NEW a \in Nat, NEW b \in Nat, NEW m \in Nat, a >= b
  PROVE  a * m >= b * m /\ a * m \in Nat /\ b * m \in Nat
<1>1. a - b \in Nat /\ a = b + (a - b)
  OBVIOUS
<1>2. \A d \in Nat : (b + d) * m = b * m + d * m /\ d * m \in Nat
  OBVIOUS
<1>3. b * m \in Nat
  OBVIOUS
<1>4. a * m = b * m + (a - b) * m /\ (a - b) * m \in Nat
  BY <1>1, <1>2
<1> QED BY <1>3, <1>4

\* LoggerBackendFiles: if every file was opened at a later moment than the others, the files read
\* in the order of their names hold the last messages written, none missing in between, for any
\* number of threads and any limits, through restarts, failing calls and replaced backends.
THEOREM LastLines == Spec => []LastLinesKept
<1>1. KInv => LastLinesKept
  <2> SUFFICES ASSUME KInv, unsorted = {} PROVE IsSuffix(Lines, written)
    BY DEF LastLinesKept
  <2>1. TypeOK /\ Laid /\ Len(written) \in Nat
    BY DEF KInv, LInv, IInv, TypeOK
  <2>2. PICK place \in [Files -> 0 .. Len(written)] : Layout(place)
    BY <2>1 DEF Laid
  <2>3. CASE Files = {}
    <3>1. Len(Lines) = 0
      BY <2>3, NoLines
    <3>2. Len(Reverse(Lines)) = 0 /\ Len(Reverse(written)) \in Nat
      BY <2>1, <3>1 DEF Reverse
    <3> QED BY <3>2 DEF IsSuffix, IsPrefix
  <2>4. CASE Files # {}
    <3> PICK p : p = place[SortedFiles[1]]
      OBVIOUS
    <3>1. p \in 0 .. Len(written)
      BY <2>1, <2>4, FilesInOrder
    <3>2. Lines = Part(written, p, Len(written) - p)
      BY <2>1, <2>2, <2>4, LinesAre
    <3> QED BY <2>1, <3>1, <3>2, PartIsSuffix
  <2> QED BY <2>3, <2>4
<1>2. Spec => []KInv
  <2>1. Init => KInv
    BY InitIsRight, InitNumbers, InitLays DEF KInv, LInv
  <2>2. KInv /\ [Next]_vars => KInv'
    BY NextKeeps, NextNumbers, NextLays DEF KInv, LInv
  <2> QED BY <2>1, <2>2, PTL DEF Spec
<1> QED BY <1>1, <1>2, PTL

\* LoggerBackendFiles: while nothing fails, what is written is kept, or as many of the last
\* messages as fit into all the files but one.
THEOREM Enough == Spec => []EnoughKept
<1>1. KInv => EnoughKept
  <2> SUFFICES ASSUME KInv, unsorted = {}, faults = 0, swaps = 0
               PROVE  Len(Lines) >= Len(written) \/ Len(Lines) >= (MaxFiles - 1) * (MaxMessages + 1)
    BY DEF EnoughKept
  <2>1. TypeOK /\ Laid /\ Len(written) \in Nat
    BY DEF KInv, LInv, IInv, TypeOK
  <2>2. current # NoFile => Newest(current)
    BY <2>1 DEF Laid
  <2>3. PICK place \in [Files -> 0 .. Len(written)] : Layout(place) /\ Filled(place)
    BY <2>1 DEF Laid
  <2>4. IsFiniteSet(Files) /\ Cardinality(Files) \in Nat
    BY <2>1, FS_CardinalityType DEF TypeOK
  <2> PICK M \in Nat : M = MaxMessages + 1
    BY LimitsAssumption
  <2>5. CASE Files = {}
    <3>1. Len(Lines) = 0
      BY <2>5, NoLines
    <3>2. CASE written = << >>
      BY <3>1, <3>2
    <3>3. CASE Cardinality(Closed) >= MaxFiles - 1
      <4>1. Cardinality(Closed) = 0
        BY <2>5, FS_EmptySet DEF Closed
      <4>2. MaxFiles - 1 = 0
        BY <3>3, <4>1, LimitsAssumption
      <4>3. (MaxFiles - 1) * (MaxMessages + 1) = 0
        BY <4>2, LimitsAssumption
      <4> QED BY <3>1, <4>3
    <3> QED BY <2>3, <2>5, <3>2, <3>3 DEF Filled
  <2>6. CASE Files # {}
    <3> PICK p : p = place[SortedFiles[1]]
      OBVIOUS
    <3>1. SortedFiles[1] \in Files /\ Oldest(SortedFiles[1]) /\ p \in 0 .. Len(written)
      BY <2>1, <2>4, <2>6, FilesInOrder
    <3>2. Len(Lines) = Len(written) - p
      <4>1. Lines = Part(written, p, Len(written) - p)
        BY <2>1, <2>3, <2>6, LinesAre
      <4> QED BY <2>1, <3>1, <4>1 DEF Part
    <3>3. CASE \A f \in Files : Oldest(f) => place[f] = 0
      <4>1. p = 0
        BY <3>1, <3>3
      <4> QED BY <2>1, <3>2, <4>1
    <3>4. CASE Cardinality(Closed) >= MaxFiles - 1
      <4>1. /\ Len(written) - p >= (Cardinality(Files) - 1) * M
            /\ current = NoFile => Len(written) - p = Cardinality(Files) * M
        <5>1. \A f \in Closed : Len(dir[f]) = M
          BY <2>3 DEF Filled
        <5> QED BY <2>1, <2>2, <2>3, <2>6, <5>1, FullFiles
      <4> PICK c \in Nat : c = Cardinality(Closed)
        <5>1. IsFiniteSet(Closed)
          BY <2>4, FS_Subset DEF Closed
        <5> QED BY <5>1, FS_CardinalityType
      <4>2. Len(written) - p >= c * M
        <5>1. CASE current = NoFile
          <6>1. Closed = Files
            BY <2>1, <5>1, NobodyAssumption DEF Closed, TypeOK
          <6>2. Len(written) - p = c * M
            BY <4>1, <5>1, <6>1
          <6> QED BY <2>1, <3>1, <6>2
        <5>2. CASE current # NoFile
          <6>1. current \in Files
            BY <2>1, <5>2 DEF TypeOK
          <6>2. c = Cardinality(Files) - 1
            BY <2>4, <6>1, FS_RemoveElement DEF Closed
          <6> QED BY <4>1, <6>2
        <5> QED BY <5>1, <5>2
      <4>3. c >= MaxFiles - 1 /\ MaxFiles - 1 \in Nat
        BY <3>4, LimitsAssumption
      <4>4. c * M >= (MaxFiles - 1) * M /\ c * M \in Nat /\ (MaxFiles - 1) * M \in Nat
        <5> PICK d \in Nat : d = MaxFiles - 1
          BY <4>3
        <5>1. c * M >= d * M /\ c * M \in Nat /\ d * M \in Nat
          <6>1. c >= d /\ c \in Nat /\ d \in Nat /\ M \in Nat
            BY <4>3
          <6> QED BY ONLY <6>1, MoreTimes
        <5> QED BY <5>1
      <4>5. Len(Lines) >= (MaxFiles - 1) * M
        BY <2>1, <3>1, <3>2, <4>2, <4>4
      <4>6. (MaxFiles - 1) * M = (MaxFiles - 1) * (MaxMessages + 1)
        OBVIOUS
      <4> QED BY <4>5, <4>6
    <3> QED BY <2>3, <3>3, <3>4 DEF Filled
  <2> QED BY <2>5, <2>6
<1>2. Spec => []KInv
  <2>1. Init => KInv
    BY InitIsRight, InitNumbers, InitLays DEF KInv, LInv
  <2>2. KInv /\ [Next]_vars => KInv'
    BY NextKeeps, NextNumbers, NextLays DEF KInv, LInv
  <2> QED BY <2>1, <2>2, PTL DEF Spec
<1> QED BY <1>1, <1>2, PTL

=============================================================================
