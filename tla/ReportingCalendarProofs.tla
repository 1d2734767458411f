----------------------- MODULE ReportingCalendarProofs -----------------------
(***************************************************************************)
(* Proofs about ReportingCalendar, for every set of commands and every     *)
(* years they may be asked for.                                            *)
(*                                                                         *)
(* The first half is arithmetic: a date has one year, one month and one    *)
(* ISO week, whichever way they are found, so that the row Python derives  *)
(* and the row the database derives are the same for every supported date. *)
(* The second half is the invariant of populate_calendar.                  *)
(***************************************************************************)
EXTENDS ReportingCalendar, FiniteSetTheorems, TLAPS

-----------------------------------------------------------------------------
(***************************************************************************)
(* Years.                                                                  *)
(***************************************************************************)

LEMMA LengthOfYear ==
  ASSUME NEW y \in Int
  PROVE  /\ DaysBeforeYear(y) \in Int
         /\ DaysBeforeYear(y + 1) = DaysBeforeYear(y) + (IF Leap(y) THEN 366 ELSE 365)
  <1>1. y \div 4 = (y - 1) \div 4 + (IF y % 4 = 0 THEN 1 ELSE 0)
    OBVIOUS
  <1>2. y \div 100 = (y - 1) \div 100 + (IF y % 100 = 0 THEN 1 ELSE 0)
    OBVIOUS
  <1>3. y \div 400 = (y - 1) \div 400 + (IF y % 400 = 0 THEN 1 ELSE 0)
    OBVIOUS
  <1>4. (y % 100 = 0 => y % 4 = 0) /\ (y % 400 = 0 => y % 100 = 0)
    OBVIOUS
  <1>5. (y + 1) - 1 = y
    OBVIOUS
  <1> QED BY <1>1, <1>2, <1>3, <1>4, <1>5 DEF DaysBeforeYear, Leap

LEMMA YearsGrow ==
  ASSUME NEW y \in Int, NEW z \in Int, y < z
  PROVE  DaysBeforeYear(y) + 365 * (z - y) <= DaysBeforeYear(z)
  <1> DEFINE fours(n) == (n - 1) \div 4
             rest(n)  == fours(n) \div 25
  <1>1. /\ (y - 1) \div 100 = (fours(y)) \div 25
        /\ (z - 1) \div 100 = (fours(z)) \div 25
    OBVIOUS
  <1>2. /\ fours(y) \in Int /\ fours(z) \in Int /\ fours(y) <= fours(z)
    OBVIOUS
  <1>3. \A a, b \in Int : a <= b => a - (a \div 25) <= b - (b \div 25)
    OBVIOUS
  <1>4. (y - 1) \div 400 <= (z - 1) \div 400
    OBVIOUS
  <1>5. fours(y) - (fours(y) \div 25) <= fours(z) - (fours(z) \div 25)
    BY <1>2, <1>3
  <1> QED BY <1>1, <1>2, <1>4, <1>5 DEF DaysBeforeYear

\* The search of YearOf finds the year a date lies in, and there is only one.
LEMMA YearFound ==
  ASSUME NEW o \in Int, o >= 1
  PROVE  /\ YearOf(o) \in Nat \ {0}
         /\ DaysBeforeYear(YearOf(o)) < o /\ o <= DaysBeforeYear(YearOf(o) + 1)
  <1> DEFINE q == (400 * (o - 1)) \div 146097
  <1>1. q \in Nat /\ 146097 * q <= 400 * (o - 1) /\ 400 * (o - 1) < 146097 * (q + 1)
    OBVIOUS
  <1> HIDE DEF q
  <1>2. \A n \in Int : /\ 4 * (n \div 4) <= n /\ n <= 4 * (n \div 4) + 3
                       /\ 100 * (n \div 100) <= n /\ n <= 100 * (n \div 100) + 99
                       /\ 400 * (n \div 400) <= n /\ n <= 400 * (n \div 400) + 399
    OBVIOUS
  <1>3. DaysBeforeYear(q) < o
    BY <1>1, <1>2 DEF DaysBeforeYear
  <1>4. o <= DaysBeforeYear(q + 3)
    BY <1>1, <1>2 DEF DaysBeforeYear
  <1>5. \E y \in q..q + 2 : DaysBeforeYear(y) < o /\ o <= DaysBeforeYear(y + 1)
    <2>1. /\ DaysBeforeYear(q) \in Int /\ DaysBeforeYear(q + 1) \in Int
          /\ DaysBeforeYear(q + 2) \in Int /\ DaysBeforeYear(q + 3) \in Int
      BY <1>1, LengthOfYear
    <2>2. /\ (q + 1) + 1 = q + 2 /\ (q + 2) + 1 = q + 3
          /\ q \in q..q + 2 /\ q + 1 \in q..q + 2 /\ q + 2 \in q..q + 2
      BY <1>1
    <2>3. CASE o <= DaysBeforeYear(q + 1)
      BY <1>3, <2>2, <2>3
    <2>4. CASE DaysBeforeYear(q + 1) < o /\ o <= DaysBeforeYear(q + 2)
      BY <2>2, <2>4
    <2>5. CASE DaysBeforeYear(q + 2) < o
      BY <1>4, <2>2, <2>5
    <2> QED BY <2>1, <2>3, <2>4, <2>5
  <1>6. /\ YearOf(o) \in q..q + 2
        /\ DaysBeforeYear(YearOf(o)) < o /\ o <= DaysBeforeYear(YearOf(o) + 1)
    BY <1>5 DEF YearOf, q
  <1>7. DaysBeforeYear(0 + 1) = 0
    BY DEF DaysBeforeYear
  <1>8. YearOf(o) # 0
    BY <1>6, <1>7
  <1> QED BY <1>1, <1>6, <1>8

LEMMA YearUnique ==
  ASSUME NEW o \in Int, o >= 1, NEW y \in Int,
         DaysBeforeYear(y) < o, o <= DaysBeforeYear(y + 1)
  PROVE  YearOf(o) = y
  <1> DEFINE x == YearOf(o)
  <1>1. x \in Int /\ DaysBeforeYear(x) < o /\ o <= DaysBeforeYear(x + 1)
    BY YearFound
  <1> HIDE DEF x
  <1>2. /\ DaysBeforeYear(x) \in Int /\ DaysBeforeYear(x + 1) \in Int
        /\ DaysBeforeYear(y) \in Int /\ DaysBeforeYear(y + 1) \in Int
    BY <1>1, LengthOfYear
  <1>3. ASSUME NEW a \in Int, NEW b \in Int, a < b
        PROVE  DaysBeforeYear(a + 1) <= DaysBeforeYear(b)
    <2>1. CASE a + 1 = b
      <3>1. DaysBeforeYear(b) \in Int
        BY LengthOfYear
      <3>2. DaysBeforeYear(a + 1) = DaysBeforeYear(b)
        BY <2>1
      <3> QED BY <3>1, <3>2
    <2>2. CASE a + 1 < b
      <3>1. /\ DaysBeforeYear(a + 1) \in Int /\ DaysBeforeYear(b) \in Int
            /\ 365 * (b - (a + 1)) \in Nat
        BY <2>2, LengthOfYear
      <3>2. DaysBeforeYear(a + 1) + 365 * (b - (a + 1)) <= DaysBeforeYear(b)
        BY <2>2, YearsGrow
      <3> HIDE DEF x
      <3> QED BY <3>1, <3>2
    <2>3. a + 1 = b \/ a + 1 < b
      BY <1>3
    <2> QED BY <2>1, <2>2, <2>3
  <1>4. ~(x < y)
    BY <1>1, <1>2, <1>3
  <1>5. ~(y < x)
    BY <1>1, <1>2, <1>3
  <1> QED BY <1>1, <1>4, <1>5 DEF x

-----------------------------------------------------------------------------
(***************************************************************************)
(* Months.                                                                 *)
(***************************************************************************)

LEMMA TwelveMonths ==
  ASSUME NEW m \in 1..12
  PROVE  \/ m = 1 \/ m = 2 \/ m = 3 \/ m = 4 \/ m = 5 \/ m = 6
         \/ m = 7 \/ m = 8 \/ m = 9 \/ m = 10 \/ m = 11 \/ m = 12
  OBVIOUS

LEMMA MonthTable ==
  ASSUME NEW y \in Int
  PROVE  LET leap == IF Leap(y) THEN 1 ELSE 0 IN
         /\ DaysBeforeMonth(y, 1) = 0            /\ DaysIn(y, 1) = 31
         /\ DaysBeforeMonth(y, 2) = 31           /\ DaysIn(y, 2) = 28 + leap
         /\ DaysBeforeMonth(y, 3) = 59 + leap    /\ DaysIn(y, 3) = 31
         /\ DaysBeforeMonth(y, 4) = 90 + leap    /\ DaysIn(y, 4) = 30
         /\ DaysBeforeMonth(y, 5) = 120 + leap   /\ DaysIn(y, 5) = 31
         /\ DaysBeforeMonth(y, 6) = 151 + leap   /\ DaysIn(y, 6) = 30
         /\ DaysBeforeMonth(y, 7) = 181 + leap   /\ DaysIn(y, 7) = 31
         /\ DaysBeforeMonth(y, 8) = 212 + leap   /\ DaysIn(y, 8) = 31
         /\ DaysBeforeMonth(y, 9) = 243 + leap   /\ DaysIn(y, 9) = 30
         /\ DaysBeforeMonth(y, 10) = 273 + leap  /\ DaysIn(y, 10) = 31
         /\ DaysBeforeMonth(y, 11) = 304 + leap  /\ DaysIn(y, 11) = 30
         /\ DaysBeforeMonth(y, 12) = 334 + leap  /\ DaysIn(y, 12) = 31
  BY DEF DaysBeforeMonth, DaysBefore, DaysIn

LEMMA MonthFound ==
  ASSUME NEW o \in Int, o >= 1
  PROVE  /\ MonthOf(o) \in 1..12
         /\ DaysBeforeMonth(YearOf(o), MonthOf(o)) < DayOfYear(o)
         /\ DayOfYear(o) <= DaysBeforeMonth(YearOf(o), MonthOf(o))
                              + DaysIn(YearOf(o), MonthOf(o))
  <1> DEFINE y    == YearOf(o)
             day  == DayOfYear(o)
             here(m) == DaysBeforeMonth(y, m) < day
                          /\ day <= DaysBeforeMonth(y, m) + DaysIn(y, m)
  <1>1. y \in Int
    BY YearFound
  <1>2. day \in Int /\ 1 <= day /\ day <= (IF Leap(y) THEN 366 ELSE 365)
    <2>1. /\ DaysBeforeYear(y) \in Int
          /\ DaysBeforeYear(y + 1) = DaysBeforeYear(y) + (IF Leap(y) THEN 366 ELSE 365)
      BY <1>1, LengthOfYear
    <2>2. DaysBeforeYear(y) < o /\ o <= DaysBeforeYear(y + 1)
      BY YearFound
    <2>3. day = o - DaysBeforeYear(y)
      BY DEF DayOfYear
    <2> HIDE DEF y, day
    <2> QED BY <2>1, <2>2, <2>3
  <1>3. MonthOf(o) = CHOOSE m \in 1..12 : here(m)
    BY DEF MonthOf, DayOfYear
  <1>4. \E m \in 1..12 : here(m)
    <2> HIDE DEF y, day
    <2>1. \/ here(1) \/ here(2) \/ here(3) \/ here(4) \/ here(5) \/ here(6)
          \/ here(7) \/ here(8) \/ here(9) \/ here(10) \/ here(11) \/ here(12)
      BY <1>1, <1>2, MonthTable
    <2> HIDE DEF here
    <2> QED BY <2>1
  <1>5. MonthOf(o) \in 1..12 /\ here(MonthOf(o))
    <2> HIDE DEF here
    <2> QED BY <1>3, <1>4
  <1> QED BY <1>5

\* What both rows are made of: a year, a month and a day of it.
LEMMA PartsOfADate ==
  ASSUME NEW o \in Int, o >= 1
  PROVE  LET y == YearOf(o)
             m == MonthOf(o)
         IN  /\ y \in Nat \ {0}
             /\ m \in 1..12
             /\ DaysBeforeYear(y) \in Int
             /\ Ordinal(y, m, 1) <= o
             /\ o <= Ordinal(y, m, 1) + DaysIn(y, m) - 1
             /\ DayOfYear(o) = o - DaysBeforeYear(y)
  <1> DEFINE y == YearOf(o)
             m == MonthOf(o)
  <1>1. y \in Nat \ {0} /\ m \in 1..12
    BY YearFound, MonthFound
  <1>2. /\ DaysBeforeMonth(y, m) < DayOfYear(o)
        /\ DayOfYear(o) <= DaysBeforeMonth(y, m) + DaysIn(y, m)
    BY MonthFound
  <1>3. DayOfYear(o) = o - DaysBeforeYear(y)
    BY DEF DayOfYear
  <1>4. DaysBeforeYear(y) \in Int
    BY <1>1, LengthOfYear
  <1>5. DaysBeforeMonth(y, m) \in Int /\ DaysIn(y, m) \in Int
    <2> HIDE DEF y, m
    <2> QED BY <1>1, MonthTable, TwelveMonths
  <1> HIDE DEF y, m
  <1>6. Ordinal(y, m, 1) <= o /\ o <= Ordinal(y, m, 1) + DaysIn(y, m) - 1
    BY <1>2, <1>3, <1>4, <1>5 DEF Ordinal
  <1> QED BY <1>1, <1>3, <1>4, <1>6 DEF y, m

\* Adding months in SQL and naming the last day in Python end at the same date.
LEMMA EndsOfPeriods ==
  ASSUME NEW y \in Int, NEW m \in 1..12
  PROVE  LET first == 3 * ((m + 2) \div 3) - 2 IN
         /\ MonthsAfter(y, m, 1) - 1 = LastDayOfMonth(y, m)
         /\ LastDayOfMonth(y, m) = Ordinal(y, m, 1) + DaysIn(y, m) - 1
         /\ MonthsAfter(y, first, 3) - 1 = LastDayOfQuarter(y, first)
         /\ MonthsAfter(y, 1, 12) - 1 = Ordinal(y, 12, 31)
         /\ first \in {1, 4, 7, 10}
         /\ first <= m /\ m <= first + 2
         /\ Ordinal(y, 1, 1) <= Ordinal(y, first, 1)
         /\ Ordinal(y, first, 1) <= Ordinal(y, m, 1)
         /\ LastDayOfMonth(y, m) <= LastDayOfQuarter(y, first)
         /\ LastDayOfQuarter(y, first) <= Ordinal(y, 12, 31)
  <1> DEFINE first == 3 * ((m + 2) \div 3) - 2
  <1>1. /\ DaysBeforeYear(y) \in Int
        /\ DaysBeforeYear(y + 1) = DaysBeforeYear(y) + (IF Leap(y) THEN 366 ELSE 365)
    BY LengthOfYear
  <1>2. \A k \in Int : /\ 0 <= k /\ k <= 11 => k \div 12 = 0 /\ k % 12 = k
                       /\ k = 12 => k \div 12 = 1 /\ k % 12 = 0
    OBVIOUS
  <1>3. /\ m <= 11 => MonthsAfter(y, m, 1) = Ordinal(y, m + 1, 1)
        /\ m = 12 => MonthsAfter(y, m, 1) = Ordinal(y + 1, 1, 1)
    BY <1>2 DEF MonthsAfter
  <1>4. MonthsAfter(y, 1, 12) = Ordinal(y + 1, 1, 1)
    BY <1>2 DEF MonthsAfter
  <1>5. /\ first \in {1, 4, 7, 10}
        /\ first <= m /\ m <= first + 2
    OBVIOUS
  <1> HIDE DEF first
  <1>6. /\ first <= 9 => MonthsAfter(y, first, 3) = Ordinal(y, first + 3, 1)
        /\ first = 10 => MonthsAfter(y, first, 3) = Ordinal(y + 1, 1, 1)
    BY <1>2, <1>5 DEF MonthsAfter
  <1>7. Ordinal(y + 1, 1, 1) - 1 = Ordinal(y, 12, 31)
    BY <1>1, MonthTable DEF Ordinal
  <1>8. LastDayOfMonth(y, m) = Ordinal(y, m, 1) + DaysIn(y, m) - 1
    BY <1>1, MonthTable, TwelveMonths DEF Ordinal, LastDayOfMonth
  <1>9. /\ MonthsAfter(y, m, 1) - 1 = LastDayOfMonth(y, m)
        /\ MonthsAfter(y, first, 3) - 1 = LastDayOfQuarter(y, first)
        /\ MonthsAfter(y, 1, 12) - 1 = Ordinal(y, 12, 31)
    BY <1>3, <1>4, <1>5, <1>6, <1>7 DEF LastDayOfMonth, LastDayOfQuarter
  <1>10. /\ Ordinal(y, 1, 1) <= Ordinal(y, first, 1)
         /\ Ordinal(y, first, 1) <= Ordinal(y, m, 1)
    BY <1>1, <1>5, MonthTable, TwelveMonths DEF Ordinal
  <1>11. /\ LastDayOfMonth(y, m) <= LastDayOfQuarter(y, first)
         /\ LastDayOfQuarter(y, first) <= Ordinal(y, 12, 31)
    BY <1>1, <1>5, <1>8, MonthTable, TwelveMonths DEF Ordinal, LastDayOfQuarter
  <1> QED BY <1>5, <1>8, <1>9, <1>10, <1>11 DEF first

-----------------------------------------------------------------------------
(***************************************************************************)
(* Weeks.                                                                  *)
(***************************************************************************)

\* The Monday of the week a date lies in.
Monday(o) == o - (IsoWeekday(o) - 1)

LEMMA MondayFacts ==
  ASSUME NEW o \in Int
  PROVE  /\ Monday(o) \in Int /\ Monday(o) % 7 = 1
         /\ Monday(o) <= o /\ o <= Monday(o) + 6
         /\ IsoWeekday(o) \in 1..7 /\ IsoWeekday(o) = o - Monday(o) + 1
         /\ o >= 1 => Monday(o) >= 1
  BY DEF Monday, IsoWeekday

LEMMA FirstWeekFacts ==
  ASSUME NEW y \in Int
  PROVE  /\ DaysBeforeYear(y) \in Int
         /\ FirstWeek(y) \in Int /\ FirstWeek(y) % 7 = 1
         /\ FirstWeek(y) <= DaysBeforeYear(y) + 4
         /\ DaysBeforeYear(y) + 4 <= FirstWeek(y) + 6
  <1>1. DaysBeforeYear(y) \in Int
    BY LengthOfYear
  <1>2. Ordinal(y, 1, 4) = DaysBeforeYear(y) + 4
    BY <1>1, MonthTable DEF Ordinal
  <1>3. FirstWeek(y) = Monday(Ordinal(y, 1, 4))
    BY DEF FirstWeek, Monday
  <1> QED BY <1>1, <1>2, <1>3, MondayFacts

\* Mondays are whole weeks apart.
LEMMA WholeWeeks ==
  ASSUME NEW a \in Int, NEW b \in Int, a % 7 = 1, b % 7 = 1
  PROVE  /\ a < b => a + 7 <= b
         /\ a <= b => \A r \in 0..6 : ((b + r) - a) \div 7 = (b - a) \div 7
         /\ 7 * ((b - a) \div 7) = b - a
  OBVIOUS

InWeekYear(o, y) == FirstWeek(y) <= o /\ o < FirstWeek(y + 1)

LEMMA WeekYearUnique ==
  ASSUME NEW o \in Int, NEW y \in Int, NEW z \in Int, InWeekYear(o, y), InWeekYear(o, z)
  PROVE  y = z
  <1>1. ASSUME NEW a \in Int, NEW b \in Int, a < b
        PROVE  FirstWeek(a + 1) <= FirstWeek(b)
    <2>1. CASE a + 1 = b
      <3>1. FirstWeek(b) \in Int
        BY FirstWeekFacts
      <3>2. FirstWeek(a + 1) = FirstWeek(b)
        BY <2>1
      <3> QED BY <3>1, <3>2
    <2>2. CASE a + 1 < b
      <3>1. /\ a + 1 \in Int /\ 365 * (b - (a + 1)) \in Nat /\ 365 * (b - (a + 1)) >= 365
        BY <2>2
      <3>2. DaysBeforeYear(a + 1) + 365 * (b - (a + 1)) <= DaysBeforeYear(b)
        BY <2>2, YearsGrow
      <3>3. /\ DaysBeforeYear(a + 1) \in Int /\ DaysBeforeYear(b) \in Int
            /\ FirstWeek(a + 1) \in Int /\ FirstWeek(b) \in Int
            /\ FirstWeek(a + 1) <= DaysBeforeYear(a + 1) + 4
            /\ DaysBeforeYear(b) + 4 <= FirstWeek(b) + 6
        BY <3>1, FirstWeekFacts
      <3> QED BY <3>1, <3>2, <3>3
    <2>3. a + 1 = b \/ a + 1 < b
      BY <1>1
    <2> QED BY <2>1, <2>2, <2>3
  <1>2. /\ FirstWeek(y) \in Int /\ FirstWeek(y + 1) \in Int
        /\ FirstWeek(z) \in Int /\ FirstWeek(z + 1) \in Int
    BY FirstWeekFacts
  <1>3. ~(y < z)
    BY <1>1, <1>2 DEF InWeekYear
  <1>4. ~(z < y)
    BY <1>1, <1>2 DEF InWeekYear
  <1> QED BY <1>3, <1>4

\* The year of its Thursday is the year whose weeks a date lies in.
LEMMA PythonWeekYear ==
  ASSUME NEW o \in Int, o >= 1
  PROVE  /\ PythonIsoYear(o) \in Int
         /\ InWeekYear(o, PythonIsoYear(o)) /\ FirstWeek(PythonIsoYear(o)) <= Monday(o)
         /\ PythonIsoWeek(o) = ((Monday(o) + 3) - DaysBeforeYear(PythonIsoYear(o)) + 6) \div 7
         /\ DaysBeforeYear(PythonIsoYear(o)) < Monday(o) + 3
  <1> DEFINE mon == Monday(o)
             y == YearOf(mon + 3)
  <1>1. /\ mon \in Int /\ mon % 7 = 1 /\ mon <= o /\ o <= mon + 6 /\ mon >= 1
        /\ o - IsoWeekday(o) + 4 = mon + 3
    BY MondayFacts
  <1> HIDE DEF mon
  <1>2. PythonIsoYear(o) = y /\ PythonIsoWeek(o) = ((mon + 3) - DaysBeforeYear(y) + 6) \div 7
    <2>1. PythonIsoYear(o) = y
      BY <1>1 DEF PythonIsoYear
    <2>2. PythonIsoWeek(o) = (DayOfYear(mon + 3) + 6) \div 7
      BY <1>1 DEF PythonIsoWeek
    <2>3. DayOfYear(mon + 3) = (mon + 3) - DaysBeforeYear(y)
      BY DEF DayOfYear
    <2> HIDE DEF y
    <2> QED BY <2>1, <2>2, <2>3
  <1>3. y \in Int /\ DaysBeforeYear(y) < mon + 3 /\ mon + 3 <= DaysBeforeYear(y + 1)
    BY <1>1, YearFound
  <1> HIDE DEF y
  <1>4. /\ FirstWeek(y) \in Int /\ FirstWeek(y) % 7 = 1
        /\ FirstWeek(y) <= DaysBeforeYear(y) + 4 /\ DaysBeforeYear(y) \in Int
    BY <1>3, FirstWeekFacts
  <1>5. /\ FirstWeek(y + 1) \in Int /\ FirstWeek(y + 1) % 7 = 1
        /\ DaysBeforeYear(y + 1) + 4 <= FirstWeek(y + 1) + 6 /\ DaysBeforeYear(y + 1) \in Int
    BY <1>3, FirstWeekFacts
  <1>6. FirstWeek(y) <= mon
    <2>1. FirstWeek(y) < mon + 7
      BY <1>1, <1>3, <1>4
    <2>2. ~(mon < FirstWeek(y))
      BY <1>1, <1>4, <2>1, WholeWeeks
    <2> QED BY <1>1, <1>4, <2>2
  <1>7. o < FirstWeek(y + 1)
    <2>1. mon < FirstWeek(y + 1)
      BY <1>1, <1>3, <1>5
    <2>2. mon + 7 <= FirstWeek(y + 1)
      BY <1>1, <1>5, <2>1, WholeWeeks
    <2> QED BY <1>1, <1>5, <2>2
  <1>8. InWeekYear(o, y)
    BY <1>1, <1>4, <1>6, <1>7 DEF InWeekYear
  <1> QED BY <1>2, <1>3, <1>6, <1>8 DEF mon

LEMMA SqlWeekYear ==
  ASSUME NEW o \in Int, o >= 1
  PROVE  SqlIsoYear(o) \in Int /\ InWeekYear(o, SqlIsoYear(o))
  <1> DEFINE y == YearOf(o)
  <1>1. y \in Int /\ DaysBeforeYear(y) < o /\ o <= DaysBeforeYear(y + 1)
    BY YearFound
  <1>2. SqlIsoYear(o) = IF o < FirstWeek(y) THEN y - 1
                        ELSE IF o >= FirstWeek(y + 1) THEN y + 1 ELSE y
    BY DEF SqlIsoYear
  <1> HIDE DEF y
  <1>3. /\ y - 1 \in Int /\ y + 1 \in Int /\ y + 2 \in Int
        /\ (y - 1) + 1 = y /\ (y + 1) + 1 = y + 2
    BY <1>1
  <1>4. /\ DaysBeforeYear(y - 1) \in Int /\ DaysBeforeYear(y) \in Int
        /\ DaysBeforeYear(y + 1) \in Int /\ DaysBeforeYear(y + 2) \in Int
        /\ FirstWeek(y - 1) \in Int /\ FirstWeek(y) \in Int
        /\ FirstWeek(y + 1) \in Int /\ FirstWeek(y + 2) \in Int
        /\ FirstWeek(y - 1) <= DaysBeforeYear(y - 1) + 4
        /\ DaysBeforeYear(y + 2) + 4 <= FirstWeek(y + 2) + 6
    BY <1>1, <1>3, FirstWeekFacts
  <1>5. DaysBeforeYear(y - 1) + 365 <= DaysBeforeYear(y)
    <2>1. DaysBeforeYear((y - 1) + 1)
            = DaysBeforeYear(y - 1) + (IF Leap(y - 1) THEN 366 ELSE 365)
      BY <1>3, LengthOfYear
    <2> QED BY <1>3, <1>4, <2>1
  <1>6. DaysBeforeYear(y + 1) + 365 <= DaysBeforeYear(y + 2)
    <2>1. DaysBeforeYear((y + 1) + 1)
            = DaysBeforeYear(y + 1) + (IF Leap(y + 1) THEN 366 ELSE 365)
      BY <1>3, LengthOfYear
    <2> QED BY <1>3, <1>4, <2>1
  <1>7. FirstWeek(y - 1) <= o
    BY <1>1, <1>4, <1>5
  <1>8. o < FirstWeek(y + 2)
    BY <1>1, <1>4, <1>6
  <1> QED BY <1>1, <1>2, <1>3, <1>4, <1>7, <1>8 DEF InWeekYear

LEMMA WeeksAgree ==
  ASSUME NEW o \in Int, o >= 1
  PROVE  PythonIsoYear(o) = SqlIsoYear(o) /\ PythonIsoWeek(o) = SqlIsoWeek(o)
  <1> DEFINE mon == Monday(o)
             y == PythonIsoYear(o)
             before == DaysBeforeYear(y)
             first == FirstWeek(y)
  <1>1. y \in Int /\ InWeekYear(o, y) /\ first <= mon /\ before < mon + 3
    BY PythonWeekYear
  <1>2. PythonIsoWeek(o) = ((mon + 3) - before + 6) \div 7
    BY PythonWeekYear
  <1>3. y = SqlIsoYear(o)
    BY <1>1, SqlWeekYear, WeekYearUnique
  <1>4. SqlIsoWeek(o) = (o - first) \div 7 + 1
    BY <1>3 DEF SqlIsoWeek
  <1>5. /\ mon \in Int /\ mon % 7 = 1 /\ mon <= o /\ o <= mon + 6
    BY MondayFacts
  <1>6. /\ first \in Int /\ first % 7 = 1 /\ before \in Int
        /\ first <= before + 4 /\ before + 4 <= first + 6
    BY <1>1, FirstWeekFacts
  <1> HIDE DEF mon, before, first, y
  <1> DEFINE k == (mon - first) \div 7
  <1>7. k \in Int /\ mon - first = 7 * k
    BY <1>5, <1>6, WholeWeeks
  <1> HIDE DEF k
  <1>8. (o - first) \div 7 = k
    BY <1>5, <1>6, <1>7
  <1>9. ((mon + 3) - before + 6) \div 7 = k + 1
    BY <1>5, <1>6, <1>7
  <1> QED BY <1>2, <1>3, <1>4, <1>8, <1>9 DEF y

-----------------------------------------------------------------------------
(***************************************************************************)
(* The two rows of a date.                                                 *)
(***************************************************************************)

\* The dates the database accepts, and the last days of Python's calendar.
LEMMA EndOfTheCalendar ==
  /\ Ordinal(1, 1, 1) = 1
  /\ Ordinal(9998, 12, 31) = 3651694
  /\ LastDate = 3652059
  /\ DaysBeforeYear(9999) = 3651694
  <1>1. ~Leap(1) /\ ~Leap(9998) /\ ~Leap(9999)
    BY DEF Leap
  <1>2. /\ DaysBeforeYear(1) = 0 /\ DaysBeforeYear(9998) = 3651329
        /\ DaysBeforeYear(9999) = 3651694
    BY DEF DaysBeforeYear
  <1>3. DaysBeforeMonth(1, 1) = 0 /\ DaysBeforeMonth(9998, 12) = 334
        /\ DaysBeforeMonth(9999, 12) = 334
    BY <1>1, MonthTable
  <1> QED BY <1>2, <1>3 DEF Ordinal, LastDate

LEMMA QuarterForms ==
  ASSUME NEW m \in 1..12
  PROVE  /\ (m - 1) \div 3 + 1 = (m + 2) \div 3
         /\ (((m - 1) \div 3 + 1) - 1) * 3 + 1 = 3 * ((m + 2) \div 3) - 2
         /\ (m + 2) \div 3 \in 1..4
  OBVIOUS

\* build_calendar_date and the trigger derive the same row for every date, across
\* leap years, ISO years and the ends of the calendar.
THEOREM RowsAgree ==
  ASSUME NEW o \in Int, o >= 1
  PROVE  SqlRow(o) = PythonRow(o)
  <1> DEFINE y == YearOf(o)
             m == MonthOf(o)
             first == 3 * ((m + 2) \div 3) - 2
             d == o - Ordinal(y, m, 1) + 1
  <1>1. /\ y \in Nat \ {0} /\ m \in 1..12 /\ DayOfYear(o) = o - DaysBeforeYear(y)
        /\ DaysBeforeYear(y) \in Int
    BY PartsOfADate
  <1>2. Ordinal(y, 1, 1) = DaysBeforeYear(y) + 1
    <2> HIDE DEF y, m
    <2> QED BY <1>1, MonthTable DEF Ordinal
  <1>3. o - Ordinal(y, 1, 1) + 1 = DayOfYear(o)
    <2> HIDE DEF y, m
    <2> QED BY <1>1, <1>2
  <1>4. /\ MonthsAfter(y, m, 1) - 1 = LastDayOfMonth(y, m)
        /\ MonthsAfter(y, first, 3) - 1 = LastDayOfQuarter(y, first)
        /\ MonthsAfter(y, 1, 12) - 1 = Ordinal(y, 12, 31)
    <2> HIDE DEF y, m
    <2> QED BY <1>1, EndsOfPeriods
  <1>5. /\ SqlIsoYear(o) = PythonIsoYear(o)
        /\ SqlIsoWeek(o) = PythonIsoWeek(o)
    BY WeeksAgree
  <1>6. IsoWeekday(o) \in 1..7
    BY MondayFacts
  <1>7. /\ (IsoWeekday(o) \in {6, 7}) = (IsoWeekday(o) >= 6)
        /\ o + (7 - IsoWeekday(o)) = o - (IsoWeekday(o) - 1) + 6
    BY <1>6
  <1>8. /\ (m - 1) \div 3 + 1 = (m + 2) \div 3
        /\ (((m - 1) \div 3 + 1) - 1) * 3 + 1 = first
    <2> HIDE DEF y, m
    <2> QED BY <1>1, QuarterForms
  <1> DEFINE row(quarter, f, doy, iy, iw, we, end, me, qe, ye) ==
        [date |-> o, key |-> y * 10000 + m * 100 + d,
         year |-> y, quarter |-> quarter, month |-> m, day |-> d,
         dayOfYear |-> doy, isoYear |-> iy, isoWeek |-> iw, weekday |-> IsoWeekday(o),
         weekend |-> we, weekStart |-> o - (IsoWeekday(o) - 1), weekEnd |-> end,
         monthStart |-> Ordinal(y, m, 1), monthEnd |-> me,
         quarterStart |-> Ordinal(y, f, 1), quarterEnd |-> qe,
         yearStart |-> Ordinal(y, 1, 1), yearEnd |-> ye,
         monthKey |-> y * 100 + m]
  <1>9. SqlRow(o) = row((m + 2) \div 3, first, o - Ordinal(y, 1, 1) + 1, SqlIsoYear(o),
                        SqlIsoWeek(o), IsoWeekday(o) \in {6, 7}, o + (7 - IsoWeekday(o)),
                        MonthsAfter(y, m, 1) - 1, MonthsAfter(y, first, 3) - 1,
                        MonthsAfter(y, 1, 12) - 1)
    BY DEF SqlRow
  <1>10. PythonRow(o) = row((m - 1) \div 3 + 1, (((m - 1) \div 3 + 1) - 1) * 3 + 1, DayOfYear(o),
                            PythonIsoYear(o), PythonIsoWeek(o), IsoWeekday(o) >= 6,
                            o - (IsoWeekday(o) - 1) + 6, LastDayOfMonth(y, m),
                            LastDayOfQuarter(y, (((m - 1) \div 3 + 1) - 1) * 3 + 1),
                            Ordinal(y, 12, 31))
    BY DEF PythonRow
  <1> HIDE DEF row, y, m, first
  <1> QED BY <1>3, <1>4, <1>5, <1>7, <1>8, <1>9, <1>10

LEMMA WeekendOfARow ==
  ASSUME NEW o
  PROVE  SqlRow(o).weekend <=> IsoWeekday(o) \in {6, 7}
  BY ZenonT(60) DEF SqlRow

\* Every supported date passes the constraints of the table, and neither bound of
\* its week leaves Python's calendar.
LEMMA SupportedDatesFit ==
  ASSUME NEW o \in Ordinal(1, 1, 1)..Ordinal(9998, 12, 31)
  PROVE  Insertable(o)
  <1>1. o \in Int /\ o >= 1 /\ o <= 3651694
    BY EndOfTheCalendar
  <1> DEFINE y == YearOf(o)
             m == MonthOf(o)
             first == 3 * ((m + 2) \div 3) - 2
  <1>2. /\ y \in Nat \ {0} /\ m \in 1..12 /\ DaysBeforeYear(y) \in Int
        /\ Ordinal(y, m, 1) <= o /\ o <= Ordinal(y, m, 1) + DaysIn(y, m) - 1
    BY <1>1, PartsOfADate
  <1>3. /\ Monday(o) \in Int /\ Monday(o) >= 1 /\ Monday(o) <= o /\ o <= Monday(o) + 6
        /\ IsoWeekday(o) = o - Monday(o) + 1 /\ IsoWeekday(o) \in 1..7
    BY <1>1, MondayFacts
  <1>4. Representable(PythonRow(o))
    <2>1. PythonRow(o).weekStart = o - (IsoWeekday(o) - 1)
      BY DEF PythonRow
    <2>2. PythonRow(o).weekEnd = o - (IsoWeekday(o) - 1) + 6
      BY DEF PythonRow
    <2> QED BY <1>1, <1>3, <2>1, <2>2, EndOfTheCalendar DEF Representable
  <1>5. Accepted(SqlRow(o))
    <2> DEFINE row == SqlRow(o)
    <2>1. row.date = o
      BY DEF SqlRow
    <2>2. row.key = row.year * 10000 + row.month * 100 + row.day
          /\ row.monthKey = row.year * 100 + row.month
      BY DEF SqlRow
    <2>3. /\ row.weekStart = o - (IsoWeekday(o) - 1)
          /\ row.weekEnd = o + (7 - IsoWeekday(o))
          /\ row.weekday = IsoWeekday(o)
      BY DEF SqlRow
    <2>4. row.weekend <=> row.weekday \in {6, 7}
      <3>1. row.weekend <=> IsoWeekday(o) \in {6, 7}
        BY WeekendOfARow
      <3> HIDE DEF row
      <3> QED BY <2>3, <3>1
    <2>5. /\ row.monthStart = Ordinal(y, m, 1) /\ row.monthEnd = MonthsAfter(y, m, 1) - 1
          /\ row.quarterStart = Ordinal(y, first, 1)
          /\ row.quarterEnd = MonthsAfter(y, first, 3) - 1
          /\ row.yearStart = Ordinal(y, 1, 1) /\ row.yearEnd = MonthsAfter(y, 1, 12) - 1
      BY DEF SqlRow
    <2> HIDE DEF row, y, m
    <2>6. /\ row.monthEnd = Ordinal(y, m, 1) + DaysIn(y, m) - 1
          /\ row.monthEnd <= row.quarterEnd /\ row.quarterEnd <= row.yearEnd
          /\ row.yearStart <= row.quarterStart /\ row.quarterStart <= row.monthStart
      BY <1>2, <2>5, EndsOfPeriods
    <2>7. /\ row.monthStart <= o /\ o <= row.monthEnd
          /\ row.quarterStart <= o /\ o <= row.quarterEnd
          /\ row.yearStart <= o /\ o <= row.yearEnd
      <3>1. /\ row.monthStart \in Int /\ row.quarterStart \in Int /\ row.yearStart \in Int
            /\ row.monthEnd \in Int /\ row.quarterEnd \in Int /\ row.yearEnd \in Int
        <4>1. first \in {1, 4, 7, 10}
          BY <1>2, EndsOfPeriods
        <4> HIDE DEF first
        <4>2. /\ Ordinal(y, m, 1) \in Int /\ Ordinal(y, first, 1) \in Int
              /\ Ordinal(y, 1, 1) \in Int /\ DaysIn(y, m) \in Int
              /\ Ordinal(y, 12, 31) \in Int
          BY <1>2, <4>1, MonthTable, TwelveMonths DEF Ordinal
        <4>3. LastDayOfQuarter(y, first) \in Int
          BY <1>2, <4>1, MonthTable DEF LastDayOfQuarter, Ordinal
        <4>4. /\ row.quarterEnd = LastDayOfQuarter(y, first)
              /\ row.yearEnd = Ordinal(y, 12, 31)
          BY <1>2, <2>5, EndsOfPeriods DEF first
        <4> QED BY <1>2, <2>5, <2>6, <4>2, <4>3, <4>4
      <3> QED BY <1>1, <1>2, <2>5, <2>6, <3>1
    <2>8. /\ row.weekStart <= o /\ o <= row.weekEnd
          /\ row.weekEnd = row.weekStart + 6
      BY <1>1, <1>3, <2>3
    <2> QED BY <2>1, <2>2, <2>4, <2>7, <2>8 DEF Accepted, row
  <1> QED BY <1>4, <1>5 DEF Insertable

-----------------------------------------------------------------------------
(***************************************************************************)
(* populate_calendar: the inductive invariant.                             *)
(***************************************************************************)

Command ==
    [pc : {"idle", "refused", "locking", "populating", "populated", "verified",
           "reported", "failed", "aborted"},
     years : Int \X Int, next : Int, inserted : SUBSET Int, before : Nat, created : Int]

TypeOK ==
    /\ calendar \subseteq Int /\ IsFiniteSet(calendar)
    /\ command \in [Commands -> Command]

\* The advisory lock lets one transaction at a time touch the calendar, which is why
\* the number of dates read at its start is still right at its end.
OneTransaction ==
    \A c, d \in Commands : InTransaction(c) /\ InTransaction(d) => c = d

Begun(c) == command[c].pc \in {"locking", "populating", "populated", "verified", "reported"}

\* What a transaction has inserted so far, and what it leaves behind.
Progress(c) ==
    /\ Begun(c) => ValidYears(command[c].years)
    /\ ~InTransaction(c) => command[c].inserted = {}
    /\ InTransaction(c) => command[c].before = Cardinality(Existing(c))
    /\ command[c].pc = "populating" =>
         /\ First(c) <= command[c].next /\ command[c].next <= Last(c)
         /\ command[c].inserted = (First(c)..(command[c].next - 1)) \ calendar
    /\ command[c].pc \in {"populated", "verified"} =>
         command[c].inserted = (First(c)..Last(c)) \ calendar
    /\ command[c].pc = "reported" => First(c)..Last(c) \subseteq calendar

EachDateCreatedOnce ==
    /\ IsFiniteSet(Created)
    /\ Cardinality(Created) = Cardinality(calendar)

CalendarInv ==
    /\ TypeOK
    /\ OneTransaction
    /\ \A c \in Commands : Progress(c)
    /\ EachDateCreatedOnce
    /\ VerificationNeverFails

\* Valid years are whole years of supported dates.
LEMMA ValidDates ==
  ASSUME TypeOK, NEW c \in Commands, ValidYears(command[c].years)
  PROVE  /\ First(c) \in Int /\ Last(c) \in Int
         /\ Ordinal(1, 1, 1) <= First(c) /\ First(c) <= Last(c)
         /\ Last(c) <= Ordinal(9998, 12, 31)
         /\ \A o \in First(c)..Last(c) : Insertable(o)
  <1> DEFINE a == command[c].years[1]
             b == command[c].years[2]
  <1>1. /\ a \in Int /\ b \in Int
        /\ 1 <= a /\ a <= b /\ b <= 9998
    BY DEF ValidYears, Supported, TypeOK, Command
  <1>2. First(c) = Ordinal(a, 1, 1) /\ Last(c) = Ordinal(b, 12, 31)
    BY DEF First, Last
  <1> HIDE DEF a, b
  <1>3. /\ DaysBeforeYear(1) \in Int /\ DaysBeforeYear(a) \in Int
        /\ DaysBeforeYear(b) \in Int /\ DaysBeforeYear(9999) \in Int
        /\ DaysBeforeYear(b + 1) = DaysBeforeYear(b) + (IF Leap(b) THEN 366 ELSE 365)
    BY <1>1, LengthOfYear
  <1>4. /\ First(c) = DaysBeforeYear(a) + 1 /\ Last(c) = DaysBeforeYear(b + 1)
        /\ Ordinal(1, 1, 1) = DaysBeforeYear(1) + 1
    BY <1>1, <1>2, <1>3, MonthTable DEF Ordinal
  <1>5. /\ DaysBeforeYear(1) <= DaysBeforeYear(a)
        /\ DaysBeforeYear(a) <= DaysBeforeYear(b)
        /\ DaysBeforeYear(b + 1) <= DaysBeforeYear(9999)
    <2>1. ASSUME NEW y \in Int, NEW z \in Int, y <= z
          PROVE  DaysBeforeYear(y) <= DaysBeforeYear(z)
      <3>1. DaysBeforeYear(y) \in Int /\ DaysBeforeYear(z) \in Int
        BY LengthOfYear
      <3>2. CASE y = z
        BY <3>1, <3>2
      <3>3. CASE y < z
        <4>1. DaysBeforeYear(y) + 365 * (z - y) <= DaysBeforeYear(z)
          BY <3>3, YearsGrow
        <4>2. 365 * (z - y) \in Nat
          BY <3>3
        <4> QED BY <3>1, <4>1, <4>2
      <3>4. y = z \/ y < z
        BY <2>1
      <3> QED BY <3>2, <3>3, <3>4
    <2>2. b + 1 \in Int /\ b + 1 <= 9999
      BY <1>1
    <2> QED BY <1>1, <2>1, <2>2
  <1>6. /\ First(c) \in Int /\ Last(c) \in Int
        /\ Ordinal(1, 1, 1) <= First(c) /\ First(c) <= Last(c)
        /\ Last(c) <= Ordinal(9998, 12, 31)
    BY <1>1, <1>3, <1>4, <1>5, EndOfTheCalendar
  <1>7. Ordinal(1, 1, 1) \in Int /\ Ordinal(9998, 12, 31) \in Int
    BY EndOfTheCalendar
  <1>8. \A o \in First(c)..Last(c) : o \in Ordinal(1, 1, 1)..Ordinal(9998, 12, 31)
    BY <1>6, <1>7
  <1> QED BY <1>6, <1>8, SupportedDatesFit

\* A step that commits nothing and reports nothing changes no other command.
OwnStep(c) == command' = [command EXCEPT ![c] = command'[c]]

LEMMA OthersProgress ==
  ASSUME TypeOK, NEW c \in Commands, NEW d \in Commands \ {c}, OwnStep(c),
         calendar \subseteq calendar',
         InTransaction(d) => calendar' = calendar,
         Progress(d)
  PROVE  Progress(d)'
  <1>1. command'[d] = command[d]
    BY DEF OwnStep, TypeOK, Command
  <1>2. /\ First(d)' = First(d) /\ Last(d)' = Last(d)
        /\ InTransaction(d)' = InTransaction(d) /\ Begun(d)' = Begun(d)
    BY <1>1 DEF First, Last, InTransaction, Begun
  <1>3. InTransaction(d) => Existing(d)' = Existing(d)
    BY <1>2 DEF Existing
  <1> QED BY <1>1, <1>2, <1>3 DEF Progress, InTransaction

LEMMA NothingReported ==
  ASSUME TypeOK, NEW c \in Commands, OwnStep(c), calendar' = calendar,
         command[c].pc # "reported", command'[c].pc # "reported", EachDateCreatedOnce
  PROVE  EachDateCreatedOnce'
  <1>1. \A d \in Commands \ {c} : command'[d] = command[d]
    BY DEF OwnStep, TypeOK, Command
  <1>2. Created' = Created
    BY <1>1 DEF Created
  <1> QED BY <1>2 DEF EachDateCreatedOnce

-----------------------------------------------------------------------------
(***************************************************************************)
(* populate_calendar: every action keeps the invariant.                    *)
(***************************************************************************)

\* The parts of an action that all commands' proofs share.
LEMMA OwnStepKeeps ==
  ASSUME CalendarInv, NEW c \in Commands, OwnStep(c), TypeOK',
         calendar' = calendar, Progress(c)',
         InTransaction(c)' => InTransaction(c) \/ \A d \in Commands : ~InTransaction(d),
         command[c].pc # "reported", command'[c].pc # "reported", command'[c].pc # "failed"
  PROVE  CalendarInv'
  <1>1. \A d \in Commands \ {c} : command'[d] = command[d]
    BY DEF OwnStep, CalendarInv, TypeOK, Command
  <1>2. \A d \in Commands \ {c} : InTransaction(d)' = InTransaction(d)
    BY <1>1 DEF InTransaction
  <1>3. OneTransaction'
    BY <1>2 DEF CalendarInv, OneTransaction
  <1>4. ASSUME NEW d \in Commands
        PROVE  Progress(d)'
    <2>1. CASE d = c
      BY <2>1
    <2>2. CASE d # c
      BY <2>2, OthersProgress DEF CalendarInv
    <2> QED BY <2>1, <2>2
  <1>5. EachDateCreatedOnce'
    BY NothingReported DEF CalendarInv
  <1>6. VerificationNeverFails'
    BY <1>1 DEF CalendarInv, VerificationNeverFails
  <1> QED BY <1>3, <1>4, <1>5, <1>6 DEF CalendarInv

LEMMA InitInv == Init => CalendarInv
  <1> SUFFICES ASSUME Init PROVE CalendarInv
    OBVIOUS
  <1>1. \A c \in Commands : command[c] = NoCommand
    BY DEF Init
  <1>2. TypeOK
    BY FS_EmptySet DEF Init, TypeOK, Command, NoCommand
  <1>3. OneTransaction /\ \A c \in Commands : Progress(c)
    BY <1>1 DEF OneTransaction, Progress, InTransaction, Begun, NoCommand
  <1>4. EachDateCreatedOnce
    <2>1. Created = {}
      BY <1>1 DEF Created, NoCommand
    <2>2. calendar = {}
      BY DEF Init
    <2> QED BY <2>1, <2>2, FS_EmptySet DEF EachDateCreatedOnce
  <1>5. VerificationNeverFails
    BY <1>1 DEF VerificationNeverFails, NoCommand
  <1> QED BY <1>2, <1>3, <1>4, <1>5 DEF CalendarInv

LEMMA StartInv ==
  ASSUME CalendarInv, NEW c \in Commands, NEW years \in Ranges, Start(c, years)
  PROVE  CalendarInv'
  <1>1. TypeOK /\ TypeOK'
    <2>1. command[c] \in Command /\ years \in Int \X Int
      BY CalendarAssumption DEF CalendarInv, TypeOK
    <2>2. /\ [command[c] EXCEPT !.pc = "locking", !.years = years] \in Command
          /\ [command[c] EXCEPT !.pc = "refused", !.years = years] \in Command
      BY <2>1 DEF Command
    <2> QED BY <2>2 DEF Start, CalendarInv, TypeOK
  <1>2. /\ OwnStep(c) /\ calendar' = calendar
        /\ command[c].pc = "idle" /\ command'[c].years = years
        /\ command'[c].inserted = command[c].inserted
        /\ command'[c].pc = IF ValidYears(years) THEN "locking" ELSE "refused"
    BY <1>1 DEF Start, TypeOK, Command, OwnStep
  <1>3. Progress(c)
    BY DEF CalendarInv
  <1>4. Progress(c)'
    BY <1>2, <1>3 DEF Progress, InTransaction, Begun
  <1>5. ~InTransaction(c)'
    BY <1>2 DEF InTransaction
  <1> QED BY <1>1, <1>2, <1>4, <1>5, OwnStepKeeps

LEMMA LockInv ==
  ASSUME CalendarInv, NEW c \in Commands, Lock(c)
  PROVE  CalendarInv'
  <1>1. TypeOK /\ Progress(c)
    BY DEF CalendarInv
  <1>2. ValidYears(command[c].years) /\ command[c].inserted = {}
    BY <1>1 DEF Lock, Progress, Begun, InTransaction
  <1>3. First(c) \in Int /\ Last(c) \in Int /\ First(c) <= Last(c)
    BY <1>1, <1>2, ValidDates
  <1>4. Cardinality(Existing(c)) \in Nat
    BY <1>1, FS_Subset, FS_CardinalityType DEF TypeOK, Existing
  <1>5. TypeOK'
    <2>1. [command[c] EXCEPT !.pc = "populating", !.next = First(c),
                             !.before = Cardinality(Existing(c))] \in Command
      BY ZenonT(60), <1>1, <1>3, <1>4 DEF Command, TypeOK, Command
    <2> QED BY <1>1, <2>1 DEF Lock, TypeOK
  <1>6. /\ OwnStep(c) /\ calendar' = calendar
        /\ command[c].pc = "locking" /\ command'[c].pc = "populating"
        /\ command'[c].years = command[c].years /\ command'[c].next = First(c)
        /\ command'[c].inserted = command[c].inserted
        /\ command'[c].before = Cardinality(Existing(c))
    BY <1>1 DEF Lock, TypeOK, Command, OwnStep
  <1>7. First(c)' = First(c) /\ Last(c)' = Last(c) /\ Existing(c)' = Existing(c)
    BY <1>6 DEF First, Last, Existing
  <1>8. First(c)..(First(c) - 1) = {}
    BY <1>3
  <1>9. Progress(c)'
    BY <1>2, <1>3, <1>6, <1>7, <1>8 DEF Progress, InTransaction, Begun
  <1>10. \A d \in Commands : ~InTransaction(d)
    BY DEF Lock
  <1> QED BY <1>1, <1>5, <1>6, <1>9, <1>10, OwnStepKeeps

LEMMA AbortInv ==
  ASSUME CalendarInv, NEW c \in Commands, Abort(c)
  PROVE  CalendarInv'
  <1>1. TypeOK /\ TypeOK'
    <2>1. command[c] \in Command
      BY DEF CalendarInv, TypeOK
    <2>2. [command[c] EXCEPT !.pc = "aborted", !.inserted = {}] \in Command
      BY <2>1 DEF Command
    <2> QED BY <2>2 DEF Abort, CalendarInv, TypeOK
  <1>2. /\ OwnStep(c) /\ calendar' = calendar
        /\ command'[c].pc = "aborted" /\ command'[c].inserted = {}
    BY ZenonT(60), <1>1 DEF Abort, TypeOK, Command, OwnStep
  <1>3. command[c].pc # "reported"
    BY DEF Abort, InTransaction
  <1>4. Progress(c)' /\ ~InTransaction(c)'
    BY <1>2 DEF Progress, InTransaction, Begun
  <1> QED BY <1>1, <1>2, <1>3, <1>4, OwnStepKeeps

\* No batch waits for long or fails, and it inserts what is missing of its dates.
LEMMA PopulateInv ==
  ASSUME CalendarInv, NEW c \in Commands, Populate(c)
  PROVE  CalendarInv'
  <1>1. TypeOK /\ Progress(c)
    BY DEF CalendarInv
  <1> DEFINE next == command[c].next
             last == Last(c)
             end  == IF next + BatchSize - 1 < last THEN next + BatchSize - 1 ELSE last
  <1>2. /\ ValidYears(command[c].years)
        /\ First(c) <= next /\ next <= last
        /\ command[c].inserted = (First(c)..(next - 1)) \ calendar
        /\ command[c].before = Cardinality(Existing(c))
        /\ command[c].pc = "populating"
    BY <1>1 DEF Populate, Progress, Begun, InTransaction
  <1>3. /\ First(c) \in Int /\ last \in Int
        /\ \A o \in First(c)..last : Insertable(o)
    BY <1>1, <1>2, ValidDates
  <1>4. next \in Int /\ BatchSize \in Nat \ {0}
    BY <1>1, CalendarAssumption DEF TypeOK, Command
  <1>5. Batch(c) = next..end
    BY DEF Batch
  <1>6. \A o \in Batch(c) : Insertable(o)
    <2> HIDE DEF next, last
    <2> QED BY <1>2, <1>3, <1>4, <1>5
  <1>7. command' = [command EXCEPT
                      ![c].inserted = @ \cup (Batch(c) \ calendar),
                      ![c].next = @ + BatchSize,
                      ![c].pc = IF next + BatchSize > last THEN "populated" ELSE "populating"]
    BY <1>6 DEF Populate
  <1> HIDE DEF next, last, end
  <1>8. calendar' = calendar /\ Batch(c) \subseteq Int
    BY <1>3, <1>4, <1>5 DEF Populate, end
  <1>9. TypeOK'
    BY <1>1, <1>4, <1>7, <1>8 DEF TypeOK, Command
  <1>10. /\ OwnStep(c)
         /\ command'[c].years = command[c].years
         /\ command'[c].before = command[c].before
         /\ command'[c].inserted = command[c].inserted \cup (Batch(c) \ calendar)
         /\ command'[c].pc = IF next + BatchSize > last THEN "populated" ELSE "populating"
         /\ command'[c].next = next + BatchSize
    BY <1>1, <1>7 DEF TypeOK, Command, OwnStep, next
  <1>11. First(c)' = First(c) /\ Last(c)' = Last(c) /\ Existing(c)' = Existing(c)
    BY <1>8, <1>10 DEF First, Last, Existing
  <1>12. command'[c].inserted = (First(c)..end) \ calendar
    <2>1. First(c)..end = (First(c)..(next - 1)) \cup (next..end)
      BY <1>2, <1>3, <1>4 DEF end
    <2> QED BY <1>2, <1>5, <1>10, <2>1
  <1>13. CASE next + BatchSize > last
    <2>1. end = last
      BY <1>3, <1>4, <1>13 DEF end
    <2>2. Progress(c)'
      BY <1>2, <1>8, <1>10, <1>11, <1>12, <1>13, <2>1 DEF Progress, InTransaction, Begun, last
    <2> QED BY <1>1, <1>2, <1>8, <1>9, <1>10, <1>13, <2>2, OwnStepKeeps DEF InTransaction
  <1>14. CASE ~(next + BatchSize > last)
    <2>1. /\ end = (next + BatchSize) - 1 /\ First(c) <= next + BatchSize
          /\ next + BatchSize <= last
      BY <1>2, <1>3, <1>4, <1>14 DEF end
    <2>2. Progress(c)'
      BY <1>2, <1>8, <1>10, <1>11, <1>12, <1>14, <2>1 DEF Progress, InTransaction, Begun, last
    <2> QED BY <1>1, <1>2, <1>8, <1>9, <1>10, <1>14, <2>2, OwnStepKeeps DEF InTransaction
  <1> QED BY <1>13, <1>14

LEMMA DatesOfARange ==
  ASSUME TypeOK, NEW c \in Commands, First(c) \in Int, Last(c) \in Int
  PROVE  (First(c)..Last(c)) \cap calendar = Existing(c)
  <1> DEFINE a == First(c)
             b == Last(c)
  <1>1. calendar \subseteq Int /\ Existing(c) = {o \in calendar : a <= o /\ o <= b}
    BY DEF TypeOK, Existing
  <1>2. a \in Int /\ b \in Int
    OBVIOUS
  <1> HIDE DEF a, b
  <1>3. ASSUME NEW o
        PROVE  o \in (a..b) \cap calendar <=> o \in {d \in calendar : a <= d /\ d <= b}
    <2>1. o \in calendar => o \in Int
      BY <1>1
    <2> QED BY <1>2, <2>1
  <1> QED BY <1>1, <1>3 DEF a, b

\* What the verification looks at is the range it expects, row by row the same.
LEMMA VerifyInv ==
  ASSUME CalendarInv, NEW c \in Commands, Verify(c)
  PROVE  CalendarInv'
  <1>1. TypeOK /\ Progress(c)
    BY DEF CalendarInv
  <1>2. /\ ValidYears(command[c].years)
        /\ command[c].inserted = (First(c)..Last(c)) \ calendar
        /\ command[c].before = Cardinality(Existing(c))
        /\ command[c].pc = "populated"
    BY <1>1 DEF Verify, Progress, Begun, InTransaction
  <1>3. /\ First(c) \in Int /\ Last(c) \in Int /\ First(c) <= Last(c)
        /\ Ordinal(1, 1, 1) <= First(c)
    BY <1>1, <1>2, ValidDates
  <1>4. Consistent(c)
    <2>1. (First(c)..Last(c)) \cap calendar = Existing(c)
      BY <1>1, <1>3, DatesOfARange
    <2> DEFINE years == First(c)..Last(c)
    <2>2. Visible(c) = years
      <3> HIDE DEF years
      <3>1. Visible(c) = (years \cap calendar) \cup (years \ calendar)
        BY <1>2, <2>1 DEF Visible, years
      <3> QED BY <3>1
    <2>3. Cardinality(Visible(c)) = Last(c) - First(c) + 1
      BY <1>3, <2>2, FS_Interval
    <2>4. \A o \in Visible(c) : o \in Int /\ o >= 1
      BY <1>3, <2>2, EndOfTheCalendar
    <2> QED BY <2>3, <2>4, RowsAgree DEF Consistent
  <1>5. command' = [command EXCEPT ![c].pc = "verified"] /\ calendar' = calendar
    BY <1>4 DEF Verify
  <1>6. TypeOK'
    <2>1. [command[c] EXCEPT !.pc = "verified"] \in Command
      BY <1>1 DEF TypeOK, Command
    <2> QED BY <1>1, <1>5, <2>1 DEF TypeOK
  <1>7. /\ OwnStep(c)
        /\ command'[c].years = command[c].years /\ command'[c].before = command[c].before
        /\ command'[c].inserted = command[c].inserted /\ command'[c].pc = "verified"
    BY <1>1, <1>5 DEF TypeOK, Command, OwnStep
  <1>8. First(c)' = First(c) /\ Last(c)' = Last(c) /\ Existing(c)' = Existing(c)
    BY <1>5, <1>7 DEF First, Last, Existing
  <1>9. Progress(c)'
    BY <1>2, <1>5, <1>7, <1>8 DEF Progress, InTransaction, Begun
  <1> QED BY <1>1, <1>2, <1>5, <1>6, <1>7, <1>9, OwnStepKeeps DEF InTransaction

\* The number a command reports as created is the number of dates it inserts.
LEMMA CommitInv ==
  ASSUME CalendarInv, NEW c \in Commands, Commit(c)
  PROVE  CalendarInv'
  <1>1. TypeOK /\ Progress(c)
    BY DEF CalendarInv
  <1> DEFINE mine == command[c].inserted
             n    == Last(c) - First(c) + 1 - command[c].before
  <1>2. /\ ValidYears(command[c].years)
        /\ mine = (First(c)..Last(c)) \ calendar
        /\ command[c].before = Cardinality(Existing(c))
        /\ command[c].pc = "verified"
    BY <1>1 DEF Commit, Progress, Begun, InTransaction
  <1>3. First(c) \in Int /\ Last(c) \in Int /\ First(c) <= Last(c)
    BY <1>1, <1>2, ValidDates
  <1>4. IsFiniteSet(mine) /\ Cardinality(mine) = n /\ n \in Nat
    <2>1. /\ IsFiniteSet(First(c)..Last(c))
          /\ Cardinality(First(c)..Last(c)) = Last(c) - First(c) + 1
      BY <1>3, FS_Interval
    <2>2. (First(c)..Last(c)) \cap calendar = Existing(c)
      BY <1>1, <1>3, DatesOfARange
    <2> DEFINE years == First(c)..Last(c)
    <2> HIDE DEF mine, years
    <2>3. /\ IsFiniteSet(mine)
          /\ Cardinality(mine) = (Last(c) - First(c) + 1) - Cardinality(Existing(c))
      <3>1. mine = years \ calendar /\ IsFiniteSet(years)
        BY <1>2, <2>1 DEF years
      <3>2. /\ IsFiniteSet(mine)
            /\ Cardinality(mine) = Cardinality(years) - Cardinality(years \cap calendar)
        BY <3>1, FS_Difference
      <3> QED BY <2>1, <2>2, <3>2 DEF years
    <2>4. Cardinality(mine) \in Nat /\ Cardinality(Existing(c)) \in Nat
      BY <1>1, <2>3, FS_CardinalityType, FS_Subset DEF TypeOK, Existing
    <2>5. n = (Last(c) - First(c) + 1) - Cardinality(Existing(c))
      BY <1>2, <1>3, <2>4
    <2> QED BY <2>3, <2>4, <2>5
  <1>5. /\ calendar' = calendar \cup mine
        /\ command' = [command EXCEPT ![c].pc = "reported", ![c].inserted = {},
                                      ![c].created = n]
    BY DEF Commit
  <1> HIDE DEF mine, n
  <1>6. TypeOK'
    <2>1. [command[c] EXCEPT !.pc = "reported", !.inserted = {}, !.created = n] \in Command
      <3>1. command[c] \in Command /\ n \in Int
        BY <1>1, <1>4 DEF TypeOK
      <3> QED BY <3>1 DEF Command
    <2>2. mine \subseteq Int
      BY <1>2, <1>3
    <2>3. IsFiniteSet(calendar \cup mine)
      BY <1>1, <1>4, FS_Union DEF TypeOK
    <2> QED BY <1>1, <1>5, <2>1, <2>2, <2>3 DEF TypeOK
  <1>7. /\ OwnStep(c)
        /\ command'[c].years = command[c].years /\ command'[c].inserted = {}
        /\ command'[c].pc = "reported" /\ command'[c].created = n
        /\ \A d \in Commands \ {c} : command'[d] = command[d]
    BY <1>1, <1>5 DEF TypeOK, Command, OwnStep
  <1>8. First(c)' = First(c) /\ Last(c)' = Last(c)
    BY <1>7 DEF First, Last
  <1>9. InTransaction(c) /\ ~InTransaction(c)'
    BY <1>2, <1>7 DEF InTransaction
  <1>10. Progress(c)'
    <2>1. First(c)..Last(c) \subseteq calendar'
      BY <1>2, <1>5
    <2> QED BY <1>2, <1>7, <1>8, <1>9, <2>1 DEF Progress, Begun
  <1>11. ASSUME NEW d \in Commands
         PROVE  Progress(d)'
    <2>1. CASE d = c
      BY <1>10, <2>1
    <2>2. CASE d # c
      <3>1. ~InTransaction(d)
        BY <1>9, <2>2 DEF CalendarInv, OneTransaction
      <3> QED BY <1>1, <1>5, <1>7, <2>2, <3>1, OthersProgress DEF CalendarInv
    <2> QED BY <2>1, <2>2
  <1>12. OneTransaction'
    <2>1. \A d \in Commands \ {c} : InTransaction(d)' = InTransaction(d)
      BY <1>7 DEF InTransaction
    <2> QED BY <1>9, <2>1 DEF CalendarInv, OneTransaction
  <1>13. EachDateCreatedOnce'
    <2> DEFINE new == {c} \X (1..n)
    <2>1. Created' = Created \cup new /\ Created \cap new = {}
      BY <1>2, <1>7 DEF Created
    <2>2. IsFiniteSet(new) /\ Cardinality(new) = n
      <3>1. IsFiniteSet({c}) /\ Cardinality({c}) = 1
        BY FS_Singleton
      <3>2. IsFiniteSet(1..n) /\ Cardinality(1..n) = n
        BY <1>4, FS_Interval
      <3> DEFINE one == {c}
                 ks  == 1..n
      <3>3. IsFiniteSet(new) /\ Cardinality(new) = Cardinality(one) * Cardinality(ks)
        <4>1. IsFiniteSet(one) /\ IsFiniteSet(ks)
          BY <3>1, <3>2
        <4> HIDE DEF one, ks
        <4>2. new = one \X ks
          BY DEF one, ks
        <4> HIDE DEF new
        <4> QED BY <4>1, <4>2, FS_Product
      <3> HIDE DEF new
      <3> QED BY <1>4, <3>1, <3>2, <3>3
    <2>3. IsFiniteSet(Created) /\ Cardinality(Created) = Cardinality(calendar)
      BY DEF CalendarInv, EachDateCreatedOnce
    <2>4. calendar \cap mine = {} /\ IsFiniteSet(calendar)
      BY <1>1, <1>2 DEF TypeOK
    <2> HIDE DEF new
    <2>5. /\ IsFiniteSet(Created \cup new)
          /\ Cardinality(Created \cup new)
               = Cardinality(Created) + Cardinality(new) - Cardinality({})
      BY <2>1, <2>2, <2>3, FS_Union
    <2>6. Cardinality(calendar \cup mine)
            = Cardinality(calendar) + Cardinality(mine) - Cardinality({})
      BY <1>4, <2>4, FS_Union
    <2> QED BY <1>4, <1>5, <2>1, <2>2, <2>3, <2>5, <2>6 DEF EachDateCreatedOnce
  <1>14. VerificationNeverFails'
    BY <1>7 DEF CalendarInv, VerificationNeverFails
  <1> QED BY <1>6, <1>11, <1>12, <1>13, <1>14 DEF CalendarInv

\* The inductive invariant of populate_calendar: one transaction at a time, each
\* with exactly the dates it found missing, and as many creations as dates.
THEOREM CalendarInvariant == Spec => []CalendarInv
  <1>1. CalendarInv /\ [Next]_vars => CalendarInv'
    <2> SUFFICES ASSUME CalendarInv, [Next]_vars PROVE CalendarInv'
      OBVIOUS
    <2>1. CASE UNCHANGED vars
      BY <2>1 DEF vars, CalendarInv, TypeOK, OneTransaction, Progress, EachDateCreatedOnce,
         VerificationNeverFails, Created, InTransaction, Begun, First, Last, Existing
    <2>2. CASE Next
      <3>1. PICK c \in Commands :
              \/ \E years \in Ranges : Start(c, years)
              \/ Lock(c) \/ Populate(c) \/ Verify(c) \/ Commit(c) \/ Abort(c)
        BY <2>2 DEF Next
      <3> QED BY <3>1, StartInv, LockInv, PopulateInv, VerifyInv, CommitInv, AbortInv
    <2> QED BY <2>1, <2>2
  <1> QED BY <1>1, InitInv, PTL DEF Spec

\* A command that was asked for valid years never fails on its own.
THEOREM VerificationSucceeds == Spec => []VerificationNeverFails
  <1>1. CalendarInv => VerificationNeverFails
    BY DEF CalendarInv
  <1> QED BY <1>1, CalendarInvariant, PTL

\* A command that reports has all its years in the calendar, and each date is
\* reported as created by one command, whichever commands run at once.
THEOREM ReportsAreTrue == Spec => []RunsTellTheTruth
  <1>1. CalendarInv => RunsTellTheTruth
    BY DEF CalendarInv, Progress, EachDateCreatedOnce, RunsTellTheTruth
  <1> QED BY <1>1, CalendarInvariant, PTL
=============================================================================
