-------------------------- MODULE ReportingCalendar --------------------------
(***************************************************************************)
(* The reporting calendar: populate_calendar inserts the dates of whole    *)
(* years, a trigger of the database derives every column of a row in SQL,  *)
(* CHECK constraints look at it, and the command compares what was stored  *)
(* with what build_calendar_date derives in Python.                        *)
(*                                                                         *)
(* A date is its proleptic Gregorian ordinal, day 1 being 0001-01-01, as   *)
(* in Python.  The names and labels of a row are left out: they are looked *)
(* up by month, weekday and year on both sides.                            *)
(***************************************************************************)
EXTENDS Integers, FiniteSets

CONSTANTS
    Commands,    \* executions of populate_calendar
    Ranges,      \* the years they may be asked for, <<first, last>>
    BatchSize    \* BATCH_SIZE

ASSUME CalendarAssumption ==
    /\ Ranges \subseteq Int \X Int
    /\ BatchSize \in Nat \ {0}

-----------------------------------------------------------------------------
(***************************************************************************)
(* Dates.                                                                  *)
(***************************************************************************)

Leap(y) == y % 4 = 0 /\ (y % 100 # 0 \/ y % 400 = 0)

DaysIn(y, m) ==
    CASE m = 2              -> IF Leap(y) THEN 29 ELSE 28
      [] m \in {4, 6, 9, 11} -> 30
      [] OTHER              -> 31

DaysBeforeYear(y) ==
    365 * (y - 1) + (y - 1) \div 4 - (y - 1) \div 100 + (y - 1) \div 400

\* The days before the first of a month, in a year that is not a leap year.
DaysBefore == <<0, 31, 59, 90, 120, 151, 181, 212, 243, 273, 304, 334>>

DaysBeforeMonth(y, m) == DaysBefore[m] + (IF m > 2 /\ Leap(y) THEN 1 ELSE 0)

\* date(y, m, d)
Ordinal(y, m, d) == DaysBeforeYear(y) + DaysBeforeMonth(y, m) + d

\* 400 years have 146097 days, so the quotient is at most one year too small.
YearOf(o) ==
    LET quotient == (400 * (o - 1)) \div 146097
    IN  CHOOSE y \in quotient..quotient + 2 :
            DaysBeforeYear(y) < o /\ o <= DaysBeforeYear(y + 1)

DayOfYear(o) == o - DaysBeforeYear(YearOf(o))

MonthOf(o) ==
    LET y   == YearOf(o)
        day == o - DaysBeforeYear(y)
    IN  CHOOSE m \in 1..12 :
            /\ DaysBeforeMonth(y, m) < day
            /\ day <= DaysBeforeMonth(y, m) + DaysIn(y, m)

\* 0001-01-01 was a Monday.
IsoWeekday(o) == 1 + ((o - 1) % 7)

\* date.max: Python has no date after it.
LastDate == Ordinal(9999, 12, 31)

\* The date an SQL interval of whole months leads to, from the first of a month.
MonthsAfter(y, m, n) ==
    Ordinal(y + (m - 1 + n) \div 12, 1 + ((m - 1 + n) % 12), 1)

-----------------------------------------------------------------------------
(***************************************************************************)
(* A row, derived twice.                                                   *)
(***************************************************************************)

\* date.isocalendar: weeks belong to the year of their Thursday.
PythonIsoYear(o) == YearOf(o - IsoWeekday(o) + 4)

PythonIsoWeek(o) == (DayOfYear(o - IsoWeekday(o) + 4) + 6) \div 7

\* _last_day_of_month and _last_day_of_quarter, which never name year 10000.
LastDayOfMonth(y, m) == IF m = 12 THEN Ordinal(y, 12, 31) ELSE Ordinal(y, m + 1, 1) - 1

LastDayOfQuarter(y, first) ==
    IF first = 10 THEN Ordinal(y, 12, 31) ELSE Ordinal(y, first + 3, 1) - 1

\* build_calendar_date
PythonRow(o) ==
    LET y       == YearOf(o)
        m       == MonthOf(o)
        quarter == (m - 1) \div 3 + 1
        first   == (quarter - 1) * 3 + 1
        d       == o - Ordinal(y, m, 1) + 1
        monday  == o - (IsoWeekday(o) - 1)
    IN  [date |-> o, key |-> y * 10000 + m * 100 + d,
         year |-> y, quarter |-> quarter, month |-> m, day |-> d,
         dayOfYear |-> DayOfYear(o), isoYear |-> PythonIsoYear(o),
         isoWeek |-> PythonIsoWeek(o), weekday |-> IsoWeekday(o),
         weekend |-> IsoWeekday(o) >= 6,
         weekStart |-> monday, weekEnd |-> monday + 6,
         monthStart |-> Ordinal(y, m, 1), monthEnd |-> LastDayOfMonth(y, m),
         quarterStart |-> Ordinal(y, first, 1),
         quarterEnd |-> LastDayOfQuarter(y, first),
         yearStart |-> Ordinal(y, 1, 1), yearEnd |-> Ordinal(y, 12, 31),
         monthKey |-> y * 100 + m]

\* The Monday of the week that has the fourth of January.
FirstWeek(y) == Ordinal(y, 1, 4) - (IsoWeekday(Ordinal(y, 1, 4)) - 1)

\* EXTRACT(ISOYEAR ...) and EXTRACT(WEEK ...): weeks counted from that Monday.
SqlIsoYear(o) ==
    LET y == YearOf(o)
    IN  IF o < FirstWeek(y) THEN y - 1 ELSE IF o >= FirstWeek(y + 1) THEN y + 1 ELSE y

SqlIsoWeek(o) == (o - FirstWeek(SqlIsoYear(o))) \div 7 + 1

\* Trigger business_data_derive_calendar_date, whatever the client sent.
SqlRow(o) ==
    LET y       == YearOf(o)
        m       == MonthOf(o)
        quarter == (m + 2) \div 3
        first   == 3 * quarter - 2
        d       == o - Ordinal(y, m, 1) + 1
    IN  [date |-> o, key |-> y * 10000 + m * 100 + d,
         year |-> y, quarter |-> quarter, month |-> m, day |-> d,
         dayOfYear |-> o - Ordinal(y, 1, 1) + 1, isoYear |-> SqlIsoYear(o),
         isoWeek |-> SqlIsoWeek(o), weekday |-> IsoWeekday(o),
         weekend |-> IsoWeekday(o) \in {6, 7},
         weekStart |-> o - (IsoWeekday(o) - 1), weekEnd |-> o + (7 - IsoWeekday(o)),
         monthStart |-> Ordinal(y, m, 1), monthEnd |-> MonthsAfter(y, m, 1) - 1,
         quarterStart |-> Ordinal(y, first, 1),
         quarterEnd |-> MonthsAfter(y, first, 3) - 1,
         yearStart |-> Ordinal(y, 1, 1), yearEnd |-> MonthsAfter(y, 1, 12) - 1,
         monthKey |-> y * 100 + m]

\* The business_data_calendar_* constraints that compare columns.
Accepted(row) ==
    /\ row.date \in Ordinal(1, 1, 1)..Ordinal(9998, 12, 31)
    /\ row.key = row.year * 10000 + row.month * 100 + row.day
    /\ row.monthKey = row.year * 100 + row.month
    /\ row.weekStart <= row.date /\ row.date <= row.weekEnd
    /\ row.weekEnd = row.weekStart + 6
    /\ row.monthStart <= row.date /\ row.date <= row.monthEnd
    /\ row.quarterStart <= row.date /\ row.date <= row.quarterEnd
    /\ row.yearStart <= row.date /\ row.date <= row.yearEnd
    /\ row.weekend <=> row.weekday \in {6, 7}

\* A Python date before date.min or after date.max raises OverflowError.
Representable(row) ==
    /\ row.weekStart >= 1
    /\ row.weekEnd <= LastDate

-----------------------------------------------------------------------------
(***************************************************************************)
(* populate_calendar.                                                      *)
(***************************************************************************)

VARIABLES
    calendar,    \* the committed dates; their rows are SqlRow
    command      \* what each execution is doing, and what it reported

vars == <<calendar, command>>

NoCommand ==
    [pc |-> "idle", years |-> <<1, 1>>, next |-> 1, inserted |-> {}, before |-> 0,
     created |-> 0]

Init ==
    /\ calendar = {}
    /\ command = [c \in Commands |-> NoCommand]

First(c) == Ordinal(command[c].years[1], 1, 1)

Last(c) == Ordinal(command[c].years[2], 12, 31)

\* Mutant: the calendar goes on to the last year Python knows.
SupportedByPython(y) == 1 <= y /\ y <= 9999

\* MAX_SUPPORTED_YEAR: the week of 9998-12-31 still ends in a Python date.
Supported(y) == 1 <= y /\ y <= 9998

\* _validate_years; a run populates at most MAX_YEAR_SPAN years.
ValidYears(years) ==
    /\ Supported(years[1])
    /\ Supported(years[2])
    /\ years[1] <= years[2]
    /\ years[2] - years[1] + 1 <= 100

Start(c, years) ==
    /\ command[c].pc = "idle"
    /\ command' = [command EXCEPT
         ![c].pc = IF ValidYears(years) THEN "locking" ELSE "refused",
         ![c].years = years]
    /\ UNCHANGED calendar

InTransaction(c) == command[c].pc \in {"populating", "populated", "verified"}

Existing(c) == {o \in calendar : First(c) <= o /\ o <= Last(c)}

\* Mutant: nobody waits for the lock.
CountUnlocked(c) ==
    /\ command[c].pc = "locking"
    /\ command' = [command EXCEPT ![c].pc = "populating", ![c].next = First(c),
                                  ![c].before = Cardinality(Existing(c))]
    /\ UNCHANGED calendar

\* pg_advisory_xact_lock, and the number of dates that are there already.
Lock(c) ==
    /\ command[c].pc = "locking"
    /\ \A d \in Commands : ~InTransaction(d)
    /\ command' = [command EXCEPT ![c].pc = "populating", ![c].next = First(c),
                                  ![c].before = Cardinality(Existing(c))]
    /\ UNCHANGED calendar

Batch(c) ==
    LET end == command[c].next + BatchSize - 1
    IN  command[c].next .. (IF end < Last(c) THEN end ELSE Last(c))

\* ON CONFLICT DO NOTHING still waits for an open transaction with the same date.
BatchWaits(c) ==
    \E d \in Commands \ {c} : InTransaction(d) /\ Batch(c) \cap command[d].inserted # {}

\* Python derives a row, the database accepts the one it derives itself.
Insertable(o) == Representable(PythonRow(o)) /\ Accepted(SqlRow(o))

Failed(c) == [command EXCEPT ![c].pc = "failed", ![c].inserted = {}]

\* bulk_create(ignore_conflicts=True) of one batch; an error ends the command.
Populate(c) ==
    /\ command[c].pc = "populating"
    /\ ~BatchWaits(c)
    /\ command' =
         IF \A o \in Batch(c) : Insertable(o)
         THEN [command EXCEPT
                 ![c].inserted = @ \cup (Batch(c) \ calendar),
                 ![c].next = @ + BatchSize,
                 ![c].pc = IF command[c].next + BatchSize > Last(c)
                           THEN "populated" ELSE "populating"]
         ELSE Failed(c)
    /\ UNCHANGED calendar

\* What _verify looks at: the dates it counts, and their rows one by one.
Visible(c) == Existing(c) \cup command[c].inserted

Consistent(c) ==
    /\ Cardinality(Visible(c)) = Last(c) - First(c) + 1
    /\ \A o \in Visible(c) : SqlRow(o) = PythonRow(o)

Verify(c) ==
    /\ command[c].pc = "populated"
    /\ command' = IF Consistent(c) THEN [command EXCEPT ![c].pc = "verified"]
                  ELSE Failed(c)
    /\ UNCHANGED calendar

\* The transaction ends, and with it the lock; the command reports its numbers.
Commit(c) ==
    /\ command[c].pc = "verified"
    /\ calendar' = calendar \cup command[c].inserted
    /\ command' = [command EXCEPT
         ![c].pc = "reported", ![c].inserted = {},
         ![c].created = Last(c) - First(c) + 1 - command[c].before]

\* The connection is lost or the process dies: the transaction is undone.
Abort(c) ==
    /\ command[c].pc = "locking" \/ InTransaction(c)
    /\ command' = [command EXCEPT ![c].pc = "aborted", ![c].inserted = {}]
    /\ UNCHANGED calendar

Next ==
    \E c \in Commands :
        \/ \E years \in Ranges : Start(c, years)
        \/ Lock(c)
        \/ Populate(c)
        \/ Verify(c)
        \/ Commit(c)
        \/ Abort(c)

Spec == Init /\ [][Next]_vars

-----------------------------------------------------------------------------
\* A command that was asked for valid years never fails on its own: Python and
\* SQL derive the same rows, across leap years, ISO years and both ends of the
\* calendar, the constraints accept them and all of them are Python dates.
VerificationNeverFails == \A c \in Commands : command[c].pc # "failed"

\* The dates the commands report as created, one by one: the k-th of command c.
Created ==
    UNION {{c} \X (1..command[c].created) :
              c \in {d \in Commands : command[d].pc = "reported"}}

\* "Calendar is complete and valid from ... (... created, ... already present)":
\* the years of a command that reports are all there, and each date is reported as
\* created by one command, also when commands with common years run at once.
RunsTellTheTruth ==
    /\ \A c \in Commands :
         command[c].pc = "reported" => First(c)..Last(c) \subseteq calendar
    /\ Cardinality(Created) = Cardinality(calendar)
=============================================================================
