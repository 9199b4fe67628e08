------------------------------ MODULE Calendar ------------------------------
(* The UTC calendar arithmetic of packages/shared-utils (period.ts) and of *)
(* the scheduler's advance (recurring.service.ts).                         *)
(* A date is its number of days since 1 March 2000: every function here    *)
(* strips or keeps the time of day, none looks at it. Months count from 0  *)
(* for January, as in JavaScript.                                          *)
EXTENDS Integers

CONSTANT Dates      \* bound: the days whose date is looked up

ASSUME CalendarAssumption == Dates \subseteq Int

BudgetPeriods == {"WEEKLY", "MONTHLY", "YEARLY"}
Frequencies == {"DAILY", "WEEKLY", "MONTHLY", "YEARLY"}

(* Years are counted from 2000 and begin in March, so that a leap day ends  *)
(* its year: days before the year y, and in a year before its m-th month.  *)
YearStart(y) == 365 * y + y \div 4 - y \div 100 + y \div 400
DaysBefore(m) == (153 * m + 2) \div 5

(* Date.UTC: a month or a day past its range runs into the next ones.      *)
Utc(year, month, day) ==
    YearStart(year - 2000 + (month - 2) \div 12) + DaysBefore((month - 2) % 12) + day - 1

(* getUTCFullYear, getUTCMonth, getUTCDate, as a table: the cycles of 400, *)
(* 100 and 4 years that a day lies in, whose last year may be a day longer. *)
AtMost(bound, x) == IF x < bound THEN x ELSE bound
YearNumber(n) ==
    LET century == AtMost(3, (n % 146097) \div 36524)
        rest    == (n % 146097) - 36524 * century
    IN  400 * (n \div 146097) + 100 * century
            + 4 * (rest \div 1461) + AtMost(3, (rest % 1461) \div 365)
Civil ==
    [n \in Dates |->
        LET year  == YearNumber(n)
            day   == n - YearStart(year)
            month == (5 * day + 2) \div 153
        IN  [year  |-> 2000 + year + (IF month >= 10 THEN 1 ELSE 0),
             month |-> (month + 2) % 12,
             day   |-> day - DaysBefore(month) + 1]]
YearOf(n) == Civil[n].year
MonthOf(n) == Civil[n].month
DayOf(n) == Civil[n].day

-----------------------------------------------------------------------------
StartOfMonth(n) == Utc(YearOf(n), MonthOf(n), 1)
StartOfNextMonth(n) == Utc(YearOf(n), MonthOf(n) + 1, 1)

LastDayOfMonth(year, month) == DayOf(Utc(year, month + 1, 0))

(* The day of the month is clamped to the length of the month it falls in. *)
AddMonthsOverflowing(n, count) ==           \* mutant: 31 January + 1 = 2 March
    Utc(YearOf(n), MonthOf(n) + count, DayOf(n))
AddMonths(n, count) ==
    LET first == Utc(YearOf(n), MonthOf(n) + count, 1)
        last  == LastDayOfMonth(YearOf(n), MonthOf(n) + count)
    IN  first + (IF DayOf(n) < last THEN DayOf(n) ELSE last) - 1

MonthDiff(a, b) == (YearOf(b) - YearOf(a)) * 12 + (MonthOf(b) - MonthOf(a))

(* periodBounds: the range [start, end) of the period, aligned to anchor,  *)
(* that reference falls in.                                                *)
WeekBounds(anchor, reference) ==
    LET start == anchor + 7 * ((reference - anchor) \div 7)
    IN  [start |-> start, end |-> start + 7]

EarlierInYear(a, b) ==
    MonthOf(a) < MonthOf(b) \/ (MonthOf(a) = MonthOf(b) /\ DayOf(a) < DayOf(b))
YearBounds(anchor, reference) ==
    LET year == YearOf(reference) - (IF EarlierInYear(reference, anchor) THEN 1 ELSE 0)
    IN  [start |-> Utc(year, MonthOf(anchor), DayOf(anchor)),
         end   |-> Utc(year + 1, MonthOf(anchor), DayOf(anchor))]

MonthBounds(anchor, reference) ==
    LET months == MonthDiff(anchor, reference)
                  - (IF DayOf(reference) < DayOf(anchor) THEN 1 ELSE 0)
        start  == AddMonths(anchor, months)
    IN  [start |-> start, end |-> AddMonths(start, 1)]

PeriodBoundsOfMonth(period, anchor, reference) ==   \* mutant: monthly ignores the anchor's day
    CASE period = "WEEKLY"  -> WeekBounds(anchor, reference)
      [] period = "YEARLY"  -> YearBounds(anchor, reference)
      [] period = "MONTHLY" ->
            [start |-> AddMonths(anchor, MonthDiff(anchor, reference)),
             end   |-> AddMonths(anchor, MonthDiff(anchor, reference) + 1)]
PeriodBounds(period, anchor, reference) ==
    CASE period = "WEEKLY"  -> WeekBounds(anchor, reference)
      [] period = "YEARLY"  -> YearBounds(anchor, reference)
      [] period = "MONTHLY" -> MonthBounds(anchor, reference)

(* lastMonths: the months up to and including reference's, oldest first.   *)
LastMonthsFromDay(count, reference) ==      \* mutant: counted from the day itself
    [i \in 1..count |-> [start |-> AddMonths(reference, i - count),
                         end   |-> AddMonths(reference, i - count + 1)]]
LastMonths(count, reference) ==
    LET base == StartOfMonth(reference)
    IN  [i \in 1..count |-> [start |-> AddMonths(base, i - count),
                             end   |-> AddMonths(base, i - count + 1)]]

(* RecurringService.advance: the occurrence after one on day n.            *)
Steps(interval) == IF interval > 1 THEN interval ELSE 1
Advance(n, frequency, interval) ==
    CASE frequency = "DAILY"   -> n + Steps(interval)
      [] frequency = "WEEKLY"  -> n + 7 * Steps(interval)
      [] frequency = "YEARLY"  -> AddMonths(n, 12 * Steps(interval))
      [] frequency = "MONTHLY" -> AddMonths(n, Steps(interval))
=============================================================================
