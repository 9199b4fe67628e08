---------------------------- MODULE FiguresProofs ----------------------------
(* The figures that the app shows, for every value of the constants: the    *)
(* months and periods of the calendar, the occurrences of the schedules,    *)
(* the sums of the reports, and the balances of the demo data.              *)
EXTENDS Schedules, Reports, Seed, FiniteSetTheorems, WellFoundedInduction, TLAPS

(* The months, numbered: the k-th one begins on day MonthStart(k), and the  *)
(* day n lies in the one numbered MonthNumber(n).                           *)
MonthStart(k) == YearStart((k - 2) \div 12 - 2000) + DaysBefore((k - 2) % 12)
MonthNumber(n) == 12 * YearOf(n) + MonthOf(n)

LEMMA YearStep ==
  ASSUME NEW y \in Int
  PROVE  YearStart(y) \in Int /\ YearStart(y + 1) - YearStart(y) \in {365, 366}
BY DEF YearStart

LEMMA YearsGrow ==
  ASSUME NEW y \in Int, NEW z \in Int, y < z
  PROVE  YearStart(y + 1) <= YearStart(z)
BY DEF YearStart

LEMMA MonthDays ==
  /\ \A m \in 0..11 : DaysBefore(m) \in Int /\ 0 <= DaysBefore(m) /\ DaysBefore(m) <= 337
  /\ \A m \in 0..10 : DaysBefore(m + 1) - DaysBefore(m) \in {30, 31}
  /\ DaysBefore(11) = 337 /\ DaysBefore(0) = 0
BY DEF DaysBefore

LEMMA MonthsGrowInYear ==
  ASSUME NEW m \in 0..11, NEW l \in 0..11, m <= l
  PROVE  DaysBefore(m) <= DaysBefore(l)
BY DEF DaysBefore

LEMMA MonthOfYearDay ==
  ASSUME NEW d \in 0..365
  PROVE  LET m == (5 * d + 2) \div 153
         IN  m \in 0..11 /\ DaysBefore(m) <= d /\ (m < 11 => d < DaysBefore(m + 1))
BY DEF DaysBefore

(* The year of a day: it begins at or before the day, the next one after it. *)
LEMMA YearOfDay ==
  ASSUME NEW n \in Int
  PROVE  /\ YearNumber(n) \in Int
         /\ YearStart(YearNumber(n)) <= n /\ n < YearStart(YearNumber(n) + 1)
BY SMT DEF YearNumber, YearStart, AtMost

(* Date.UTC, by the number of the month.                                     *)
LEMMA UtcByMonth ==
  ASSUME NEW y \in Int, NEW m \in Int, NEW d \in Int
  PROVE  Utc(y, m, d) = MonthStart(12 * y + m) + d - 1
BY DEF Utc, MonthStart

(* The m-th month of the year y, both counted from March.                   *)
MonthOfYear(y, m) == 12 * y + m + 24002

LEMMA MonthParts ==
  ASSUME NEW k \in Int
  PROVE  \E y \in Int, m \in 0..11 : k = MonthOfYear(y, m)
<1>1. PICK y \in Int : y = (k - 2) \div 12 - 2000
  OBVIOUS
<1>2. PICK m \in 0..11 : m = (k - 2) % 12
  OBVIOUS
<1>3. k = 12 * y + m + 24002
  BY <1>1, <1>2
<1> QED
  BY <1>3 DEF MonthOfYear

LEMMA MonthFromParts ==
  ASSUME NEW y \in Int, NEW m \in 0..11
  PROVE  MonthStart(MonthOfYear(y, m)) = YearStart(y) + DaysBefore(m)
<1>1. PICK k \in Int : k = 12 * y + m + 24002
  OBVIOUS
<1>2. (k - 2) \div 12 - 2000 = y /\ (k - 2) % 12 = m
  BY <1>1
<1>3. MonthStart(k) = YearStart(y) + DaysBefore(m)
  BY <1>2 DEF MonthStart
<1> QED
  BY <1>1, <1>3 DEF MonthOfYear

(* The next month is in the same year or begins the next one.               *)
LEMMA NextMonthParts ==
  ASSUME NEW y \in Int, NEW m \in 0..11
  PROVE  /\ m < 11 => MonthOfYear(y, m) + 1 = MonthOfYear(y, m + 1)
         /\ m = 11 => MonthOfYear(y, m) + 1 = MonthOfYear(y + 1, 0)
BY DEF MonthOfYear

LEMMA NextMonthStart ==
  ASSUME NEW y \in Int, NEW m \in 0..11, NEW k, k = MonthOfYear(y, m)
  PROVE  /\ m < 11 => MonthStart(k + 1) = YearStart(y) + DaysBefore(m + 1)
         /\ m = 11 => MonthStart(k + 1) = YearStart(y + 1)
<1>1. CASE m < 11
  <2>1. PICK n \in 0..11 : n = m + 1
    BY <1>1
  <2>2. k + 1 = MonthOfYear(y, n)
    BY <1>1, <2>1, NextMonthParts
  <2>3. MonthStart(MonthOfYear(y, n)) = YearStart(y) + DaysBefore(n)
    BY MonthFromParts, Zenon
  <2> QED
    BY <1>1, <2>1, <2>2, <2>3
<1>2. CASE m = 11
  <2>1. PICK z \in Int : z = y + 1
    OBVIOUS
  <2>2. k + 1 = MonthOfYear(z, 0)
    BY <1>2, <2>1, NextMonthParts
  <2>3. 0 \in 0..11
    OBVIOUS
  <2>4. MonthStart(MonthOfYear(z, 0)) = YearStart(z) + DaysBefore(0)
    BY <2>3, MonthFromParts, Zenon
  <2>5. YearStart(z) \in Int /\ DaysBefore(0) = 0
    BY YearStep, MonthDays
  <2> QED
    BY <1>2, <2>1, <2>2, <2>4, <2>5
<1> QED
  BY <1>1, <1>2

LEMMA MonthStep ==
  ASSUME NEW k \in Int
  PROVE  MonthStart(k) \in Int /\ MonthStart(k + 1) - MonthStart(k) \in 28..31
<1>1. PICK y \in Int, m \in 0..11 : k = MonthOfYear(y, m)
  BY MonthParts
<1>2. MonthStart(k) = YearStart(y) + DaysBefore(m)
  BY <1>1, MonthFromParts, Zenon
<1>3. YearStart(y) \in Int /\ YearStart(y + 1) - YearStart(y) \in {365, 366}
  BY YearStep
<1>4. DaysBefore(m) \in Int /\ 0 <= DaysBefore(m) /\ DaysBefore(m) <= 337
  BY MonthDays
<1>5. CASE m < 11
  <2>1. MonthStart(k + 1) = YearStart(y) + DaysBefore(m + 1)
    BY <1>1, <1>5, NextMonthStart
  <2>2. PICK d \in 0..337 : d = DaysBefore(m + 1)
    BY <1>5, MonthDays
  <2>3. d - DaysBefore(m) \in {30, 31}
    BY <1>5, <2>2, MonthDays
  <2>4. PICK a : a = MonthStart(k + 1)
    OBVIOUS
  <2>5. a = YearStart(y) + d
    BY <2>1, <2>2, <2>4
  <2>6. MonthStart(k) \in Int /\ a - MonthStart(k) \in 28..31
    BY <1>2, <1>3, <1>4, <2>3, <2>5
  <2> QED
    BY <2>4, <2>6
<1>6. CASE m = 11
  <2>1. MonthStart(k + 1) = YearStart(y + 1)
    BY <1>1, <1>6, NextMonthStart
  <2>2. DaysBefore(m) = 337 /\ YearStart(y + 1) \in Int
    BY <1>6, MonthDays, YearStep
  <2> QED
    BY <1>2, <1>3, <2>1, <2>2
<1> QED
  BY <1>5, <1>6

(* A later month begins no earlier.                                          *)
LEMMA MonthsGrow ==
  ASSUME NEW k \in Int, NEW l \in Int, k <= l
  PROVE  MonthStart(k) <= MonthStart(l)
<1>1. PICK y \in Int, m \in 0..11 : k = MonthOfYear(y, m)
  BY MonthParts
<1>2. PICK z \in Int, n \in 0..11 : l = MonthOfYear(z, n)
  BY MonthParts
<1>3. MonthStart(k) = YearStart(y) + DaysBefore(m)
  BY <1>1, MonthFromParts, Zenon
<1>4. MonthStart(l) = YearStart(z) + DaysBefore(n)
  BY <1>2, MonthFromParts, Zenon
<1>5. YearStart(y) \in Int /\ YearStart(z) \in Int
  BY YearStep
<1>6. /\ DaysBefore(m) \in Int /\ 0 <= DaysBefore(m) /\ DaysBefore(m) <= 337
      /\ DaysBefore(n) \in Int /\ 0 <= DaysBefore(n) /\ DaysBefore(n) <= 337
  BY MonthDays
<1>7. y < z \/ (y = z /\ m <= n)
  BY <1>1, <1>2 DEF MonthOfYear
<1>8. CASE y < z
  <2>1. YearStart(y + 1) <= YearStart(z)
    BY <1>8, YearsGrow
  <2>2. PICK a \in Int : a = YearStart(y + 1)
    BY YearStep
  <2>3. a - YearStart(y) >= 365 /\ a <= YearStart(z)
    BY <2>1, <2>2, YearStep
  <2> QED
    BY <1>3, <1>4, <1>5, <1>6, <2>3
<1>9. CASE y = z /\ m <= n
  <2>1. DaysBefore(m) <= DaysBefore(n)
    BY <1>9, MonthsGrowInYear
  <2>2. YearStart(y) = YearStart(z)
    BY <1>9
  <2> QED
    BY <1>3, <1>4, <1>5, <1>6, <2>1, <2>2
<1> QED
  BY <1>7, <1>8, <1>9

(* A month is named by one number, and a day lies in one month.             *)
LEMMA DateOfDay ==
  ASSUME NEW n \in Dates
  PROVE  /\ n \in Int /\ YearOf(n) \in Int /\ MonthOf(n) \in 0..11 /\ DayOf(n) \in 1..31
         /\ MonthNumber(n) \in Int
         /\ MonthStart(MonthNumber(n)) <= n /\ n < MonthStart(MonthNumber(n) + 1)
         /\ DayOf(n) = n - MonthStart(MonthNumber(n)) + 1
<1>1. n \in Int
  BY CalendarAssumption
<1>2. PICK year : year = YearNumber(n)
  OBVIOUS
<1>3. PICK day : day = n - YearStart(year)
  OBVIOUS
<1>4. PICK month : month = (5 * day + 2) \div 153
  OBVIOUS
<1>5. /\ YearOf(n) = 2000 + year + (IF month >= 10 THEN 1 ELSE 0)
      /\ MonthOf(n) = (month + 2) % 12
      /\ DayOf(n) = day - DaysBefore(month) + 1
  BY <1>2, <1>3, <1>4 DEF YearOf, MonthOf, DayOf, Civil
<1>6. year \in Int /\ YearStart(year) <= n /\ n < YearStart(year + 1)
  BY <1>1, <1>2, YearOfDay
<1>7. /\ YearStart(year) \in Int /\ YearStart(year + 1) \in Int
      /\ YearStart(year + 1) - YearStart(year) \in {365, 366}
  BY <1>6, YearStep
<1>8. day \in 0..365
  BY <1>1, <1>3, <1>6, <1>7
<1>9. month \in 0..11 /\ DaysBefore(month) <= day /\ (month < 11 => day < DaysBefore(month + 1))
  BY <1>4, <1>8, MonthOfYearDay
<1>10. DaysBefore(month) \in Int /\ (month < 11 => DaysBefore(month + 1) \in Int)
  BY <1>9, MonthDays
<1>11. PICK k : k = MonthOfYear(year, month)
  OBVIOUS
<1>12. YearOf(n) \in Int /\ MonthOf(n) \in 0..11 /\ MonthNumber(n) = k /\ k \in Int
  BY <1>5, <1>6, <1>9, <1>11 DEF MonthNumber, MonthOfYear
<1>13. MonthStart(k) = YearStart(year) + DaysBefore(month)
  BY <1>6, <1>9, <1>11, MonthFromParts, Zenon
<1>14. MonthStart(k) <= n /\ DayOf(n) = n - MonthStart(k) + 1
  BY <1>1, <1>3, <1>5, <1>7, <1>8, <1>9, <1>10, <1>13
<1>15. n < MonthStart(k + 1)
  <2>1. CASE month < 11
    <3>1. MonthStart(k + 1) = YearStart(year) + DaysBefore(month + 1)
      BY <1>6, <1>9, <1>11, <2>1, NextMonthStart
    <3> QED
      BY <1>1, <1>3, <1>7, <1>9, <1>10, <2>1, <3>1
  <2>2. CASE month = 11
    <3>1. MonthStart(k + 1) = YearStart(year + 1)
      BY <1>6, <1>9, <1>11, <2>2, NextMonthStart
    <3> QED
      BY <1>6, <1>7, <3>1
  <2> QED
    BY <1>9, <2>1, <2>2
<1>16. MonthStart(k) \in Int /\ MonthStart(k + 1) - MonthStart(k) \in 28..31
  BY <1>12, MonthStep
<1>17. MonthStart(k + 1) \in Int
  BY <1>12, MonthStep
<1> QED
  BY <1>1, <1>12, <1>14, <1>15, <1>16, <1>17

(* The month that holds a day, from its first to the next one's, is its month.*)
LEMMA MonthOfDay ==
  ASSUME NEW n \in Dates, NEW k \in Int, MonthStart(k) <= n, n < MonthStart(k + 1)
  PROVE  MonthNumber(n) = k /\ DayOf(n) = n - MonthStart(k) + 1
<1> DEFINE j == MonthNumber(n)
<1>1. n \in Int /\ j \in Int /\ MonthStart(j) <= n /\ n < MonthStart(j + 1) /\ DayOf(n) = n - MonthStart(j) + 1
  BY DateOfDay
<1>2. \A i \in {j, k} : MonthStart(i) \in Int /\ MonthStart(i + 1) \in Int
  BY <1>1, MonthStep
<1> HIDE DEF j
<1>3. ~(j < k)
  <2>1. j < k => j + 1 <= k /\ j + 1 \in Int
    BY <1>1
  <2>2. j < k => MonthStart(j + 1) <= MonthStart(k)
    BY <2>1, MonthsGrow
  <2> QED
    BY <1>1, <1>2, <2>2
<1>4. ~(k < j)
  <2>1. k < j => k + 1 <= j /\ k + 1 \in Int
    BY <1>1
  <2>2. k < j => MonthStart(k + 1) <= MonthStart(j)
    BY <1>1, <2>1, MonthsGrow
  <2> QED
    BY <1>1, <1>2, <2>2
<1>5. j = k
  BY <1>1, <1>3, <1>4
<1> QED
  BY <1>1, <1>5 DEF j

LEMMA OneYearAndMonth ==
  ASSUME NEW y \in Int, NEW m \in 0..11, NEW n \in Dates
  PROVE  /\ MonthNumber(n) = 12 * y + m => YearOf(n) = y /\ MonthOf(n) = m
         /\ MonthNumber(n) = 12 * YearOf(n) + MonthOf(n)
BY DateOfDay DEF MonthNumber

-----------------------------------------------------------------------------
(* What the functions of period.ts do, in months and days of a month.       *)

MonthLength(k) == MonthStart(k + 1) - MonthStart(k)
Clamped(day, k) == IF day < MonthLength(k) THEN day ELSE MonthLength(k)

LEMMA LengthType ==
  ASSUME NEW k \in Int
  PROVE  /\ MonthStart(k) \in Int /\ MonthStart(k + 1) \in Int
         /\ MonthStart(k + 1) = MonthStart(k) + MonthLength(k)
         /\ MonthLength(k) \in Int /\ 28 <= MonthLength(k) /\ MonthLength(k) <= 31
<1>1. MonthStart(k) \in Int /\ MonthStart(k + 1) - MonthStart(k) \in 28..31
  BY MonthStep
<1>2. PICK l \in Int : l = k + 1
  OBVIOUS
<1>3. MonthStart(l) \in Int
  BY MonthStep
<1> QED
  BY <1>1, <1>2, <1>3 DEF MonthLength

LEMMA Standing ==
  ASSUME NEW n \in Dates
  PROVE  /\ n \in Int /\ MonthNumber(n) \in Int /\ DayOf(n) \in Int
         /\ n = MonthStart(MonthNumber(n)) + DayOf(n) - 1
         /\ 1 <= DayOf(n) /\ DayOf(n) <= MonthLength(MonthNumber(n))
<1>1. PICK k : k = MonthNumber(n)
  OBVIOUS
<1>2. /\ n \in Int /\ k \in Int /\ DayOf(n) \in 1..31
      /\ MonthStart(k) <= n /\ n < MonthStart(k + 1)
      /\ DayOf(n) = n - MonthStart(k) + 1
  BY <1>1, DateOfDay
<1>3. MonthStart(k) \in Int /\ MonthStart(k + 1) = MonthStart(k) + MonthLength(k) /\ MonthLength(k) \in Int
  BY <1>2, LengthType
<1> QED
  BY <1>1, <1>2, <1>3

LEMMA Stands ==
  ASSUME NEW n \in Dates, NEW k \in Int, NEW d \in Int,
         n = MonthStart(k) + d - 1, 1 <= d, d <= MonthLength(k)
  PROVE  MonthNumber(n) = k /\ DayOf(n) = d
<1>1. MonthStart(k) \in Int /\ MonthStart(k + 1) = MonthStart(k) + MonthLength(k) /\ MonthLength(k) \in Int
  BY LengthType
<1>2. MonthStart(k) <= n /\ n < MonthStart(k + 1)
  BY <1>1
<1>3. MonthNumber(n) = k /\ DayOf(n) = n - MonthStart(k) + 1
  BY <1>2, MonthOfDay
<1> QED
  BY <1>1, <1>3

LEMMA ClampedType ==
  ASSUME NEW d \in Int, 1 <= d, NEW k \in Int
  PROVE  /\ Clamped(d, k) \in Int /\ 1 <= Clamped(d, k) /\ Clamped(d, k) <= d
         /\ Clamped(d, k) <= MonthLength(k)
         /\ d <= MonthLength(k) => Clamped(d, k) = d
         /\ MonthLength(k) <= d => Clamped(d, k) = MonthLength(k)
<1>1. MonthLength(k) \in Int /\ 28 <= MonthLength(k)
  BY LengthType
<1> QED
  BY <1>1 DEF Clamped

LEMMA MonthsBetween ==
  ASSUME NEW a \in Dates, NEW b \in Dates
  PROVE  MonthDiff(a, b) = MonthNumber(b) - MonthNumber(a)
BY DateOfDay DEF MonthDiff, MonthNumber

LEMMA MonthEnds ==
  ASSUME NEW n \in Dates
  PROVE  /\ StartOfMonth(n) = MonthStart(MonthNumber(n))
         /\ StartOfNextMonth(n) = MonthStart(MonthNumber(n) + 1)
<1>1. PICK y \in Int, m \in Int, l \in Int : y = YearOf(n) /\ m = MonthOf(n) /\ l = m + 1
  BY DateOfDay
<1>2. /\ Utc(y, m, 1) = MonthStart(12 * y + m) + 1 - 1
      /\ Utc(y, l, 1) = MonthStart(12 * y + l) + 1 - 1
  BY UtcByMonth
<1>3. 12 * y + m = MonthNumber(n) /\ 12 * y + l = MonthNumber(n) + 1 /\ MonthNumber(n) \in Int
  BY <1>1 DEF MonthNumber
<1>4. MonthStart(MonthNumber(n)) \in Int /\ MonthStart(MonthNumber(n) + 1) \in Int
  BY <1>3, LengthType
<1> QED
  BY <1>1, <1>2, <1>3, <1>4 DEF StartOfMonth, StartOfNextMonth

LEMMA MonthEndDay ==
  ASSUME NEW y \in Int, NEW m \in Int, NEW k \in Int, k = 12 * y + m,
         MonthStart(k + 1) - 1 \in Dates
  PROVE  LastDayOfMonth(y, m) = MonthLength(k)
<1>1. PICK l \in Int : l = m + 1
  OBVIOUS
<1>2. Utc(y, l, 0) = MonthStart(12 * y + l) + 0 - 1
  BY UtcByMonth
<1>3. 12 * y + l = k + 1
  BY <1>1
<1>4. PICK n \in Dates : n = MonthStart(k + 1) - 1
  OBVIOUS
<1>5. /\ MonthStart(k) \in Int /\ MonthStart(k + 1) = MonthStart(k) + MonthLength(k)
      /\ MonthLength(k) \in Int /\ 28 <= MonthLength(k)
  BY LengthType
<1>6. n = MonthStart(k) + MonthLength(k) - 1
  BY <1>4, <1>5
<1>7. DayOf(n) = MonthLength(k)
  BY <1>5, <1>6, Stands
<1>8. Utc(y, m + 1, 0) = n
  BY <1>1, <1>2, <1>3, <1>4, <1>5
<1> QED
  BY <1>7, <1>8 DEF LastDayOfMonth

(* addMonths keeps the day of the month, clamped to the length of the month. *)
LEMMA MonthsAdded ==
  ASSUME NEW n \in Dates, NEW count \in Int,
         MonthStart(MonthNumber(n) + count + 1) - 1 \in Dates
  PROVE  AddMonths(n, count) =
            MonthStart(MonthNumber(n) + count) + Clamped(DayOf(n), MonthNumber(n) + count) - 1
<1>1. PICK k \in Int : k = MonthNumber(n) + count
  BY Standing
<1>2. PICK y \in Int, m \in Int : y = YearOf(n) /\ m = MonthOf(n) + count
  BY DateOfDay
<1>3. k = 12 * y + m
  BY <1>1, <1>2, DateOfDay DEF MonthNumber
<1>4. Utc(y, m, 1) = MonthStart(12 * y + m) + 1 - 1
  BY UtcByMonth
<1>5. LastDayOfMonth(y, m) = MonthLength(k)
  BY <1>1, <1>3, MonthEndDay
<1>6. MonthStart(k) \in Int /\ MonthLength(k) \in Int /\ DayOf(n) \in Int
  BY LengthType, Standing
<1>7. Utc(y, m, 1) = MonthStart(k)
  BY <1>3, <1>4, <1>6
<1> QED
  BY <1>1, <1>2, <1>5, <1>6, <1>7 DEF AddMonths, Clamped

-----------------------------------------------------------------------------
(* Budgets, for any start dates and any days of the clock.                   *)

LEMMA ClockDays ==
  ASSUME NEW n \in FirstDay..LastDay, NEW d \in Int, n - 62 <= d, d <= n + 62
  PROVE  d \in Dates
BY BudgetAssumption

(* The month that the period holding a day of month t begins in.             *)
PeriodMonth(anchor, n) == MonthNumber(n) - (IF DayOf(n) < DayOf(anchor) THEN 1 ELSE 0)
PeriodStart(anchor, k) == MonthStart(k) + Clamped(DayOf(anchor), k) - 1
PeriodEnd(anchor, k) == MonthStart(k + 1) + Clamped(Clamped(DayOf(anchor), k), k + 1) - 1

LEMMA MonthPeriod ==
  ASSUME NEW a \in StartDates, NEW n \in FirstDay..LastDay
  PROVE  MonthBounds(a, n) = [start |-> PeriodStart(a, PeriodMonth(a, n)),
                              end   |-> PeriodEnd(a, PeriodMonth(a, n))]
<1>1. a \in Dates /\ n \in Dates /\ n \in Int
  BY BudgetAssumption, ClockDays
<1>2. PICK t, day, x : t = MonthNumber(n) /\ day = DayOf(n) /\ x = DayOf(a)
  OBVIOUS
<1>3. /\ t \in Int /\ day \in Int /\ n = MonthStart(t) + day - 1
      /\ 1 <= day /\ day <= MonthLength(t)
      /\ x \in Int /\ 1 <= x
  BY <1>1, <1>2, Standing
<1>4. PICK k : k = PeriodMonth(a, n)
  OBVIOUS
<1>5. k \in Int /\ (k = t \/ k = t - 1)
  BY <1>2, <1>3, <1>4 DEF PeriodMonth
<1>6. PICK l \in Int, p \in Int : l = k + 1 /\ p = t - 1
  BY <1>3, <1>5
<1>7. /\ MonthStart(p) \in Int /\ MonthStart(t) = MonthStart(p) + MonthLength(p)
      /\ MonthLength(p) \in Int /\ 28 <= MonthLength(p) /\ MonthLength(p) <= 31
  <2>1. p + 1 = t
    BY <1>3, <1>6
  <2> QED
    BY <2>1, LengthType
<1>8. /\ MonthStart(t) \in Int /\ MonthStart(t + 1) = MonthStart(t) + MonthLength(t)
      /\ MonthLength(t) \in Int /\ 28 <= MonthLength(t) /\ MonthLength(t) <= 31
  BY <1>3, LengthType
<1>9. /\ MonthStart(k) \in Int /\ MonthStart(l) = MonthStart(k) + MonthLength(k)
      /\ MonthLength(k) \in Int /\ 28 <= MonthLength(k) /\ MonthLength(k) <= 31
  BY <1>5, <1>6, LengthType
<1>10. /\ MonthStart(l) \in Int /\ MonthStart(l + 1) = MonthStart(l) + MonthLength(l)
       /\ MonthLength(l) \in Int /\ 28 <= MonthLength(l) /\ MonthLength(l) <= 31
  BY LengthType
<1>11. n - 61 <= MonthStart(k) /\ MonthStart(k) <= n
  <2>1. CASE k = t
    BY <1>1, <1>3, <1>8, <2>1
  <2>2. CASE k = t - 1
    <3>1. MonthStart(k) = MonthStart(p)
      BY <1>6, <2>2
    <3> QED
      BY <1>1, <1>3, <1>7, <1>8, <3>1
  <2> QED
    BY <1>5, <2>1, <2>2
<1>12. /\ MonthStart(l) - 1 \in Int /\ n - 62 <= MonthStart(l) - 1 /\ MonthStart(l) - 1 <= n + 62
       /\ MonthStart(l + 1) - 1 \in Int /\ n - 62 <= MonthStart(l + 1) - 1
       /\ MonthStart(l + 1) - 1 <= n + 62
  BY <1>1, <1>9, <1>10, <1>11
<1>13. MonthStart(l) - 1 \in Dates /\ MonthStart(l + 1) - 1 \in Dates
  BY <1>12, ClockDays
<1>14. PICK months \in Int :
          months = MonthDiff(a, n) - (IF DayOf(n) < DayOf(a) THEN 1 ELSE 0)
                   /\ MonthNumber(a) + months = k /\ MonthNumber(a) \in Int
  <2>1. MonthDiff(a, n) = MonthNumber(n) - MonthNumber(a)
    BY <1>1, MonthsBetween
  <2>2. MonthNumber(a) \in Int
    BY <1>1, Standing
  <2> QED
    BY <1>2, <1>3, <1>4, <2>1, <2>2 DEF PeriodMonth
<1>15. AddMonths(a, months) = PeriodStart(a, k)
  <2>1. MonthStart(MonthNumber(a) + months + 1) - 1 \in Dates
    BY <1>6, <1>13, <1>14
  <2> QED
    BY <1>1, <1>14, <2>1, MonthsAdded DEF PeriodStart
<1>16. PICK c : c = Clamped(x, k)
  OBVIOUS
<1>17. c \in Int /\ 1 <= c /\ c <= MonthLength(k)
  BY <1>3, <1>5, <1>16, ClampedType
<1>18. PICK start : start = MonthStart(k) + c - 1
  OBVIOUS
<1>19. start \in Int /\ n - 62 <= start /\ start <= n + 62
  BY <1>1, <1>9, <1>11, <1>17, <1>18
<1>20. start \in Dates
  BY <1>19, ClockDays
<1>21. MonthNumber(start) = k /\ DayOf(start) = c
  BY <1>5, <1>17, <1>18, <1>20, Stands
<1>22. MonthNumber(start) + 1 = l /\ MonthStart(MonthNumber(start) + 1 + 1) - 1 \in Dates
  BY <1>6, <1>13, <1>21
<1>23. AddMonths(start, 1) =
         MonthStart(MonthNumber(start) + 1) + Clamped(DayOf(start), MonthNumber(start) + 1) - 1
  BY <1>20, <1>22, MonthsAdded
<1>24. AddMonths(start, 1) = MonthStart(k + 1) + Clamped(Clamped(x, k), k + 1) - 1
  BY <1>16, <1>21, <1>23
<1>25. start = PeriodStart(a, k) /\ AddMonths(start, 1) = PeriodEnd(a, k)
  BY <1>2, <1>16, <1>18, <1>24 DEF PeriodStart, PeriodEnd
<1> QED
  BY <1>4, <1>14, <1>15, <1>25 DEF MonthBounds

(* A month has its length in every year, up to the day of a leap year.       *)
LEMMA SameMonth ==
  ASSUME NEW k \in Int, NEW y \in Int
  PROVE  MonthLength(k) <= MonthLength(k + 12 * y) + 1
<1>1. PICK z \in Int, m \in 0..11 : k = MonthOfYear(z, m)
  BY MonthParts
<1>2. PICK v \in Int : v = z + y
  OBVIOUS
<1>3. PICK l \in Int : l = k + 12 * y
  OBVIOUS
<1>4. l = MonthOfYear(v, m)
  BY <1>1, <1>2, <1>3 DEF MonthOfYear
<1>5. /\ MonthStart(k) = YearStart(z) + DaysBefore(m)
      /\ MonthStart(l) = YearStart(v) + DaysBefore(m)
  BY <1>1, <1>4, MonthFromParts
<1>6. /\ YearStart(z) \in Int /\ YearStart(v) \in Int
      /\ DaysBefore(m) \in Int
  BY YearStep, MonthDays
<1>7. CASE m < 11
  <2>1. /\ MonthStart(k + 1) = YearStart(z) + DaysBefore(m + 1)
        /\ MonthStart(l + 1) = YearStart(v) + DaysBefore(m + 1)
    BY <1>1, <1>4, <1>7, NextMonthStart
  <2>2. PICK d : d = DaysBefore(m + 1)
    OBVIOUS
  <2>3. d \in Int
    BY <1>7, <2>2, MonthDays
  <2>4. MonthLength(k) = d - DaysBefore(m) /\ MonthLength(l) = d - DaysBefore(m)
    BY <1>5, <1>6, <2>1, <2>2, <2>3 DEF MonthLength
  <2> QED
    BY <1>3, <1>6, <2>3, <2>4
<1>8. CASE m = 11
  <2>1. MonthStart(k + 1) = YearStart(z + 1) /\ MonthStart(l + 1) = YearStart(v + 1)
    BY <1>1, <1>4, <1>8, NextMonthStart
  <2>2. /\ YearStart(z + 1) - YearStart(z) \in {365, 366}
        /\ YearStart(v + 1) - YearStart(v) \in {365, 366}
    BY YearStep
  <2>3. PICK a, b : a = YearStart(z + 1) /\ b = YearStart(v + 1)
    OBVIOUS
  <2>4. a \in Int /\ b \in Int
    BY <2>3, YearStep
  <2>5. MonthLength(k) = a - YearStart(z) - DaysBefore(m) /\ MonthLength(l) = b - YearStart(v) - DaysBefore(m)
    BY <1>5, <1>6, <2>1, <2>3, <2>4 DEF MonthLength
  <2>6. a - YearStart(z) <= 366 /\ b - YearStart(v) >= 365
    BY <2>2, <2>3
  <2>7. MonthLength(k) <= MonthLength(l) + 1
    BY <1>6, <2>4, <2>5, <2>6
  <2> QED
    BY <1>3, <2>7
<1> QED
  BY <1>7, <1>8

(* The month that the year holding a day begins in: the anchor's, in the     *)
(* same year or the one before.                                              *)
YearPeriodMonth(a, n) ==
    12 * (YearOf(n) - (IF EarlierInYear(n, a) THEN 1 ELSE 0)) + MonthOf(a)
YearPeriodStart(a, k) == MonthStart(k) + DayOf(a) - 1

LEMMA YearPeriod ==
  ASSUME NEW a \in Dates, NEW n \in Dates
  PROVE  /\ YearPeriodMonth(a, n) \in Int
         /\ YearBounds(a, n) = [start |-> YearPeriodStart(a, YearPeriodMonth(a, n)),
                                end   |-> YearPeriodStart(a, YearPeriodMonth(a, n) + 12)]
<1>1. PICK year \in Int : year = YearOf(n) - (IF EarlierInYear(n, a) THEN 1 ELSE 0)
  BY DateOfDay
<1>2. PICK m \in Int, d \in Int, next \in Int : m = MonthOf(a) /\ d = DayOf(a) /\ next = year + 1
  BY DateOfDay
<1>3. /\ Utc(year, m, d) = MonthStart(12 * year + m) + d - 1
      /\ Utc(next, m, d) = MonthStart(12 * next + m) + d - 1
  BY UtcByMonth
<1>4. 12 * year + m = YearPeriodMonth(a, n) /\ 12 * next + m = YearPeriodMonth(a, n) + 12
  BY <1>1, <1>2 DEF YearPeriodMonth
<1>5. YearPeriodMonth(a, n) \in Int
  BY <1>4
<1> QED
  BY <1>1, <1>2, <1>3, <1>4, <1>5 DEF YearBounds, YearPeriodStart

LEMMA YearMonth ==
  ASSUME NEW a \in Dates, NEW n \in Dates, NEW x, NEW d, NEW day, NEW y, NEW m, NEW k,
         x = MonthOf(a), d = DayOf(a), day = DayOf(n), y = YearOf(n), m = MonthOf(n),
         k = YearPeriodMonth(a, n)
  PROVE  \/ (m < x \/ (m = x /\ day < d)) /\ k = 12 * (y - 1) + x
         \/ (x < m \/ (m = x /\ d <= day)) /\ k = 12 * y + x
<1>1. x \in 0..11 /\ d \in Int /\ day \in Int /\ y \in Int /\ m \in 0..11
  BY DateOfDay, Standing
<1>2. k = 12 * (y - (IF EarlierInYear(n, a) THEN 1 ELSE 0)) + x
  BY DEF YearPeriodMonth
<1>3. EarlierInYear(n, a) <=> m < x \/ (m = x /\ day < d)
  BY DEF EarlierInYear
<1>4. CASE EarlierInYear(n, a)
  <2>1. k = 12 * (y - 1) + x
    BY <1>2, <1>4
  <2> QED
    BY <1>3, <1>4, <2>1
<1>5. CASE ~EarlierInYear(n, a)
  <2>1. k = 12 * y + x
    BY <1>1, <1>2, <1>5
  <2>2. x < m \/ (m = x /\ d <= day)
    BY <1>1, <1>3, <1>5
  <2> QED
    BY <2>1, <2>2
<1> QED
  BY <1>4, <1>5

LEMMA TodayInYear ==
  ASSUME NEW a \in Dates, NEW n \in Dates
  PROVE  InRange(n, YearBounds(a, n))
<1>1. PICK x, d, day, y, m, t : /\ x = MonthOf(a) /\ d = DayOf(a)
                                /\ day = DayOf(n) /\ y = YearOf(n) /\ m = MonthOf(n) /\ t = MonthNumber(n)
  OBVIOUS
<1>2. /\ x \in 0..11 /\ d \in Int /\ 1 <= d /\ d <= 31
      /\ day \in Int /\ y \in Int /\ m \in 0..11 /\ t = 12 * y + m
      /\ n \in Int /\ n = MonthStart(t) + day - 1 /\ 1 <= day /\ day <= MonthLength(t)
  BY <1>1, DateOfDay, Standing DEF MonthNumber
<1>3. /\ MonthStart(t) \in Int /\ MonthStart(t + 1) = MonthStart(t) + MonthLength(t)
      /\ MonthLength(t) \in Int /\ t \in Int
  BY <1>2, LengthType
<1>4. PICK u \in Int : u = t + 1
  BY <1>3
<1>5. PICK k \in Int, l \in Int, j \in Int : k = YearPeriodMonth(a, n) /\ l = k + 12 /\ j = k + 1
  BY YearPeriod
<1>6. /\ MonthStart(k) \in Int /\ MonthStart(l) \in Int /\ MonthStart(j) \in Int /\ MonthStart(u) \in Int
      /\ MonthStart(j) = MonthStart(k) + MonthLength(k) /\ MonthLength(k) \in Int
  BY <1>5, LengthType
<1>7. d <= MonthLength(k) + 1
  <2>1. PICK b \in Int : b = MonthNumber(a)
    BY DateOfDay
  <2>2. b = 12 * YearOf(a) + x /\ YearOf(a) \in Int
    BY <1>1, <2>1, DateOfDay DEF MonthNumber
  <2>3. PICK v \in Int : k = b + 12 * v
    <3>1. PICK w \in Int : w = YearOf(n) - (IF EarlierInYear(n, a) THEN 1 ELSE 0)
      BY DateOfDay
    <3>2. k = 12 * w + x
      BY <1>1, <1>5, <3>1 DEF YearPeriodMonth
    <3>3. w - YearOf(a) \in Int /\ k = b + 12 * (w - YearOf(a))
      BY <1>2, <2>2, <3>1, <3>2
    <3> QED
      BY <3>3
  <2>4. d <= MonthLength(b)
    BY <1>1, <2>1, Standing
  <2>5. MonthLength(b) <= MonthLength(k) + 1
    BY <2>3, SameMonth
  <2>6. MonthLength(b) \in Int
    BY LengthType
  <2> QED
    BY <1>2, <1>6, <2>4, <2>5, <2>6
<1>8. \/ (m < x \/ (m = x /\ day < d)) /\ k = 12 * (y - 1) + x
      \/ (x < m \/ (m = x /\ d <= day)) /\ k = 12 * y + x
  BY <1>1, <1>5, YearMonth
<1>9. \/ k = t /\ d <= day /\ u <= l
      \/ j <= t /\ u <= l
      \/ j <= t /\ l = t /\ day < d
  BY <1>2, <1>3, <1>4, <1>5, <1>8
<1>10. MonthStart(k) + d - 1 <= n /\ n < MonthStart(l) + d - 1
  <2>1. CASE k = t /\ d <= day /\ u <= l
    <3>1. MonthStart(u) <= MonthStart(l)
      BY <2>1, MonthsGrow
    <3> QED
      BY <1>2, <1>3, <1>4, <1>6, <2>1, <3>1
  <2>2. CASE j <= t /\ u <= l
    <3>1. MonthStart(u) <= MonthStart(l) /\ MonthStart(j) <= MonthStart(t)
      BY <1>3, <2>2, MonthsGrow
    <3> QED
      BY <1>2, <1>3, <1>4, <1>6, <1>7, <3>1
  <2>3. CASE j <= t /\ l = t /\ day < d
    <3>1. MonthStart(j) <= MonthStart(t)
      BY <1>3, <2>3, MonthsGrow
    <3> QED
      BY <1>2, <1>3, <1>6, <1>7, <2>3, <3>1
  <2> QED
    BY <1>9, <2>1, <2>2, <2>3
<1> QED
  BY <1>1, <1>5, <1>10, YearPeriod DEF InRange, YearPeriodStart

LEMMA TodayInWeek ==
  ASSUME NEW a \in Int, NEW n \in Int
  PROVE  InRange(n, WeekBounds(a, n))
<1>1. PICK q \in Int : q = (n - a) \div 7
  OBVIOUS
<1>2. 7 * q <= n - a /\ n - a < 7 * q + 7
  BY <1>1
<1> QED
  BY <1>1, <1>2 DEF InRange, WeekBounds

LEMMA TodayInMonth ==
  ASSUME NEW a \in StartDates, NEW n \in FirstDay..LastDay, DayOf(a) <= 28
  PROVE  InRange(n, MonthBounds(a, n))
<1>1. a \in Dates /\ n \in Dates
  BY BudgetAssumption, ClockDays
<1>2. PICK t, k, day, x : t = MonthNumber(n) /\ k = PeriodMonth(a, n) /\ day = DayOf(n) /\ x = DayOf(a)
  OBVIOUS
<1>3. /\ n \in Int /\ t \in Int /\ day \in Int /\ n = MonthStart(t) + day - 1
      /\ 1 <= day /\ day <= MonthLength(t)
      /\ x \in Int /\ 1 <= x /\ x <= 28
  BY <1>1, <1>2, Standing
<1>4. (x <= day /\ k = t) \/ (day < x /\ k = t - 1)
  BY <1>2, <1>3 DEF PeriodMonth
<1>5. PICK l \in Int : l = k + 1 /\ k \in Int
  BY <1>3, <1>4
<1>6. /\ MonthStart(k) \in Int /\ MonthStart(l) = MonthStart(k) + MonthLength(k)
      /\ MonthLength(k) \in Int /\ 28 <= MonthLength(k)
      /\ MonthStart(l) \in Int /\ MonthLength(l) \in Int /\ 28 <= MonthLength(l)
  BY <1>5, LengthType
<1>7. Clamped(x, k) = x /\ Clamped(x, l) = x
  <2>1. x <= MonthLength(k) /\ x <= MonthLength(l)
    BY <1>3, <1>6
  <2> QED
    BY <1>3, <1>5, <2>1, ClampedType
<1>8. MonthBounds(a, n) = [start |-> MonthStart(k) + x - 1, end |-> MonthStart(l) + x - 1]
  BY <1>2, <1>5, <1>7, MonthPeriod DEF PeriodStart, PeriodEnd
<1>9. MonthStart(k) + x - 1 <= n /\ n < MonthStart(l) + x - 1
  <2>1. CASE x <= day /\ k = t
    BY <1>3, <1>6, <2>1
  <2>2. CASE day < x /\ k = t - 1
    <3>1. l = t
      BY <1>3, <1>5, <2>2
    <3> QED
      BY <1>3, <1>6, <2>2, <3>1
  <2> QED
    BY <1>4, <2>1, <2>2
<1> QED
  BY <1>8, <1>9 DEF InRange

LEMMA BudgetTypes == BudgetTypeOK /\ [BudgetNext]_budgetVars => BudgetTypeOK'
<1> SUFFICES ASSUME BudgetTypeOK, [BudgetNext]_budgetVars
             PROVE  BudgetTypeOK'
  OBVIOUS
<1> USE DEF BudgetTypeOK
<1>1. ASSUME NEW period \in BudgetPeriods, NEW start \in StartDates,
             NEW c \in {Food, Salary, AllCategories},
             CreateBudget(period, start, c) \/ UpdateBudget(period, start, c)
      PROVE  BudgetTypeOK'
  <2>1. c \in BudgetScopes
    BY <1>1, BudgetAssumption DEF CreateBudget, UpdateBudget, AllowedCategory, CategoryFlow, BudgetScopes
  <2> QED
    BY <1>1, <2>1 DEF CreateBudget, UpdateBudget, Budget
<1>2. CASE DeleteBudget
  BY <1>2 DEF DeleteBudget
<1>3. CASE NextDay
  BY <1>3, BudgetAssumption DEF NextDay
<1>4. CASE UNCHANGED budgetVars
  BY <1>4 DEF budgetVars
<1> QED
  BY <1>1, <1>2, <1>3, <1>4 DEF BudgetNext

LEMMA BudgetsTyped == BudgetSpec => []BudgetTypeOK
<1>1. BudgetInit => BudgetTypeOK
  BY BudgetAssumption DEF BudgetInit, BudgetTypeOK
<1> QED
  BY <1>1, BudgetTypes, PTL DEF BudgetSpec

(* What is spent today is in today's period: a weekly, a yearly, and a       *)
(* monthly budget that starts by the 28th hold the current day, whatever     *)
(* dates they start on (toProgress, budgets.service.ts).                     *)
THEOREM TodayIsInPeriod == BudgetSpec => []TodayInPeriod
<1>1. BudgetTypeOK => TodayInPeriod
  <2> SUFFICES ASSUME BudgetTypeOK, Exists, ~LateStart(budget)
               PROVE  InRange(currentDay, Bounds)
    BY DEF TodayInPeriod
  <2>1. /\ currentDay \in FirstDay..LastDay /\ currentDay \in Int /\ currentDay \in Dates
        /\ budget.period \in BudgetPeriods /\ budget.start \in StartDates /\ budget.start \in Dates
        /\ budget.start \in Int
    <3>1. currentDay \in FirstDay..LastDay /\ currentDay \in Int
      BY BudgetAssumption DEF BudgetTypeOK
    <3>2. currentDay \in Dates
      BY <3>1, ClockDays
    <3>3. budget \in Budget
      BY DEF BudgetTypeOK, Exists
    <3>4. budget.period \in BudgetPeriods /\ budget.start \in StartDates
      BY <3>3 DEF Budget
    <3> QED
      BY <3>1, <3>2, <3>4, BudgetAssumption, CalendarAssumption
  <2>2. CASE budget.period = "WEEKLY"
    BY <2>1, <2>2, TodayInWeek DEF Bounds, PeriodBounds
  <2>3. CASE budget.period = "YEARLY"
    BY <2>1, <2>3, TodayInYear DEF Bounds, PeriodBounds
  <2>4. CASE budget.period = "MONTHLY"
    <3>1. DayOf(budget.start) <= 28
      BY <2>1, <2>4, Standing DEF LateStart
    <3>2. Bounds = MonthBounds(budget.start, currentDay)
      BY <2>4 DEF Bounds, PeriodBounds
    <3> QED
      BY <2>1, <3>1, <3>2, TodayInMonth
  <2> QED
    BY <2>1, <2>2, <2>3, <2>4 DEF BudgetPeriods
<1> QED
  BY <1>1, BudgetsTyped, PTL

LEMMA Tomorrow ==
  ASSUME NEW n \in Dates, NEW o \in Dates, o = n + 1
  PROVE  \/ /\ MonthNumber(o) = MonthNumber(n) /\ DayOf(o) = DayOf(n) + 1
         \/ /\ MonthNumber(o) = MonthNumber(n) + 1 /\ DayOf(o) = 1
            /\ DayOf(n) = MonthLength(MonthNumber(n))
<1>1. PICK t, d, e : t = MonthNumber(n) /\ d = DayOf(n) /\ e = d + 1
  OBVIOUS
<1>2. /\ n \in Int /\ t \in Int /\ d \in Int /\ n = MonthStart(t) + d - 1
      /\ 1 <= d /\ d <= MonthLength(t)
  BY <1>1, Standing
<1>3. PICK u \in Int : u = t + 1
  BY <1>2
<1>4. /\ MonthStart(t) \in Int /\ MonthStart(u) = MonthStart(t) + MonthLength(t)
      /\ MonthLength(t) \in Int
      /\ MonthStart(u) \in Int /\ MonthLength(u) \in Int /\ 28 <= MonthLength(u)
  BY <1>2, <1>3, LengthType
<1>5. CASE d < MonthLength(t)
  <2>1. e \in Int /\ o = MonthStart(t) + e - 1 /\ 1 <= e /\ e <= MonthLength(t)
    BY <1>1, <1>2, <1>4, <1>5
  <2>2. MonthNumber(o) = t /\ DayOf(o) = e
    BY <1>2, <2>1, Stands
  <2> QED
    BY <1>1, <2>2
<1>6. CASE d = MonthLength(t)
  <2>1. o = MonthStart(u) + 1 - 1 /\ 1 <= MonthLength(u)
    BY <1>2, <1>4, <1>6
  <2>2. MonthNumber(o) = u /\ DayOf(o) = 1
    BY <2>1, Stands
  <2> QED
    BY <1>1, <1>3, <1>6, <2>2
<1> QED
  BY <1>2, <1>4, <1>5, <1>6

(* One period of a budget after another.                                     *)
Follow(b, c, late) ==
    c = b \/ (c.start >= b.end /\ (~late => c.start = b.end))

LEMMA WeeksFollow ==
  ASSUME NEW a \in Int, NEW n \in Int, NEW late
  PROVE  Follow(WeekBounds(a, n), WeekBounds(a, n + 1), late)
<1>1. PICK q \in Int, p \in Int : q = (n - a) \div 7 /\ p = (n + 1 - a) \div 7
  OBVIOUS
<1>2. p = q \/ p = q + 1
  BY <1>1
<1>3. /\ WeekBounds(a, n) = [start |-> a + 7 * q, end |-> a + 7 * q + 7]
      /\ WeekBounds(a, n + 1) = [start |-> a + 7 * p, end |-> a + 7 * p + 7]
  BY <1>1 DEF WeekBounds
<1>4. CASE p = q
  BY <1>3, <1>4 DEF Follow
<1>5. CASE p = q + 1
  <2>1. a + 7 * p = a + 7 * q + 7
    BY <1>5
  <2>2. a + 7 * p \in Int /\ a + 7 * q + 7 \in Int
    OBVIOUS
  <2> QED
    BY <1>3, <2>1, <2>2 DEF Follow
<1> QED
  BY <1>2, <1>4, <1>5

LEMMA YearsFollow ==
  ASSUME NEW a \in Dates, NEW n \in Dates, NEW o \in Dates, o = n + 1, NEW late
  PROVE  Follow(YearBounds(a, n), YearBounds(a, o), late)
<1>1. PICK x, d : x = MonthOf(a) /\ d = DayOf(a)
  OBVIOUS
<1>2. PICK day, y, m, t : day = DayOf(n) /\ y = YearOf(n) /\ m = MonthOf(n) /\ t = MonthNumber(n)
  OBVIOUS
<1>3. PICK dayo, yo, mo, to : dayo = DayOf(o) /\ yo = YearOf(o) /\ mo = MonthOf(o) /\ to = MonthNumber(o)
  OBVIOUS
<1>4. /\ x \in 0..11 /\ d \in Int /\ 1 <= d
      /\ day \in Int /\ y \in Int /\ m \in 0..11 /\ t = 12 * y + m
      /\ dayo \in Int /\ yo \in Int /\ mo \in 0..11 /\ to = 12 * yo + mo
  BY <1>1, <1>2, <1>3, DateOfDay, Standing DEF MonthNumber
<1>5. d <= 31
  BY <1>1, DateOfDay
<1>6. \/ to = t /\ dayo = day + 1
      \/ to = t + 1 /\ dayo = 1 /\ day = MonthLength(t)
  BY <1>2, <1>3, Tomorrow
<1>7. PICK k \in Int, l \in Int : k = YearPeriodMonth(a, n) /\ l = YearPeriodMonth(a, o)
  BY YearPeriod
<1>8. \/ (m < x \/ (m = x /\ day < d)) /\ k = 12 * (y - 1) + x
      \/ (x < m \/ (m = x /\ d <= day)) /\ k = 12 * y + x
  BY <1>1, <1>2, <1>4, <1>7, YearMonth
<1>9. \/ (mo < x \/ (mo = x /\ dayo < d)) /\ l = 12 * (yo - 1) + x
      \/ (x < mo \/ (mo = x /\ d <= dayo)) /\ l = 12 * yo + x
  BY <1>1, <1>3, <1>4, <1>7, YearMonth
<1>10. m = 11 /\ to = t + 1 => day = 31
  <2>1. SUFFICES ASSUME m = 11, to = t + 1 PROVE day = 31
    OBVIOUS
  <2>2. day = MonthLength(t)
    BY <1>4, <1>6, <2>1
  <2>3. PICK z \in Int : z = y - 2000
    BY <1>4
  <2>4. t = MonthOfYear(z, 9) /\ 9 \in 0..11
    BY <1>4, <2>1, <2>3 DEF MonthOfYear
  <2>5. MonthStart(t) = YearStart(z) + DaysBefore(9)
    BY <2>4, MonthFromParts
  <2>6. MonthStart(t + 1) = YearStart(z) + DaysBefore(9 + 1)
    BY <2>4, NextMonthStart
  <2>7. DaysBefore(9 + 1) = DaysBefore(9) + 31 /\ DaysBefore(9) \in Int
    BY DEF DaysBefore
  <2>8. YearStart(z) \in Int
    BY YearStep
  <2> QED
    BY <2>2, <2>5, <2>6, <2>7, <2>8 DEF MonthLength
<1>11. l = k \/ l = k + 12
  <2>1. CASE to = t /\ dayo = day + 1
    <3>1. yo = y /\ mo = m
      BY <1>4, <2>1
    <3> QED
      BY <1>4, <1>8, <1>9, <2>1, <3>1
  <2>2. CASE to = t + 1 /\ dayo = 1
    <3>1. (m < 11 /\ yo = y /\ mo = m + 1) \/ (m = 11 /\ yo = y + 1 /\ mo = 0)
      BY <1>4, <2>2
    <3>2. CASE m < 11 /\ yo = y /\ mo = m + 1
      BY <1>4, <1>8, <1>9, <2>2, <3>2
    <3>3. CASE m = 11 /\ yo = y + 1 /\ mo = 0
      <4>1. day = 31
        BY <1>10, <2>2, <3>3
      <4>2. k = 12 * y + x
        BY <1>4, <1>5, <1>8, <3>3, <4>1
      <4> QED
        BY <1>4, <1>9, <3>3, <4>2
    <3> QED
      BY <3>1, <3>2, <3>3
  <2> QED
    BY <1>6, <2>1, <2>2
<1>12. /\ YearBounds(a, n) = [start |-> YearPeriodStart(a, k), end |-> YearPeriodStart(a, k + 12)]
       /\ YearBounds(a, o) = [start |-> YearPeriodStart(a, l), end |-> YearPeriodStart(a, l + 12)]
  BY <1>7, YearPeriod
<1>13. CASE l = k
  BY <1>12, <1>13 DEF Follow
<1>14. CASE l = k + 12
  <2>1. MonthStart(l) \in Int
    BY LengthType
  <2>2. YearPeriodStart(a, l) \in Int
    BY <1>1, <1>4, <2>1 DEF YearPeriodStart
  <2> QED
    BY <1>12, <1>14, <2>2 DEF Follow
<1> QED
  BY <1>11, <1>13, <1>14

LEMMA MonthsFollow ==
  ASSUME NEW a \in StartDates, NEW n \in FirstDay..LastDay, NEW o \in FirstDay..LastDay, o = n + 1
  PROVE  Follow(MonthBounds(a, n), MonthBounds(a, o), DayOf(a) > 28)
<1>1. a \in Dates /\ n \in Dates /\ o \in Dates
  BY BudgetAssumption, ClockDays
<1>2. PICK x, t, day, to, dayo, k, ko :
         /\ x = DayOf(a)
         /\ t = MonthNumber(n) /\ day = DayOf(n) /\ k = PeriodMonth(a, n)
         /\ to = MonthNumber(o) /\ dayo = DayOf(o) /\ ko = PeriodMonth(a, o)
  OBVIOUS
<1>3. /\ x \in Int /\ 1 <= x /\ t \in Int /\ day \in Int /\ 1 <= day /\ day <= MonthLength(t)
      /\ to \in Int /\ dayo \in Int
  BY <1>1, <1>2, Standing
<1>4. \/ to = t /\ dayo = day + 1
      \/ to = t + 1 /\ dayo = 1 /\ day = MonthLength(t)
  BY <1>1, <1>2, Tomorrow
<1>5. /\ (day < x /\ k = t - 1) \/ (x <= day /\ k = t)
      /\ (dayo < x /\ ko = to - 1) \/ (x <= dayo /\ ko = to)
  BY <1>2, <1>3 DEF PeriodMonth
<1>6. MonthLength(t) \in Int /\ 28 <= MonthLength(t) /\ MonthStart(t) \in Int
  BY <1>3, LengthType
<1>7. ko = k \/ ko = k + 1
  <2>1. CASE to = t /\ dayo = day + 1
    BY <1>3, <1>5, <2>1
  <2>2. CASE to = t + 1 /\ dayo = 1
    BY <1>3, <1>5, <2>2
  <2> QED
    BY <1>4, <2>1, <2>2
<1>8. /\ MonthBounds(a, n) = [start |-> PeriodStart(a, k), end |-> PeriodEnd(a, k)]
      /\ MonthBounds(a, o) = [start |-> PeriodStart(a, ko), end |-> PeriodEnd(a, ko)]
  BY <1>2, MonthPeriod
<1>9. CASE ko = k
  BY <1>8, <1>9 DEF Follow
<1>10. CASE ko = k + 1
  <2>1. k \in Int /\ ko \in Int
    BY <1>3, <1>5
  <2>2. PICK c, e, f : c = Clamped(x, k) /\ e = Clamped(c, ko) /\ f = Clamped(x, ko)
    OBVIOUS
  <2>3. /\ c \in Int /\ 1 <= c /\ c <= x /\ (x <= MonthLength(k) => c = x)
        /\ f \in Int /\ 1 <= f /\ f <= x
        /\ (x <= MonthLength(ko) => f = x) /\ (MonthLength(ko) <= x => f = MonthLength(ko))
    BY <1>3, <2>1, <2>2, ClampedType
  <2>4. /\ e \in Int /\ e <= c /\ e <= MonthLength(ko) /\ (c <= MonthLength(ko) => e = c)
    BY <2>1, <2>2, <2>3, ClampedType
  <2>5. /\ MonthLength(k) \in Int /\ 28 <= MonthLength(k)
        /\ MonthLength(ko) \in Int /\ 28 <= MonthLength(ko) /\ MonthStart(ko) \in Int
    BY <2>1, LengthType
  <2>6. e <= f
    BY <1>3, <2>3, <2>4, <2>5
  <2>7. x <= 28 => e = f
    BY <1>3, <2>3, <2>4, <2>5
  <2>8. PeriodEnd(a, k) = MonthStart(ko) + e - 1 /\ PeriodStart(a, ko) = MonthStart(ko) + f - 1
    BY <1>2, <1>10, <2>2 DEF PeriodStart, PeriodEnd
  <2>9. PICK u, v : u = PeriodEnd(a, k) /\ v = PeriodStart(a, ko)
    OBVIOUS
  <2>10. v >= u /\ (x <= 28 => v = u)
    BY <2>3, <2>4, <2>5, <2>6, <2>7, <2>8, <2>9
  <2>11. ~(x > 28) => x <= 28
    BY <1>3
  <2> QED
    BY <1>2, <1>8, <2>9, <2>10, <2>11 DEF Follow
<1> QED
  BY <1>7, <1>9, <1>10

(* As the days pass, the periods of an unchanged budget follow each other    *)
(* without overlap, and without gap unless a monthly one starts after the    *)
(* 28th: nothing is counted in two of them (sumExpenses takes [start, end)). *)
THEOREM PeriodsFollowOn == BudgetSpec => PeriodsFollow
<1>1. BudgetTypeOK /\ BudgetTypeOK' /\ [BudgetNext]_budgetVars =>
         [Exists /\ budget' = budget /\ Bounds' # Bounds =>
             /\ Bounds'.start >= Bounds.end
             /\ ~LateStart(budget) => Bounds'.start = Bounds.end]_budgetVars
  <2> SUFFICES ASSUME BudgetTypeOK, BudgetTypeOK', [BudgetNext]_budgetVars,
                      Exists, budget' = budget, Bounds' # Bounds
               PROVE  /\ Bounds'.start >= Bounds.end
                      /\ ~LateStart(budget) => Bounds'.start = Bounds.end
    OBVIOUS
  <2>1. currentDay' = currentDay + 1
    <3>1. currentDay' # currentDay
      BY DEF Bounds
    <3> QED
      BY <3>1 DEF BudgetNext, CreateBudget, UpdateBudget, DeleteBudget, NextDay, budgetVars
  <2>2. PICK n, o, a, period : /\ n = currentDay /\ o = currentDay'
                               /\ a = budget.start /\ period = budget.period
    OBVIOUS
  <2>3. /\ n \in FirstDay..LastDay /\ o \in FirstDay..LastDay /\ o = n + 1
        /\ period \in BudgetPeriods /\ a \in StartDates
    <3>1. budget \in Budget
      BY DEF BudgetTypeOK, Exists
    <3> QED
      BY <2>1, <2>2, <3>1 DEF BudgetTypeOK, Budget
  <2>4. n \in Int /\ n \in Dates /\ o \in Dates /\ a \in Dates /\ a \in Int
    BY <2>3, BudgetAssumption, CalendarAssumption, ClockDays
  <2>5. Bounds = PeriodBounds(period, a, n) /\ Bounds' = PeriodBounds(period, a, o)
    BY <2>2 DEF Bounds
  <2>6. Follow(Bounds, Bounds', LateStart(budget))
    <3>1. CASE period = "WEEKLY"
      <4>1. Bounds = WeekBounds(a, n) /\ Bounds' = WeekBounds(a, n + 1)
        BY <2>3, <2>5, <3>1 DEF PeriodBounds
      <4> QED
        BY <2>4, <4>1, WeeksFollow
    <3>2. CASE period = "YEARLY"
      <4>1. Bounds = YearBounds(a, n) /\ Bounds' = YearBounds(a, o)
        BY <2>5, <3>2 DEF PeriodBounds
      <4> QED
        BY <2>3, <2>4, <4>1, YearsFollow
    <3>3. CASE period = "MONTHLY"
      <4>1. Bounds = MonthBounds(a, n) /\ Bounds' = MonthBounds(a, o)
        BY <2>5, <3>3 DEF PeriodBounds
      <4>2. LateStart(budget) <=> DayOf(a) > 28
        BY <2>2, <3>3 DEF LateStart
      <4>3. Follow(Bounds, Bounds', DayOf(a) > 28)
        BY <2>3, <4>1, MonthsFollow
      <4> QED
        BY <4>2, <4>3 DEF Follow
    <3> QED
      BY <2>3, <3>1, <3>2, <3>3 DEF BudgetPeriods
  <2> QED
    BY <2>6 DEF Follow
<1> QED
  BY <1>1, BudgetsTyped, PTL DEF BudgetSpec, PeriodsFollow

-----------------------------------------------------------------------------
(* Schedules, for any start dates and intervals.                             *)

(* A year has at most 366 days.                                              *)
LEMMA MonthsReach ==
  ASSUME NEW k \in Int, NEW s \in Nat, NEW c \in {s, 12 * s}
  PROVE  MonthStart(k + c) <= MonthStart(k) + 366 * s
<1>1. PICK z \in Int, m \in 0..11 : k = MonthOfYear(z, m)
  BY MonthParts
<1>2. PICK v \in Int, l \in Int, j \in Int : v = z + s /\ l = k + 12 * s /\ j = k + c
  OBVIOUS
<1>3. l = MonthOfYear(v, m)
  BY <1>1, <1>2 DEF MonthOfYear
<1>4. /\ MonthStart(k) = YearStart(z) + DaysBefore(m)
      /\ MonthStart(l) = YearStart(v) + DaysBefore(m)
  BY <1>1, <1>3, MonthFromParts
<1>5. /\ YearStart(z) \in Int /\ YearStart(v) \in Int
      /\ DaysBefore(m) \in Int
  BY YearStep, MonthDays
<1>6. YearStart(v) <= YearStart(z) + 366 * s
  BY <1>2 DEF YearStart
<1>7. MonthStart(l) <= MonthStart(k) + 366 * s
  BY <1>4, <1>5, <1>6
<1>8. j <= l
  BY <1>2
<1>9. MonthStart(j) <= MonthStart(l)
  BY <1>8, MonthsGrow
<1>10. MonthStart(j) \in Int /\ MonthStart(k) \in Int /\ MonthStart(l) \in Int
  BY LengthType
<1> QED
  BY <1>2, <1>7, <1>9, <1>10

MonthsOf(frequency, steps) == IF frequency = "YEARLY" THEN 12 * steps ELSE steps
ByMonths(frequency) == frequency \in {"MONTHLY", "YEARLY"}

(* The table holds a day and the rest of its month.                          *)
InTable(n) == n \in Dates /\ \A e \in n..(n + 31) : e \in Dates

LEMMA DateAdvances ==
  ASSUME NEW n \in Dates, NEW start \in FirstRuns, start \in Int, start <= n, n <= LastRun,
         NEW i \in Intervals, NEW f \in Frequencies
  PROVE  /\ start <= Advance(n, f, i) /\ InTable(Advance(n, f, i))
         /\ f = "DAILY" => Advance(n, f, i) = n + Steps(i)
         /\ f = "WEEKLY" => Advance(n, f, i) = n + 7 * Steps(i)
         /\ ByMonths(f) =>
               /\ MonthNumber(Advance(n, f, i)) = MonthNumber(n) + MonthsOf(f, Steps(i))
               /\ DayOf(Advance(n, f, i)) = Clamped(DayOf(n), MonthNumber(n) + MonthsOf(f, Steps(i)))
<1>1. PICK s : s = Steps(i)
  OBVIOUS
<1>2. s \in Nat /\ 1 <= s /\ n \in Int /\ LastRun \in Int
  BY <1>1, ScheduleAssumption, CalendarAssumption DEF Steps
<1>3. \A e \in Int : start <= e /\ e <= LastRun + 366 * s + 62 => e \in Dates
  BY <1>1, <1>2, ScheduleAssumption
<1>4. ASSUME NEW o \in Int, n <= o, o <= n + 366 * s + 31
      PROVE  start <= o /\ InTable(o)
  <2>1. \A e \in o..(o + 31) : e \in Int /\ start <= e /\ e <= LastRun + 366 * s + 62
    BY <1>2, <1>4
  <2>2. o \in o..(o + 31)
    BY <1>4
  <2> QED
    BY <1>2, <1>3, <1>4, <2>1, <2>2 DEF InTable
<1>5. CASE f = "DAILY"
  <2>1. Advance(n, f, i) = n + s
    BY <1>1, <1>5 DEF Advance
  <2>2. n + s \in Int /\ n <= n + s /\ n + s <= n + 366 * s + 31
    BY <1>2
  <2>3. start <= n + s /\ InTable(n + s)
    BY <1>4, <2>2
  <2> QED
    BY <1>1, <1>5, <2>1, <2>3 DEF ByMonths
<1>6. CASE f = "WEEKLY"
  <2>1. Advance(n, f, i) = n + 7 * s
    BY <1>1, <1>6 DEF Advance
  <2>2. n + 7 * s \in Int /\ n <= n + 7 * s /\ n + 7 * s <= n + 366 * s + 31
    BY <1>2
  <2>3. start <= n + 7 * s /\ InTable(n + 7 * s)
    BY <1>4, <2>2
  <2> QED
    BY <1>1, <1>6, <2>1, <2>3 DEF ByMonths
<1>7. CASE ByMonths(f)
  <2>1. PICK c : c = MonthsOf(f, s)
    OBVIOUS
  <2>2. c \in {s, 12 * s} /\ c \in Int /\ 1 <= c
    BY <1>2, <2>1 DEF MonthsOf
  <2>3. PICK k \in Int, d \in Int, l \in Int : k = MonthNumber(n) /\ d = DayOf(n) /\ l = k + c
    BY <2>2, Standing
  <2>4. /\ n = MonthStart(k) + d - 1 /\ 1 <= d /\ d <= MonthLength(k)
        /\ MonthStart(k) \in Int /\ MonthStart(k + 1) = MonthStart(k) + MonthLength(k)
        /\ MonthLength(k) \in Int
    BY <2>3, Standing, LengthType
  <2>5. /\ MonthStart(l) \in Int /\ MonthStart(l + 1) = MonthStart(l) + MonthLength(l)
        /\ MonthLength(l) \in Int /\ 28 <= MonthLength(l) /\ MonthLength(l) <= 31
    BY LengthType
  <2>6. MonthStart(l) <= MonthStart(k) + 366 * s
    BY <1>2, <2>2, <2>3, MonthsReach
  <2>7. MonthStart(k + 1) <= MonthStart(l)
    <3>1. PICK j \in Int : j = k + 1
      OBVIOUS
    <3>2. j <= l
      BY <2>2, <2>3, <3>1
    <3> QED
      BY <3>1, <3>2, MonthsGrow
  <2>8. n < MonthStart(l) /\ MonthStart(l) <= n + 366 * s
    BY <1>2, <2>4, <2>5, <2>6, <2>7
  <2>9. MonthStart(l + 1) - 1 \in Dates
    <3>1. PICK e : e = MonthStart(l + 1) - 1
      OBVIOUS
    <3>2. e \in Int /\ start <= e /\ e <= LastRun + 366 * s + 62
      BY <1>2, <2>5, <2>8, <3>1
    <3> QED
      BY <1>3, <3>1, <3>2
  <2>10. PICK x, o : x = Clamped(d, l) /\ o = MonthStart(l) + x - 1
    OBVIOUS
  <2>11. x \in Int /\ 1 <= x /\ x <= MonthLength(l)
    BY <2>4, <2>10, ClampedType
  <2>12. o \in Int /\ n <= o /\ o <= n + 366 * s + 31
    BY <1>2, <2>5, <2>8, <2>10, <2>11
  <2>13. start <= o /\ InTable(o)
    BY <1>4, <2>12
  <2>14. MonthNumber(o) = l /\ DayOf(o) = x
    BY <2>10, <2>11, <2>13, Stands DEF InTable
  <2>15. AddMonths(n, c) = o
    <3>1. MonthStart(MonthNumber(n) + c + 1) - 1 \in Dates
      BY <2>3, <2>9
    <3> QED
      BY <2>2, <2>3, <2>10, <3>1, MonthsAdded
  <2>16. Advance(n, f, i) = AddMonths(n, c)
    <3>1. CASE f = "YEARLY"
      BY <1>1, <2>1, <3>1 DEF Advance, MonthsOf
    <3>2. CASE f = "MONTHLY"
      BY <1>1, <2>1, <3>2 DEF Advance, MonthsOf
    <3> QED
      BY <1>7, <3>1, <3>2 DEF ByMonths
  <2> QED
    BY <1>1, <1>7, <2>1, <2>3, <2>10, <2>13, <2>14, <2>15, <2>16 DEF ByMonths
<1> QED
  BY <1>5, <1>6, <1>7 DEF Frequencies, ByMonths

(* A schedule is as many of its steps past the date it started from as it    *)
(* has had occurrences; by months, on a day that only short months have      *)
(* brought forward, and never before the 28th.                               *)
StepsTaken(w) == w.runs * Steps(w.interval)
Steady(w) ==
    /\ w.frequency \in Frequencies /\ w.interval \in Intervals /\ w.runs \in Nat
    /\ InTable(w.next) /\ w.since \in Dates
    /\ \E start \in FirstRuns : start \in Int /\ start <= w.next
    /\ w.runs = 0 => w.next = w.since
    /\ w.frequency = "DAILY" => w.next = w.since + StepsTaken(w)
    /\ w.frequency = "WEEKLY" => w.next = w.since + 7 * StepsTaken(w)
    /\ ByMonths(w.frequency) =>
          /\ MonthNumber(w.next) = MonthNumber(w.since) + MonthsOf(w.frequency, StepsTaken(w))
          /\ DayOf(w.next) <= DayOf(w.since)
          /\ DayOf(w.since) <= 28 => DayOf(w.next) = DayOf(w.since)
          /\ DayOf(w.since) > 28 => DayOf(w.next) >= 28
ScheduleType ==
    [next : Int, frequency : Frequencies, interval : Intervals, since : Int, runs : Nat]
ScheduleInv == Scheduled => schedule \in ScheduleType /\ Steady(schedule)

LEMMA RhythmSteady ==
  ASSUME NEW n, InTable(n), NEW f \in Frequencies, NEW i \in Intervals,
         NEW start \in FirstRuns, start \in Int, start <= n
  PROVE  Steady(Rhythm(n, f, i))
<1>1. PICK w : w = Rhythm(n, f, i)
  OBVIOUS
<1>2. /\ w.frequency = f /\ w.interval = i /\ w.runs = 0 /\ w.next = n /\ w.since = n
  BY <1>1 DEF Rhythm
<1>3. Steps(i) \in Nat
  BY ScheduleAssumption DEF Steps
<1>4. StepsTaken(w) = 0
  BY <1>2, <1>3 DEF StepsTaken
<1>5. n \in Int /\ MonthNumber(n) \in Int /\ DayOf(n) \in Int /\ n \in Dates
  BY Standing DEF InTable
<1>6. MonthsOf(f, 0) = 0
  BY DEF MonthsOf
<1>7. /\ n = n + 0 /\ n = n + 7 * 0 /\ MonthNumber(n) = MonthNumber(n) + 0
      /\ DayOf(n) > 28 => DayOf(n) >= 28
      /\ DayOf(n) <= DayOf(n)
  BY <1>5
<1> QED
  BY <1>1, <1>2, <1>4, <1>5, <1>6, <1>7 DEF Steady

LEMMA AdvanceSteady ==
  ASSUME NEW w, Steady(w), w.next <= LastRun, NEW v,
         v.frequency = w.frequency, v.interval = w.interval, v.since = w.since,
         v.runs = w.runs + 1, v.next = Advance(w.next, w.frequency, w.interval)
  PROVE  Steady(v)
<1>1. PICK n, f, i, r, s : /\ n = w.next /\ f = w.frequency /\ i = w.interval
                          /\ r = w.runs /\ s = Steps(w.interval)
  OBVIOUS
<1>0. PICK start \in FirstRuns : start \in Int /\ start <= n
  BY <1>1 DEF Steady
<1>2. /\ f \in Frequencies /\ i \in Intervals /\ r \in Nat /\ n \in Dates /\ n <= LastRun
      /\ w.since \in Dates
  BY <1>1 DEF Steady, InTable
<1>3. s \in Nat /\ 1 <= s
  BY <1>1, <1>2, ScheduleAssumption DEF Steps
<1>4. StepsTaken(v) = (r + 1) * s /\ StepsTaken(w) = r * s
  BY <1>1 DEF StepsTaken
<1>5. PICK a, b : a = StepsTaken(w) /\ b = StepsTaken(v)
  OBVIOUS
<1>6. a \in Nat /\ b = a + s
  BY <1>2, <1>3, <1>4, <1>5
<1>7. PICK o : o = Advance(n, f, i)
  OBVIOUS
<1>8. /\ start <= o /\ InTable(o)
      /\ f = "DAILY" => o = n + s
      /\ f = "WEEKLY" => o = n + 7 * s
      /\ ByMonths(f) =>
               /\ MonthNumber(o) = MonthNumber(n) + MonthsOf(f, s)
               /\ DayOf(o) = Clamped(DayOf(n), MonthNumber(n) + MonthsOf(f, s))
  BY <1>0, <1>1, <1>2, <1>7, DateAdvances
<1>9. /\ v.frequency = f /\ v.interval = i /\ v.since = w.since /\ v.runs = r + 1 /\ v.next = o
      /\ r + 1 \in Nat /\ r + 1 # 0
  BY <1>1, <1>2, <1>7
<1>10. w.since \in Int /\ n \in Int
  BY <1>2, CalendarAssumption
<1>11. f = "DAILY" => o = w.since + b
  BY <1>1, <1>3, <1>5, <1>6, <1>8, <1>10 DEF Steady
<1>12. f = "WEEKLY" => o = w.since + 7 * b
  BY <1>1, <1>3, <1>5, <1>6, <1>8, <1>10 DEF Steady
<1>13. ASSUME ByMonths(f)
       PROVE  /\ MonthNumber(o) = MonthNumber(w.since) + MonthsOf(f, b)
              /\ DayOf(o) <= DayOf(w.since)
              /\ DayOf(w.since) <= 28 => DayOf(o) = DayOf(w.since)
              /\ DayOf(w.since) > 28 => DayOf(o) >= 28
  <2>1. PICK c, k, l, x, d, e : /\ c = MonthsOf(f, s) /\ k = MonthNumber(n) /\ l = k + c
                                /\ x = DayOf(w.since) /\ d = DayOf(n) /\ e = DayOf(o)
    OBVIOUS
  <2>2. /\ k \in Int /\ d \in Int /\ 1 <= d /\ x \in Int /\ 1 <= x /\ MonthNumber(w.since) \in Int
    BY <1>2, <2>1, Standing
  <2>3. /\ k = MonthNumber(w.since) + MonthsOf(f, a)
        /\ d <= x /\ (x <= 28 => d = x) /\ (x > 28 => d >= 28)
    BY <1>1, <1>5, <1>13, <2>1 DEF Steady
  <2>4. MonthNumber(o) = l /\ e = Clamped(d, l)
    BY <1>8, <1>13, <2>1
  <2>5. c \in Int /\ l \in Int
    BY <1>3, <2>1, <2>2 DEF MonthsOf
  <2>6. /\ e \in Int /\ e <= d /\ (d <= MonthLength(l) => e = d) /\ (MonthLength(l) <= d => e = MonthLength(l))
        /\ MonthLength(l) \in Int /\ 28 <= MonthLength(l)
    BY <2>2, <2>4, <2>5, ClampedType, LengthType
  <2>7. l = MonthNumber(w.since) + MonthsOf(f, b)
    <3>1. MonthsOf(f, b) = MonthsOf(f, a) + c /\ MonthsOf(f, a) \in Int
      BY <1>3, <1>6, <2>1 DEF MonthsOf
    <3> QED
      BY <2>1, <2>2, <2>3, <2>5, <3>1
  <2>8. e <= x /\ (x <= 28 => e = x) /\ (x > 28 => e >= 28)
    BY <2>2, <2>3, <2>6
  <2> QED
    BY <2>1, <2>4, <2>7, <2>8
<1> QED
  BY <1>0, <1>1, <1>2, <1>5, <1>8, <1>9, <1>11, <1>12, <1>13 DEF Steady

LEMMA ScheduleStays == ScheduleInv /\ [ScheduleNext]_schedule => ScheduleInv'
<1> SUFFICES ASSUME ScheduleInv, [ScheduleNext]_schedule
             PROVE  ScheduleInv'
  OBVIOUS
<1>1. ASSUME NEW start \in FirstRuns, NEW f \in Frequencies, NEW i \in Intervals,
             CreateSchedule(start, f, i)
      PROVE  ScheduleInv'
  <2>1. start \in Int /\ start <= start /\ InTable(start)
    <3>1. start..(start + 31) \subseteq Dates
      BY ScheduleAssumption
    <3>2. FirstRuns \subseteq Dates
      BY ScheduleAssumption
    <3>3. start \in Int
      BY <3>2, CalendarAssumption
    <3> QED
      BY <3>1, <3>2, <3>3 DEF InTable
  <2>2. Steady(Rhythm(start, f, i))
    BY <2>1, RhythmSteady
  <2>3. Rhythm(start, f, i) \in ScheduleType
    BY <2>1 DEF Rhythm, ScheduleType
  <2> QED
    BY <1>1, <2>2, <2>3 DEF CreateSchedule, ScheduleInv
<1>2. ASSUME NEW f \in Frequencies, NEW i \in Intervals, ResetRhythm(f, i)
      PROVE  ScheduleInv'
  <2>1. Steady(schedule)
    BY <1>2 DEF ScheduleInv, ResetRhythm
  <2>2. PICK start \in FirstRuns : start \in Int /\ start <= schedule.next
    BY <2>1 DEF Steady
  <2>3. Steady(Rhythm(schedule.next, f, i))
    BY <2>1, <2>2, RhythmSteady DEF Steady
  <2>4. Rhythm(schedule.next, f, i) \in ScheduleType
    BY <1>2 DEF Rhythm, ScheduleType, ScheduleInv, ResetRhythm
  <2> QED
    BY <1>2, <2>3, <2>4 DEF ResetRhythm, ScheduleInv
<1>3. CASE AdvanceDate
  <2>1. schedule \in ScheduleType /\ Steady(schedule) /\ schedule.next <= LastRun
    BY <1>3 DEF ScheduleInv, AdvanceDate
  <2>2. /\ schedule'.frequency = schedule.frequency /\ schedule'.interval = schedule.interval
        /\ schedule'.since = schedule.since /\ schedule'.runs = schedule.runs + 1
        /\ schedule'.next = Advance(schedule.next, schedule.frequency, schedule.interval)
    BY <1>3, <2>1 DEF AdvanceDate, ScheduleType
  <2>3. Steady(schedule')
    BY <2>1, <2>2, AdvanceSteady
  <2>4. schedule' \in ScheduleType
    <3>1. PICK o : o = Advance(schedule.next, schedule.frequency, schedule.interval)
      OBVIOUS
    <3>2. o \in Int
      BY <2>2, <2>3, <3>1, CalendarAssumption DEF Steady, InTable
    <3>3. schedule' = [schedule EXCEPT !.next = o, !.runs = schedule.runs + 1]
      BY <1>3, <3>1 DEF AdvanceDate
    <3>4. PICK r \in Nat : r = schedule.runs + 1
      BY <2>1 DEF ScheduleType
    <3>5. [schedule EXCEPT !.next = o, !.runs = r] \in ScheduleType
      BY <2>1, <3>2 DEF ScheduleType
    <3> QED
      BY <3>3, <3>4, <3>5
  <2> QED
    BY <2>3, <2>4 DEF ScheduleInv
<1>4. CASE UNCHANGED schedule
  BY <1>4 DEF ScheduleInv, Scheduled
<1> QED
  BY <1>1, <1>2, <1>3, <1>4 DEF ScheduleNext

(* The run date is the due date but for what short months have taken off.    *)
LEMMA SteadyInStep ==
  ASSUME ScheduleInv
  PROVE  OccurrencesStayInStep
<1> SUFFICES ASSUME Scheduled
             PROVE  /\ MonthDiff(DueDate, schedule.next) = 0
                    /\ DayOf(schedule.since) <= 28 => schedule.next = DueDate
                    /\ schedule.next \in (DueDate - 3)..DueDate
  BY DEF OccurrencesStayInStep
<1>1. Steady(schedule)
  BY DEF ScheduleInv
<1>2. PICK n, o, f, s, x, d, k, b :
         /\ n = schedule.next /\ o = schedule.since /\ f = schedule.frequency
         /\ s = StepsTaken(schedule) /\ x = DayOf(schedule.since) /\ d = DayOf(schedule.next)
         /\ k = MonthNumber(schedule.next) /\ b = DueDate
  OBVIOUS
<1>3. /\ n \in Dates /\ \A e \in n..(n + 31) : e \in Dates
      /\ o \in Dates /\ n \in Int /\ o \in Int
  BY <1>1, <1>2, CalendarAssumption DEF Steady, InTable
<1>4. /\ k \in Int /\ d \in Int /\ 1 <= d /\ d <= MonthLength(k) /\ n = MonthStart(k) + d - 1
      /\ x \in Int /\ 1 <= x
  BY <1>2, <1>3, Standing
<1>5. s \in Nat
  <2>1. Steps(schedule.interval) \in Nat
    BY <1>1, ScheduleAssumption DEF Steady, Steps
  <2> QED
    BY <1>1, <1>2, <2>1 DEF Steady, StepsTaken
<1>6. MonthDiff(n, n) = 0 /\ n \in (n - 3)..n
  BY <1>3, <1>4, <1>2, MonthsBetween
<1>7. CASE b = n
  BY <1>2, <1>6, <1>7
<1>8. CASE s = 0
  <2>1. o = n
    <3>1. PICK r, q : r = schedule.runs /\ q = Steps(schedule.interval)
      OBVIOUS
    <3>2. r \in Nat /\ q \in Nat /\ 1 <= q
      <4>1. r \in Nat /\ schedule.interval \in Nat
        BY <1>1, <3>1, ScheduleAssumption DEF Steady
      <4> QED
        BY <3>1, <4>1 DEF Steps
    <3>3. r * q = 0
      BY <1>2, <1>8, <3>1 DEF StepsTaken
    <3>4. r = 0
      BY <3>2, <3>3
    <3> QED
      BY <1>1, <1>2, <3>1, <3>4 DEF Steady
  <2>2. b = o
    BY <1>2, <1>8 DEF DueDate, StepsTaken
  <2> QED
    BY <1>7, <2>1, <2>2
<1>9. CASE s # 0
  <2>1. Steps(s) = s
    BY <1>5, <1>9 DEF Steps
  <2>2. b = Advance(o, f, s)
    BY <1>2, <1>9 DEF DueDate, StepsTaken
  <2>3. CASE f = "DAILY"
    BY <1>1, <1>2, <1>7, <2>1, <2>2, <2>3 DEF Advance, Steady
  <2>4. CASE f = "WEEKLY"
    BY <1>1, <1>2, <1>7, <2>1, <2>2, <2>4 DEF Advance, Steady
  <2>5. CASE ByMonths(f)
    <3>1. PICK c, l : c = MonthsOf(f, s) /\ l = MonthNumber(o)
      OBVIOUS
    <3>2. c \in Int /\ l \in Int
      BY <1>3, <1>5, <3>1, Standing DEF MonthsOf
    <3>3. /\ k = l + c /\ d <= x
          /\ x <= 28 => d = x
          /\ x > 28 => d >= 28
      BY <1>1, <1>2, <2>5, <3>1 DEF Steady
    <3>4. /\ MonthStart(k) \in Int /\ MonthStart(k + 1) = MonthStart(k) + MonthLength(k)
          /\ MonthLength(k) \in Int /\ 28 <= MonthLength(k) /\ MonthLength(k) <= 31
      BY <1>4, LengthType
    <3>5. MonthStart(l + c + 1) - 1 \in Dates
      <4>1. PICK e : e = MonthStart(k + 1) - 1
        OBVIOUS
      <4>2. e \in n..(n + 31)
        BY <1>3, <1>4, <3>4, <4>1
      <4> QED
        BY <1>3, <3>3, <4>1, <4>2
    <3>6. AddMonths(o, c) = MonthStart(l + c) + Clamped(x, l + c) - 1
      BY <1>2, <1>3, <3>1, <3>2, <3>5, MonthsAdded
    <3>7. PICK y : y = Clamped(x, k)
      OBVIOUS
    <3>8. /\ y \in Int /\ 1 <= y /\ y <= x /\ y <= MonthLength(k)
          /\ x <= MonthLength(k) => y = x
          /\ MonthLength(k) <= x => y = MonthLength(k)
      BY <1>4, <3>7, ClampedType
    <3>9. b = AddMonths(o, c)
      <4>1. CASE f = "YEARLY"
        BY <2>1, <2>2, <3>1, <4>1 DEF Advance, MonthsOf
      <4>2. CASE f = "MONTHLY"
        BY <2>1, <2>2, <3>1, <4>2 DEF Advance, MonthsOf
      <4> QED
        BY <2>5, <4>1, <4>2 DEF ByMonths
    <3>10. b = MonthStart(k) + y - 1
      BY <3>3, <3>6, <3>7, <3>9
    <3>11. b \in Dates
      <4>1. d <= y
        BY <1>4, <3>3, <3>4, <3>8
      <4>2. b \in n..(n + 31)
        BY <1>3, <1>4, <3>4, <3>8, <3>10, <4>1
      <4> QED
        BY <1>3, <4>2
    <3>12. MonthNumber(b) = k
      BY <1>4, <3>8, <3>10, <3>11, Stands
    <3>13. MonthDiff(b, n) = 0
      BY <1>2, <1>3, <1>4, <3>11, <3>12, MonthsBetween
    <3>14. x <= 28 => n = b
      BY <1>4, <3>3, <3>4, <3>8, <3>10
    <3>15. n \in (b - 3)..b
      BY <1>3, <1>4, <3>3, <3>4, <3>8, <3>10
    <3> QED
      BY <1>2, <3>13, <3>14, <3>15
  <2> QED
    BY <1>1, <1>2, <2>3, <2>4, <2>5 DEF Steady, Frequencies, ByMonths
<1> QED
  BY <1>8, <1>9

(* A schedule that is advanced occurrence by occurrence stays with its       *)
(* rhythm, for any start dates, intervals and edits of them: every run date  *)
(* is in the month that its occurrence is due in, on the due day if every    *)
(* month has that day, and otherwise at most three days before it.           *)
THEOREM SchedulesKeepStep == ScheduleSpec => []OccurrencesStayInStep
<1>1. ScheduleInit => ScheduleInv
  BY DEF ScheduleInit, ScheduleInv, Scheduled
<1>2. ScheduleInv => OccurrencesStayInStep
  BY SteadyInStep
<1> QED
  BY <1>1, <1>2, ScheduleStays, PTL DEF ScheduleSpec

-----------------------------------------------------------------------------
(* Sums over finite sets.                                                    *)

(* A set of natural numbers has a least one, and so what the smaller parts   *)
(* of a finite set have in common, it has.                                   *)
Below == {ss \in Nat \X Nat : ss[1] < ss[2]}
LEMMA LeastOne ==
  ASSUME NEW T \in SUBSET Nat, T # {}
  PROVE  \E x \in T : \A y \in T : ~(y < x)
<1>1. IsWellFoundedOn(Below, Nat)
  BY NatLessThanWellFounded DEF OpToRel, Below
<1>2. \E x \in T : \A y \in T : ~(<<y, x>> \in Below)
  BY <1>1, WFMin, Zenon
<1>3. \A x \in T, y \in T : y < x => <<y, x>> \in Below
  BY DEF Below
<1> QED
  BY <1>2, <1>3

LEMMA FromParts ==
  ASSUME NEW S, IsFiniteSet(S), NEW P,
         \A T \in SUBSET S : (\A x \in T : T \ {x} \in P) => T \in P
  PROVE  \A T \in SUBSET S : T \in P
<1> SUFFICES ASSUME NEW U \in SUBSET S, U \notin P
             PROVE  FALSE
  OBVIOUS
<1> DEFINE sizes == {k \in Nat : \E T \in SUBSET S : T \notin P /\ Cardinality(T) = k}
<1>1. \A T \in SUBSET S : IsFiniteSet(T) /\ Cardinality(T) \in Nat
  BY FS_Subset, FS_CardinalityType
<1>2. Cardinality(U) \in sizes
  BY <1>1
<1>3. PICK k \in sizes : \A j \in sizes : ~(j < k)
  <2> HIDE DEF sizes
  <2>1. sizes \in SUBSET Nat /\ sizes # {}
    BY <1>2 DEF sizes
  <2> QED
    BY <2>1, LeastOne
<1>4. PICK T \in SUBSET S : T \notin P /\ Cardinality(T) = k
  OBVIOUS
<1>5. PICK x \in T : T \ {x} \notin P
  BY <1>4
<1>6. Cardinality(T \ {x}) = k - 1 /\ T \ {x} \in SUBSET S /\ k \in Nat
  BY <1>1, <1>4, FS_RemoveElement
<1>7. k - 1 \in sizes
  BY <1>1, <1>5, <1>6
<1> QED
  BY <1>3, <1>6, <1>7

Part(T) == CHOOSE x \in T : TRUE
(* The sums of the parts of S with at most k elements.                       *)
SmallParts(S, k) == {T \in SUBSET S : Cardinality(T) <= k}
AddsUp(g, f, parts) ==
    g = [T \in parts |-> IF T = {} THEN 0 ELSE f[Part(T)] + g[T \ {Part(T)}]]

(* Every size of part has its sums, and so SumFunctionOnSet, whose definition*)
(* chooses such a table, is what the table says.                             *)
LEMMA SmallSums ==
  ASSUME NEW S, IsFiniteSet(S), NEW f, NEW n \in Nat
  PROVE  \E g : AddsUp(g, f, SmallParts(S, n))
<1> DEFINE bad == {k \in Nat : ~ \E g : AddsUp(g, f, SmallParts(S, k))}
<1> SUFFICES ASSUME bad # {}
             PROVE  FALSE
  OBVIOUS
<1>1. PICK k \in bad : \A j \in bad : ~(j < k)
  <2>1. bad \in SUBSET Nat
    OBVIOUS
  <2> HIDE DEF bad
  <2> QED
    BY <2>1, LeastOne
<1>2. \A T \in SUBSET S : IsFiniteSet(T) /\ Cardinality(T) \in Nat /\ (Cardinality(T) = 0 <=> T = {})
  BY FS_Subset, FS_CardinalityType, FS_EmptySet
<1>3. CASE k = 0
  <2> DEFINE g == [T \in SmallParts(S, k) |-> 0]
  <2>1. \A T \in SmallParts(S, k) : T = {}
    BY <1>2, <1>3 DEF SmallParts
  <2>2. AddsUp(g, f, SmallParts(S, k))
    BY <2>1 DEF AddsUp
  <2> QED
    BY <2>2
<1>4. CASE k # 0
  <2>1. PICK j \in Nat : j = k - 1
    BY <1>4
  <2>2. PICK h : AddsUp(h, f, SmallParts(S, j))
    BY <1>1, <2>1
  <2> DEFINE g == [T \in SmallParts(S, k) |-> IF T = {} THEN 0 ELSE f[Part(T)] + h[T \ {Part(T)}]]
  <2>3. ASSUME NEW T \in SmallParts(S, k), T # {}
        PROVE  T \ {Part(T)} \in SmallParts(S, j) /\ T \ {Part(T)} \in SmallParts(S, k)
    <3>1. Part(T) \in T
      BY <2>3 DEF Part
    <3>2. IsFiniteSet(T) /\ T \in SUBSET S /\ Cardinality(T) <= k /\ Cardinality(T) \in Nat
      BY <1>2 DEF SmallParts
    <3>3. Cardinality(T \ {Part(T)}) = Cardinality(T) - 1
      BY <3>1, <3>2, FS_RemoveElement
    <3> QED
      BY <2>1, <3>2, <3>3 DEF SmallParts
  <2>4. ASSUME NEW T \in SmallParts(S, j)
        PROVE  g[T] = h[T]
    <3>1. T \in SmallParts(S, k)
      BY <1>2, <2>1 DEF SmallParts
    <3> QED
      BY <2>2, <3>1 DEF AddsUp
  <2>5. AddsUp(g, f, SmallParts(S, k))
    <3>1. \A T \in SmallParts(S, k) : T # {} => g[T \ {Part(T)}] = h[T \ {Part(T)}]
      BY <2>3, <2>4
    <3> QED
      BY <3>1 DEF AddsUp
  <2> QED
    BY <2>5
<1> QED
  BY <1>3, <1>4

LEMMA AllSums ==
  ASSUME NEW S, IsFiniteSet(S), NEW f
  PROVE  \E g : AddsUp(g, f, SUBSET S)
<1>1. PICK n \in Nat : n = Cardinality(S)
  BY FS_CardinalityType
<1>2. SmallParts(S, n) = SUBSET S
  BY <1>1, FS_Subset DEF SmallParts
<1>3. \E g : AddsUp(g, f, SmallParts(S, n))
  BY SmallSums
<1> QED
  BY <1>2, <1>3

LEMMA SumOfParts ==
  ASSUME NEW S, IsFiniteSet(S), NEW f
  PROVE  \E g : AddsUp(g, f, SUBSET S) /\ SumFunctionOnSet(f, S) = g[S]
<1> DEFINE g == CHOOSE g : AddsUp(g, f, SUBSET S)
<1>1. AddsUp(g, f, SUBSET S)
  BY AllSums
<1>2. SumFunctionOnSet(f, S) = g[S]
  BY DEF SumFunctionOnSet, FoldFunctionOnSet, MapThenFoldSet, AddsUp, Part
<1> QED
  BY <1>1, <1>2

(* The sum over a set is that of the element that it chooses and the rest.   *)
LEMMA SumTaken ==
  ASSUME NEW S, IsFiniteSet(S), NEW f, S # {}
  PROVE  SumFunctionOnSet(f, S) = f[Part(S)] + SumFunctionOnSet(f, S \ {Part(S)})
<1>1. PICK g : AddsUp(g, f, SUBSET S) /\ SumFunctionOnSet(f, S) = g[S]
  BY SumOfParts
<1> DEFINE R == S \ {Part(S)}
<1>2. IsFiniteSet(R) /\ R \in SUBSET S
  BY FS_Subset
<1>3. PICK h : AddsUp(h, f, SUBSET R) /\ SumFunctionOnSet(f, R) = h[R]
  BY <1>2, SumOfParts
<1> HIDE DEF R
<1>4. \A T \in SUBSET R : T \in {U \in SUBSET R : g[U] = h[U]}
  <2> DEFINE P == {U \in SUBSET R : g[U] = h[U]}
  <2>1. ASSUME NEW T \in SUBSET R, \A x \in T : T \ {x} \in P
        PROVE  T \in P
    <3>1. CASE T = {}
      BY <1>1, <1>2, <1>3, <3>1 DEF AddsUp
    <3>2. CASE T # {}
      <4>1. Part(T) \in T
        BY <3>2 DEF Part
      <4>2. g[T \ {Part(T)}] = h[T \ {Part(T)}]
        BY <2>1, <4>1
      <4>3. g[T] = f[Part(T)] + g[T \ {Part(T)}] /\ h[T] = f[Part(T)] + h[T \ {Part(T)}]
        BY <1>1, <1>2, <1>3, <3>2 DEF AddsUp
      <4> QED
        BY <4>2, <4>3
    <3> QED
      BY <3>1, <3>2
  <2> HIDE DEF P
  <2>2. \A T \in SUBSET R : T \in P
    BY <1>2, <2>1, FromParts
  <2> QED
    BY <2>2 DEF P
<1>5. g[R] = h[R]
  BY <1>4
<1>6. g[S] = f[Part(S)] + g[S \ {Part(S)}]
  BY <1>1 DEF AddsUp
<1> QED
  BY <1>1, <1>3, <1>5, <1>6 DEF R

LEMMA SumOfNone ==
  ASSUME NEW f
  PROVE  SumFunctionOnSet(f, {}) = 0
<1>1. IsFiniteSet({})
  BY FS_EmptySet
<1>2. PICK g : AddsUp(g, f, SUBSET {}) /\ SumFunctionOnSet(f, {}) = g[{}]
  BY <1>1, SumOfParts
<1> QED
  BY <1>2 DEF AddsUp

IntsOn(f, S) == \A x \in S : f[x] \in Int

LEMMA SumType ==
  ASSUME NEW S, IsFiniteSet(S), NEW f, IntsOn(f, S)
  PROVE  SumFunctionOnSet(f, S) \in Int
<1> DEFINE P == {T \in SUBSET S : SumFunctionOnSet(f, T) \in Int}
<1>1. ASSUME NEW T \in SUBSET S, \A x \in T : T \ {x} \in P
      PROVE  T \in P
  <2>1. CASE T = {}
    BY <2>1, SumOfNone
  <2>2. CASE T # {}
    <3>1. Part(T) \in T /\ f[Part(T)] \in Int
      BY <2>2 DEF Part, IntsOn
    <3>2. SumFunctionOnSet(f, T) = f[Part(T)] + SumFunctionOnSet(f, T \ {Part(T)})
      BY <2>2, SumTaken, FS_Subset
    <3>3. SumFunctionOnSet(f, T \ {Part(T)}) \in Int
      BY <1>1, <3>1
    <3> QED
      BY <3>1, <3>2, <3>3
  <2> QED
    BY <2>1, <2>2
<1> HIDE DEF P
<1>2. \A T \in SUBSET S : T \in P
  BY <1>1, FromParts
<1> QED
  BY <1>2 DEF P

(* Any element can be taken out of a sum.                                    *)
LEMMA SumWithout ==
  ASSUME NEW S, IsFiniteSet(S), NEW f, IntsOn(f, S), NEW x \in S
  PROVE  /\ SumFunctionOnSet(f, S) = f[x] + SumFunctionOnSet(f, S \ {x})
         /\ SumFunctionOnSet(f, S) \in Int /\ SumFunctionOnSet(f, S \ {x}) \in Int
         /\ f[x] \in Int
<1> DEFINE Holds(T) == \A y \in T : SumFunctionOnSet(f, T) = f[y] + SumFunctionOnSet(f, T \ {y})
           P == {T \in SUBSET S : Holds(T)}
<1>0. \A T \in SUBSET S : IsFiniteSet(T) /\ SumFunctionOnSet(f, T) \in Int
  <2>1. ASSUME NEW T \in SUBSET S
        PROVE  IsFiniteSet(T) /\ IntsOn(f, T)
    BY FS_Subset DEF IntsOn
  <2> QED
    BY <2>1, SumType
<1>1. ASSUME NEW T \in SUBSET S, \A y \in T : T \ {y} \in P
      PROVE  T \in P
  <2> SUFFICES ASSUME NEW y \in T
               PROVE  SumFunctionOnSet(f, T) = f[y] + SumFunctionOnSet(f, T \ {y})
    OBVIOUS
  <2>1. PICK c : c = Part(T)
    OBVIOUS
  <2>2. c \in T
    BY <2>1 DEF Part
  <2>3. SumFunctionOnSet(f, T) = f[c] + SumFunctionOnSet(f, T \ {c})
    BY <1>0, <2>1, SumTaken
  <2>4. CASE y = c
    BY <2>3, <2>4
  <2>5. CASE y # c
    <3>1. SumFunctionOnSet(f, T \ {c}) = f[y] + SumFunctionOnSet(f, (T \ {c}) \ {y})
      BY <1>1, <2>2, <2>5
    <3>2. SumFunctionOnSet(f, T \ {y}) = f[c] + SumFunctionOnSet(f, (T \ {y}) \ {c})
      BY <1>1, <2>2, <2>5
    <3>3. PICK R \in SUBSET S : R = (T \ {c}) \ {y}
      OBVIOUS
    <3>4. R = (T \ {y}) \ {c}
      BY <3>3
    <3>5. PICK r \in Int, u \in Int, v \in Int :
             r = SumFunctionOnSet(f, R) /\ u = f[c] /\ v = f[y]
      BY <1>0, <2>2 DEF IntsOn
    <3>6. SumFunctionOnSet(f, T) = u + (v + r) /\ SumFunctionOnSet(f, T \ {y}) = u + r
      BY <2>3, <3>1, <3>2, <3>3, <3>4, <3>5
    <3> QED
      BY <3>5, <3>6
  <2> QED
    BY <2>4, <2>5
<1> HIDE DEF P
<1>2. \A T \in SUBSET S : T \in P
  BY <1>1, FromParts
<1>3. S \in P
  BY <1>2
<1>4. f[x] \in Int /\ S \ {x} \in SUBSET S
  BY DEF IntsOn
<1> QED
  BY <1>0, <1>3, <1>4 DEF P

(* A sum depends on its terms only.                                          *)
LEMMA SumSame ==
  ASSUME NEW S, IsFiniteSet(S), NEW f, NEW g, \A x \in S : f[x] = g[x]
  PROVE  SumFunctionOnSet(f, S) = SumFunctionOnSet(g, S)
<1> DEFINE P == {T \in SUBSET S : SumFunctionOnSet(f, T) = SumFunctionOnSet(g, T)}
<1>1. ASSUME NEW T \in SUBSET S, \A y \in T : T \ {y} \in P
      PROVE  T \in P
  <2>1. CASE T = {}
    BY <2>1, SumOfNone
  <2>2. CASE T # {}
    <3>1. Part(T) \in T /\ f[Part(T)] = g[Part(T)]
      BY <2>2 DEF Part
    <3>2. /\ SumFunctionOnSet(f, T) = f[Part(T)] + SumFunctionOnSet(f, T \ {Part(T)})
          /\ SumFunctionOnSet(g, T) = g[Part(T)] + SumFunctionOnSet(g, T \ {Part(T)})
      BY <2>2, SumTaken, FS_Subset
    <3>3. SumFunctionOnSet(f, T \ {Part(T)}) = SumFunctionOnSet(g, T \ {Part(T)})
      BY <1>1, <3>1
    <3> QED
      BY <3>1, <3>2, <3>3
  <2> QED
    BY <2>1, <2>2
<1> HIDE DEF P
<1>2. \A T \in SUBSET S : T \in P
  BY <1>1, FromParts
<1> QED
  BY <1>2 DEF P

LEMMA SumWith ==
  ASSUME NEW S, IsFiniteSet(S), NEW f, NEW x, x \notin S, IntsOn(f, S \cup {x})
  PROVE  /\ SumFunctionOnSet(f, S \cup {x}) = f[x] + SumFunctionOnSet(f, S)
         /\ SumFunctionOnSet(f, S) \in Int /\ f[x] \in Int
<1>1. IsFiniteSet(S \cup {x})
  BY FS_AddElement
<1>2. x \in S \cup {x} /\ (S \cup {x}) \ {x} = S
  OBVIOUS
<1> QED
  BY <1>1, <1>2, SumWithout

(* The sum over two parts is the sum of their sums.                          *)
LEMMA SumUnion ==
  ASSUME NEW S, IsFiniteSet(S), NEW R, IsFiniteSet(R), S \cap R = {}, NEW f, IntsOn(f, S \cup R)
  PROVE  SumFunctionOnSet(f, S \cup R) = SumFunctionOnSet(f, S) + SumFunctionOnSet(f, R)
<1> DEFINE P == {T \in SUBSET R :
                   SumFunctionOnSet(f, S \cup T) = SumFunctionOnSet(f, S) + SumFunctionOnSet(f, T)}
<1>1. SumFunctionOnSet(f, S) \in Int
  BY SumType DEF IntsOn
<1>2. ASSUME NEW T \in SUBSET R, \A y \in T : T \ {y} \in P
      PROVE  T \in P
  <2>1. CASE T = {}
    <3>1. S \cup T = S
      BY <2>1
    <3> QED
      BY <1>1, <2>1, <3>1, SumOfNone
  <2>2. CASE T # {}
    <3>1. PICK y : y \in T
      BY <2>2
    <3>2. IsFiniteSet(T \ {y}) /\ IsFiniteSet(T) /\ IsFiniteSet(S \cup (T \ {y}))
      BY FS_Subset, FS_Union
    <3>3. PICK a, b, c, d, e :
            /\ a = SumFunctionOnSet(f, S \cup T) /\ b = SumFunctionOnSet(f, S \cup (T \ {y}))
            /\ c = SumFunctionOnSet(f, S) /\ d = SumFunctionOnSet(f, T) /\ e = SumFunctionOnSet(f, T \ {y})
      OBVIOUS
    <3>4. S \cup T = (S \cup (T \ {y})) \cup {y} /\ y \notin S \cup (T \ {y})
      BY <3>1
    <3>5. IntsOn(f, (S \cup (T \ {y})) \cup {y}) /\ IntsOn(f, T)
      BY <3>1 DEF IntsOn
    <3>6. a = f[y] + b /\ b \in Int /\ f[y] \in Int
      BY <3>2, <3>3, <3>4, <3>5, SumWith
    <3>7. d = f[y] + e /\ e \in Int
      BY <3>1, <3>2, <3>3, <3>5, SumWithout
    <3>8. b = c + e
      BY <1>2, <3>1, <3>3
    <3>9. a = c + d /\ c \in Int
      BY <1>1, <3>3, <3>6, <3>7, <3>8
    <3> QED
      BY <3>3, <3>9
  <2> QED
    BY <2>1, <2>2
<1> HIDE DEF P
<1>3. \A T \in SUBSET R : T \in P
  BY <1>2, FromParts
<1> QED
  BY <1>3 DEF P

(* Summed by key and then over the keys, every element counts once.          *)
OfKey(S, key, k) == {x \in S : key[x] = k}
LEMMA SumByKey ==
  ASSUME NEW K, IsFiniteSet(K), NEW S, IsFiniteSet(S), NEW f, IntsOn(f, S), NEW key, NEW h,
         \A k \in K : h[k] = SumFunctionOnSet(f, OfKey(S, key, k))
  PROVE  SumFunctionOnSet(h, K) = SumFunctionOnSet(f, {x \in S : key[x] \in K})
<1> DEFINE R(T) == {x \in S : key[x] \in T}
           P == {T \in SUBSET K : SumFunctionOnSet(h, T) = SumFunctionOnSet(f, R(T))}
<1>1. ASSUME NEW T \in SUBSET K, \A k \in T : T \ {k} \in P
      PROVE  T \in P
  <2>1. CASE T = {}
    <3>1. R(T) = {}
      BY <2>1
    <3> QED
      BY <2>1, <3>1, SumOfNone
  <2>2. CASE T # {}
    <3>1. PICK k : k = Part(T)
      OBVIOUS
    <3>2. k \in T /\ k \in K
      BY <2>2, <3>1 DEF Part
    <3>3. SumFunctionOnSet(h, T) = h[k] + SumFunctionOnSet(h, T \ {k})
      BY <2>2, <3>1, SumTaken, FS_Subset
    <3>4. SumFunctionOnSet(h, T \ {k}) = SumFunctionOnSet(f, R(T \ {k}))
      BY <1>1, <3>2
    <3>5. h[k] = SumFunctionOnSet(f, OfKey(S, key, k))
      BY <3>2
    <3>6. /\ IsFiniteSet(R(T \ {k})) /\ IsFiniteSet(OfKey(S, key, k))
          /\ OfKey(S, key, k) \cap R(T \ {k}) = {}
          /\ OfKey(S, key, k) \cup R(T \ {k}) = R(T)
      <4>1. R(T \ {k}) \in SUBSET S /\ OfKey(S, key, k) \in SUBSET S
        BY DEF OfKey
      <4>2. OfKey(S, key, k) \cap R(T \ {k}) = {} /\ OfKey(S, key, k) \cup R(T \ {k}) = R(T)
        BY <3>2 DEF OfKey
      <4> HIDE DEF R
      <4> QED
        BY <4>1, <4>2, FS_Subset
    <3>7. IntsOn(f, OfKey(S, key, k) \cup R(T \ {k}))
      BY DEF IntsOn, OfKey
    <3>8. SumFunctionOnSet(f, R(T)) = SumFunctionOnSet(f, OfKey(S, key, k)) + SumFunctionOnSet(f, R(T \ {k}))
      <4> HIDE DEF R
      <4>1. PICK A, B : A = OfKey(S, key, k) /\ B = R(T \ {k})
        OBVIOUS
      <4>2. IsFiniteSet(A) /\ IsFiniteSet(B) /\ A \cap B = {} /\ IntsOn(f, A \cup B) /\ A \cup B = R(T)
        BY <3>6, <3>7, <4>1
      <4>3. SumFunctionOnSet(f, A \cup B) = SumFunctionOnSet(f, A) + SumFunctionOnSet(f, B)
        BY <4>2, SumUnion
      <4> QED
        BY <4>1, <4>2, <4>3
    <3> HIDE DEF R
    <3> QED
      BY <3>3, <3>4, <3>5, <3>8
  <2> QED
    BY <2>1, <2>2
<1> HIDE DEF P
<1>2. \A T \in SUBSET K : T \in P
  BY <1>1, FromParts
<1> QED
  BY <1>2 DEF P

(* Sums of sums.                                                             *)

LEMMA SumPlus ==
  ASSUME NEW S, IsFiniteSet(S), NEW f, NEW g, NEW h, IntsOn(f, S), IntsOn(g, S),
         \A x \in S : h[x] = f[x] + g[x]
  PROVE  /\ SumFunctionOnSet(h, S) = SumFunctionOnSet(f, S) + SumFunctionOnSet(g, S)
         /\ SumFunctionOnSet(f, S) \in Int /\ SumFunctionOnSet(g, S) \in Int
<1> DEFINE P == {T \in SUBSET S :
                   SumFunctionOnSet(h, T) = SumFunctionOnSet(f, T) + SumFunctionOnSet(g, T)}
<1>0. \A T \in SUBSET S : /\ IsFiniteSet(T) /\ IntsOn(f, T) /\ IntsOn(g, T)
                          /\ SumFunctionOnSet(f, T) \in Int /\ SumFunctionOnSet(g, T) \in Int
  <2>1. \A T \in SUBSET S : IsFiniteSet(T) /\ IntsOn(f, T) /\ IntsOn(g, T)
    BY FS_Subset DEF IntsOn
  <2> QED
    BY <2>1, SumType
<1>1. ASSUME NEW T \in SUBSET S, \A y \in T : T \ {y} \in P
      PROVE  T \in P
  <2>1. CASE T = {}
    BY <2>1, SumOfNone
  <2>2. CASE T # {}
    <3>1. PICK x : x = Part(T)
      OBVIOUS
    <3>2. x \in T /\ x \in S /\ T \ {x} \in SUBSET S
      BY <2>2, <3>1 DEF Part
    <3>3. /\ SumFunctionOnSet(h, T) = h[x] + SumFunctionOnSet(h, T \ {x})
          /\ SumFunctionOnSet(f, T) = f[x] + SumFunctionOnSet(f, T \ {x})
          /\ SumFunctionOnSet(g, T) = g[x] + SumFunctionOnSet(g, T \ {x})
      BY <1>0, <2>2, <3>1, SumTaken
    <3>4. SumFunctionOnSet(h, T \ {x}) = SumFunctionOnSet(f, T \ {x}) + SumFunctionOnSet(g, T \ {x})
      BY <1>1, <3>2
    <3>5. PICK a \in Int, b \in Int, c \in Int, d \in Int :
             /\ a = f[x] /\ b = g[x]
             /\ c = SumFunctionOnSet(f, T \ {x}) /\ d = SumFunctionOnSet(g, T \ {x})
      BY <1>0, <3>2 DEF IntsOn
    <3>6. h[x] = a + b
      BY <3>2, <3>5
    <3>7. SumFunctionOnSet(h, T) = (a + b) + (c + d)
      BY <3>3, <3>4, <3>5, <3>6
    <3>8. SumFunctionOnSet(f, T) = a + c /\ SumFunctionOnSet(g, T) = b + d
      BY <3>3, <3>5
    <3>9. SumFunctionOnSet(h, T) = SumFunctionOnSet(f, T) + SumFunctionOnSet(g, T)
      BY <3>5, <3>7, <3>8
    <3> QED
      BY <3>9
  <2> QED
    BY <2>1, <2>2
<1> HIDE DEF P
<1>2. \A T \in SUBSET S : T \in P
  BY <1>1, FromParts
<1> QED
  BY <1>0, <1>2 DEF P

LEMMA SumByParts ==
  ASSUME NEW S, IsFiniteSet(S), NEW R \in SUBSET S, NEW f, IntsOn(f, S)
  PROVE  /\ SumFunctionOnSet(f, S) = SumFunctionOnSet(f, R) + SumFunctionOnSet(f, S \ R)
         /\ SumFunctionOnSet(f, R) \in Int /\ SumFunctionOnSet(f, S \ R) \in Int
<1>1. PICK T : T = S \ R
  OBVIOUS
<1>2. IsFiniteSet(R) /\ IsFiniteSet(T)
  BY <1>1, FS_Subset
<1>3. IntsOn(f, R \cup T) /\ IntsOn(f, R) /\ IntsOn(f, T) /\ R \cup T = S /\ R \cap T = {}
  BY <1>1 DEF IntsOn
<1> QED
  BY <1>1, <1>2, <1>3, SumUnion, SumType

-----------------------------------------------------------------------------
(* The ledger of the reports.                                                *)

RowsOn(a) == {i \in Booked : entries[i].account = a}
SignedAmounts == [i \in Booked |-> Signed(entries[i])]
BalancesHold ==
    \A a \in Opened :
        wallets[a].balance = wallets[a].opening + SumFunctionOnSet(SignedAmounts, RowsOn(a))

ReportInv ==
    /\ wallets \in [Wallets -> Wallet \cup {Nothing}]
    /\ entries \in [Entries -> Entry \cup {Nothing}]
    /\ \A i \in Booked : entries[i].account \in Opened
    /\ BalancesHold

LEMMA LedgerTypes ==
  ASSUME ReportInv
  PROVE  /\ IsFiniteSet(Opened) /\ IsFiniteSet(Booked)
         /\ \A a \in Opened : wallets[a] \in Wallet /\ wallets[a].balance \in Int /\ wallets[a].opening \in Int
         /\ \A i \in Booked : /\ entries[i] \in Entry /\ entries[i].amount \in Int
                              /\ entries[i].day \in BookingDays
                              /\ Signed(entries[i]) \in Int
<1>1. Opened \in SUBSET Wallets /\ Booked \in SUBSET Entries
  BY DEF Opened, Booked
<1>2. IsFiniteSet(Opened) /\ IsFiniteSet(Booked)
  BY <1>1, ReportAssumption, FS_Subset
<1>3. ASSUME NEW a \in Opened
      PROVE  wallets[a] \in Wallet /\ wallets[a].balance \in Int /\ wallets[a].opening \in Int
  BY ReportAssumption DEF ReportInv, Opened, Wallet
<1>4. ASSUME NEW i \in Booked
      PROVE  /\ entries[i] \in Entry /\ entries[i].amount \in Int
             /\ entries[i].day \in BookingDays
             /\ Signed(entries[i]) \in Int
  <2>1. entries[i] \in Entry
    BY DEF ReportInv, Booked
  <2>2. entries[i].amount \in Sums /\ entries[i].day \in BookingDays
    BY <2>1 DEF Entry
  <2>3. entries[i].amount \in Int
    <3>1. Sums \subseteq Int
      BY ReportAssumption
    <3> QED
      BY <2>2, <3>1
  <2> QED
    BY <2>1, <2>2, <2>3 DEF Signed
<1> QED
  BY <1>2, <1>3, <1>4

(* The balances still hold when one account's rows change by a row and its   *)
(* balance by the row's amount.                                              *)
LEMMA RowBooked ==
  ASSUME ReportInv, NEW i \in Entries, i \notin Booked, NEW e \in Entry, e.account \in Opened,
         entries' = [entries EXCEPT ![i] = e],
         wallets' = [wallets EXCEPT ![e.account].balance = @ + Signed(e)]
  PROVE  ReportInv'
<1>1. PICK b, s : b = e.account /\ s = Signed(e)
  OBVIOUS
<1>2. s \in Int /\ b \in Opened /\ b \in Wallets /\ e # Nothing
  BY <1>1, ReportAssumption, NothingAssumption DEF Entry, Signed, Opened
<1>3. PICK w : w = [wallets[b] EXCEPT !.balance = @ + s]
  OBVIOUS
<1>4. /\ wallets' = [wallets EXCEPT ![b] = w]
      /\ w \in Wallet /\ w # Nothing
      /\ w.balance = wallets[b].balance + s /\ w.opening = wallets[b].opening
  <2>1. wallets[b] \in Wallet
    BY <1>2, LedgerTypes
  <2>2. w \in Wallet /\ w.balance = wallets[b].balance + s /\ w.opening = wallets[b].opening
    BY <1>2, <1>3, <2>1 DEF Wallet
  <2>3. wallets' = [wallets EXCEPT ![b] = w]
    BY <1>1, <1>3
  <2> QED
    BY <2>2, <2>3, NothingAssumption
<1>5. /\ wallets' \in [Wallets -> Wallet \cup {Nothing}]
      /\ \A a \in Wallets : wallets'[a] = IF a = b THEN w ELSE wallets[a]
  BY <1>2, <1>4 DEF ReportInv
<1>6. /\ entries' \in [Entries -> Entry \cup {Nothing}]
      /\ \A j \in Entries : entries'[j] = IF j = i THEN e ELSE entries[j]
  BY DEF ReportInv
<1>7. Opened' = Opened /\ Booked' = Booked \cup {i}
  BY <1>2, <1>4, <1>5, <1>6 DEF Opened, Booked
<1>8. \A j \in Booked' : entries'[j].account \in Opened'
  BY <1>1, <1>2, <1>6, <1>7 DEF ReportInv, Booked
<1>9. /\ \A j \in Booked : SignedAmounts'[j] = SignedAmounts[j] /\ SignedAmounts[j] \in Int
      /\ SignedAmounts'[i] = s
  <2>1. ASSUME NEW j \in Booked
        PROVE  SignedAmounts'[j] = SignedAmounts[j] /\ SignedAmounts[j] \in Int
    BY <1>6, <1>7, <2>1, LedgerTypes DEF SignedAmounts, Booked
  <2>2. SignedAmounts'[i] = s
    BY <1>1, <1>6, <1>7 DEF SignedAmounts
  <2> QED
    BY <2>1, <2>2
<1>10. ASSUME NEW a \in Opened
       PROVE  wallets'[a].balance = wallets'[a].opening + SumFunctionOnSet(SignedAmounts', RowsOn(a)')
  <2>1. PICK R : R = RowsOn(a)
    OBVIOUS
  <2>2. R \in SUBSET Booked /\ i \notin R /\ IsFiniteSet(R)
    BY <2>1, LedgerTypes, FS_Subset DEF RowsOn
  <2>3. PICK old, new : old = SignedAmounts /\ new = SignedAmounts'
    OBVIOUS
  <2>4. \A j \in R : old[j] = new[j]
    BY <1>9, <2>2, <2>3
  <2>5. SumFunctionOnSet(old, R) = SumFunctionOnSet(new, R)
    BY <2>2, <2>4, SumSame
  <2>6. /\ wallets[a].balance = wallets[a].opening + SumFunctionOnSet(old, R)
        /\ wallets[a].balance \in Int /\ wallets[a].opening \in Int /\ a \in Wallets
    BY <2>1, <2>3, LedgerTypes DEF ReportInv, BalancesHold, Opened
  <2>7. CASE a = b
    <3>1. RowsOn(a)' = R \cup {i}
      BY <1>1, <1>6, <1>7, <2>1, <2>7 DEF RowsOn, Booked
    <3>2. IntsOn(new, R \cup {i})
      BY <1>2, <1>9, <2>2, <2>3 DEF IntsOn
    <3>3. /\ SumFunctionOnSet(new, R \cup {i}) = s + SumFunctionOnSet(new, R)
          /\ SumFunctionOnSet(new, R) \in Int
      BY <1>9, <2>2, <2>3, <3>2, SumWith
    <3>4. wallets'[a].balance = wallets[a].balance + s /\ wallets'[a].opening = wallets[a].opening
      BY <1>4, <1>5, <2>6, <2>7
    <3>5. wallets[a].balance + s = wallets[a].opening + SumFunctionOnSet(new, R \cup {i})
      BY <1>2, <2>5, <2>6, <3>3
    <3> QED
      BY <2>3, <3>1, <3>4, <3>5
  <2>8. CASE a # b
    <3>1. RowsOn(a)' = R
      BY <1>1, <1>6, <1>7, <2>1, <2>8 DEF RowsOn, Booked
    <3>2. wallets'[a] = wallets[a]
      BY <1>5, <2>6, <2>8
    <3> QED
      BY <2>3, <2>5, <2>6, <3>1, <3>2
  <2> QED
    BY <2>7, <2>8
<1>11. BalancesHold'
  BY <1>7, <1>10 DEF BalancesHold
<1> QED
  BY <1>5, <1>6, <1>8, <1>11 DEF ReportInv

LEMMA RowErased ==
  ASSUME ReportInv, NEW i \in Booked,
         entries' = [entries EXCEPT ![i] = Nothing],
         wallets' = [wallets EXCEPT ![entries[i].account].balance = @ - Signed(entries[i])]
  PROVE  ReportInv'
<1>1. PICK b, s : b = entries[i].account /\ s = Signed(entries[i])
  OBVIOUS
<1>2. s \in Int /\ b \in Opened /\ b \in Wallets /\ i \in Entries
  BY <1>1, LedgerTypes DEF ReportInv, Opened, Booked
<1>3. PICK w : w = [wallets[b] EXCEPT !.balance = @ - s]
  OBVIOUS
<1>4. /\ wallets' = [wallets EXCEPT ![b] = w]
      /\ w \in Wallet /\ w # Nothing
      /\ w.balance = wallets[b].balance - s /\ w.opening = wallets[b].opening
  <2>1. wallets[b] \in Wallet
    BY <1>2, LedgerTypes
  <2>2. w \in Wallet /\ w.balance = wallets[b].balance - s /\ w.opening = wallets[b].opening
    BY <1>2, <1>3, <2>1 DEF Wallet
  <2>3. wallets' = [wallets EXCEPT ![b] = w]
    BY <1>1, <1>3
  <2> QED
    BY <2>2, <2>3, NothingAssumption
<1>5. /\ wallets' \in [Wallets -> Wallet \cup {Nothing}]
      /\ \A a \in Wallets : wallets'[a] = IF a = b THEN w ELSE wallets[a]
  BY <1>2, <1>4 DEF ReportInv
<1>6. /\ entries' \in [Entries -> Entry \cup {Nothing}]
      /\ \A j \in Entries : entries'[j] = IF j = i THEN Nothing ELSE entries[j]
  BY DEF ReportInv
<1>7. Opened' = Opened /\ Booked' = Booked \ {i}
  BY <1>2, <1>4, <1>5, <1>6 DEF Opened, Booked
<1>8. \A j \in Booked' : entries'[j].account \in Opened'
  BY <1>6, <1>7 DEF ReportInv, Booked
<1>9. \A j \in Booked : SignedAmounts[j] \in Int /\ (j # i => SignedAmounts'[j] = SignedAmounts[j])
  BY <1>6, <1>7, LedgerTypes DEF SignedAmounts, Booked
<1>10. SignedAmounts[i] = s
  BY <1>1 DEF SignedAmounts
<1>11. ASSUME NEW a \in Opened
       PROVE  wallets'[a].balance = wallets'[a].opening + SumFunctionOnSet(SignedAmounts', RowsOn(a)')
  <2>1. PICK R, Q : R = RowsOn(a) /\ Q = RowsOn(a) \ {i}
    OBVIOUS
  <2>2. R \in SUBSET Booked /\ IsFiniteSet(R) /\ Q \in SUBSET Booked /\ IsFiniteSet(Q)
    BY <2>1, LedgerTypes, FS_Subset DEF RowsOn
  <2>3. PICK old, new : old = SignedAmounts /\ new = SignedAmounts'
    OBVIOUS
  <2>4. \A j \in Q : old[j] = new[j]
    BY <1>9, <2>1, <2>2, <2>3
  <2>5. SumFunctionOnSet(old, Q) = SumFunctionOnSet(new, Q)
    BY <2>2, <2>4, SumSame
  <2>6. /\ wallets[a].balance = wallets[a].opening + SumFunctionOnSet(old, R)
        /\ wallets[a].balance \in Int /\ wallets[a].opening \in Int /\ a \in Wallets
    BY <2>1, <2>3, LedgerTypes DEF ReportInv, BalancesHold, Opened
  <2>7. RowsOn(a)' = Q
    BY <1>6, <1>7, <2>1 DEF RowsOn, Booked
  <2>8. CASE a = b
    <3>1. i \in R
      BY <1>1, <2>1, <2>8 DEF RowsOn
    <3>2. IntsOn(old, R)
      BY <1>9, <2>2, <2>3 DEF IntsOn
    <3>3. /\ SumFunctionOnSet(old, R) = s + SumFunctionOnSet(old, Q)
          /\ SumFunctionOnSet(old, Q) \in Int
      BY <1>10, <2>1, <2>2, <2>3, <3>1, <3>2, SumWithout
    <3>4. wallets'[a].balance = wallets[a].balance - s /\ wallets'[a].opening = wallets[a].opening
      BY <1>4, <1>5, <2>6, <2>8
    <3>5. wallets[a].balance - s = wallets[a].opening + SumFunctionOnSet(new, Q)
      BY <1>2, <2>5, <2>6, <3>3
    <3> QED
      BY <2>3, <2>7, <3>4, <3>5
  <2>9. CASE a # b
    <3>1. Q = R
      BY <1>1, <2>1, <2>9 DEF RowsOn
    <3>2. wallets'[a] = wallets[a]
      BY <1>5, <2>6, <2>9
    <3> QED
      BY <2>3, <2>5, <2>6, <2>7, <3>1, <3>2
  <2> QED
    BY <2>8, <2>9
<1>12. BalancesHold'
  BY <1>7, <1>11 DEF BalancesHold
<1> QED
  BY <1>5, <1>6, <1>8, <1>12 DEF ReportInv


LEMMA ReportStays == ReportInv /\ [ReportNext]_reportVars => ReportInv'
<1> SUFFICES ASSUME ReportInv, [ReportNext]_reportVars
             PROVE  ReportInv'
  OBVIOUS
<1>1. ASSUME NEW a \in Wallets, ArchiveWallet(a)
      PROVE  ReportInv'
  <2>1. PICK w : w = [wallets[a] EXCEPT !.archived = TRUE]
    OBVIOUS
  <2>2. wallets' = [wallets EXCEPT ![a] = w] /\ UNCHANGED entries /\ a \in Opened
    BY <1>1, <2>1 DEF ArchiveWallet
  <2>3. w \in Wallet /\ w.balance = wallets[a].balance /\ w.opening = wallets[a].opening /\ w # Nothing
    <3>1. wallets[a] \in Wallet
      BY <2>2, LedgerTypes
    <3>2. w \in Wallet /\ w.balance = wallets[a].balance /\ w.opening = wallets[a].opening
      BY <2>1, <3>1 DEF Wallet
    <3> QED
      BY <3>2, NothingAssumption
  <2>4. /\ wallets' \in [Wallets -> Wallet \cup {Nothing}]
        /\ \A b \in Wallets : wallets'[b] = IF b = a THEN w ELSE wallets[b]
    BY <2>2, <2>3 DEF ReportInv
  <2>5. Opened' = Opened /\ Booked' = Booked
    BY <2>2, <2>3, <2>4 DEF Opened, Booked
  <2>6. SignedAmounts' = SignedAmounts /\ \A b : RowsOn(b)' = RowsOn(b)
    BY <2>2 DEF SignedAmounts, RowsOn, Booked
  <2>7. BalancesHold'
    <3>1. ASSUME NEW b \in Opened
          PROVE  wallets'[b].balance = wallets'[b].opening + SumFunctionOnSet(SignedAmounts', RowsOn(b)')
      <4>1. wallets'[b].balance = wallets[b].balance /\ wallets'[b].opening = wallets[b].opening
        BY <2>3, <2>4 DEF Opened
      <4> QED
        BY <2>6, <4>1 DEF ReportInv, BalancesHold
    <3> QED
      BY <2>5, <3>1 DEF BalancesHold
  <2> QED
    BY <2>2, <2>4, <2>5, <2>7 DEF ReportInv
<1>2. ASSUME NEW a \in Wallets, NEW currency \in Currencies, NEW opening \in Openings,
             OpenWallet(a, currency, opening)
      PROVE  ReportInv'
  <2>1. PICK w : w = [currency |-> currency, opening |-> opening, balance |-> opening, archived |-> FALSE]
    OBVIOUS
  <2>2. wallets' = [wallets EXCEPT ![a] = w] /\ UNCHANGED entries /\ a \notin Opened
    BY <1>2, <2>1 DEF OpenWallet
  <2>3. w \in Wallet /\ w.balance = opening /\ w.opening = opening /\ w # Nothing /\ opening \in Int
    <3>1. opening \in Int
      BY ReportAssumption
    <3>2. w \in Wallet /\ w.balance = opening /\ w.opening = opening
      BY <2>1, <3>1 DEF Wallet
    <3> QED
      BY <3>1, <3>2, NothingAssumption
  <2>4. /\ wallets' \in [Wallets -> Wallet \cup {Nothing}]
        /\ \A b \in Wallets : wallets'[b] = IF b = a THEN w ELSE wallets[b]
    BY <2>2, <2>3 DEF ReportInv
  <2>5. Opened' = Opened \cup {a} /\ Booked' = Booked
    BY <2>2, <2>3, <2>4 DEF Opened, Booked
  <2>6. SignedAmounts' = SignedAmounts /\ \A b : RowsOn(b)' = RowsOn(b)
    BY <2>2 DEF SignedAmounts, RowsOn, Booked
  <2>7. ASSUME NEW b \in Opened'
        PROVE  wallets'[b].balance = wallets'[b].opening + SumFunctionOnSet(SignedAmounts', RowsOn(b)')
    <3>1. CASE b = a
      <4>1. RowsOn(b) = {}
        BY <2>2, <3>1 DEF ReportInv, RowsOn
      <4>2. SumFunctionOnSet(SignedAmounts, {}) = 0
        BY SumOfNone
      <4> QED
        BY <2>3, <2>4, <2>6, <3>1, <4>1, <4>2
    <3>2. CASE b # a
      BY <2>4, <2>5, <2>6, <3>2 DEF ReportInv, BalancesHold, Opened
    <3> QED
      BY <3>1, <3>2
  <2>8. BalancesHold'
    BY <2>7 DEF BalancesHold
  <2> QED
    BY <2>2, <2>4, <2>5, <2>8 DEF ReportInv
<1>3. ASSUME NEW i \in Entries, Erase(i)
      PROVE  ReportInv'
  BY <1>3, RowErased DEF Erase
<1>4. ASSUME NEW i \in Entries, NEW a \in Wallets, NEW type \in {"INCOME", "EXPENSE"},
             NEW n \in Sums, NEW d \in BookingDays, NEW c \in CategoriesFor(type),
             Book(i, [account |-> a, type |-> type, category |-> c, amount |-> n, day |-> d])
      PROVE  ReportInv'
  <2>1. PICK e : e = [account |-> a, type |-> type, category |-> c, amount |-> n, day |-> d]
    OBVIOUS
  <2>2. e \in Entry
    BY <2>1 DEF Entry, CategoriesFor
  <2>3. Book(i, e)
    BY <1>4, <2>1
  <2> QED
    BY <2>2, <2>3, RowBooked DEF Book
<1>5. CASE UNCHANGED reportVars
  <2>1. UNCHANGED <<wallets, entries>>
    BY <1>5 DEF reportVars
  <2>2. Opened' = Opened /\ Booked' = Booked /\ SignedAmounts' = SignedAmounts /\ \A a : RowsOn(a)' = RowsOn(a)
    BY <2>1 DEF Opened, Booked, SignedAmounts, RowsOn
  <2> QED
    BY <2>1, <2>2 DEF ReportInv, BalancesHold
<1> QED
  BY <1>1, <1>2, <1>3, <1>4, <1>5 DEF ReportNext

LEMMA ReportStarts == ReportInit => ReportInv
BY DEF ReportInit, ReportInv, BalancesHold, Opened, Booked

-----------------------------------------------------------------------------
(* The sums of the figures.                                                  *)

LEMMA AmountsAdd ==
  ASSUME ReportInv, NEW S \in SUBSET Booked
  PROVE  IsFiniteSet(S) /\ IntsOn(Amounts, S) /\ IntsOn(SignedAmounts, S)
<1>1. IsFiniteSet(S)
  BY LedgerTypes, FS_Subset
<1>2. \A i \in S : Amounts[i] \in Int /\ SignedAmounts[i] \in Int
  BY LedgerTypes DEF Amounts, SignedAmounts
<1> QED
  BY <1>1, <1>2 DEF IntsOn

(* The parts of the category breakdown add up to its rows.                   *)
LEMMA PartsAddUp ==
  ASSUME ReportInv, NEW range
  PROVE  SumFunction(SumByCategory("EXPENSE", range)) = AmountOf(CategoryRows("EXPENSE", range))
<1>1. PICK parts, rows, K :
         /\ parts = SumByCategory("EXPENSE", range) /\ rows = CategoryRows("EXPENSE", range)
         /\ K = {entries[i].category : i \in rows}
  OBVIOUS
<1>2. parts = [c \in K |-> AmountOf({i \in rows : entries[i].category = c})]
  BY <1>1 DEF SumByCategory
<1>3. rows \in SUBSET Booked
  BY <1>1 DEF CategoryRows
<1>4. IsFiniteSet(K)
  <2>1. K \in SUBSET {Food, Salary, Uncategorized}
    BY <1>1, <1>3, LedgerTypes DEF Entry
  <2>2. IsFiniteSet({Food, Salary, Uncategorized})
    <3>1. IsFiniteSet({}) /\ IsFiniteSet({} \cup {Food})
      BY FS_EmptySet, FS_AddElement
    <3>2. IsFiniteSet(({} \cup {Food}) \cup {Salary})
      BY <3>1, FS_AddElement
    <3>3. IsFiniteSet((({} \cup {Food}) \cup {Salary}) \cup {Uncategorized})
      BY <3>2, FS_AddElement
    <3>4. (({} \cup {Food}) \cup {Salary}) \cup {Uncategorized} = {Food, Salary, Uncategorized}
      OBVIOUS
    <3> QED
      BY <3>3, <3>4
  <2> QED
    BY <2>1, <2>2, FS_Subset
<1>5. PICK key : key = [i \in rows |-> entries[i].category]
  OBVIOUS
<1>6. \A c \in K : parts[c] = SumFunctionOnSet(Amounts, OfKey(rows, key, c))
  <2>1. ASSUME NEW c \in K
        PROVE  OfKey(rows, key, c) = {i \in rows : entries[i].category = c}
    BY <1>5 DEF OfKey
  <2> QED
    BY <1>2, <2>1 DEF AmountOf
<1>7. SumFunctionOnSet(parts, K) = SumFunctionOnSet(Amounts, {i \in rows : key[i] \in K})
  BY <1>3, <1>4, <1>6, AmountsAdd, SumByKey
<1>8. {i \in rows : key[i] \in K} = rows
  BY <1>1, <1>5
<1>9. DOMAIN parts = K
  BY <1>2
<1> QED
  BY <1>1, <1>7, <1>8, <1>9 DEF SumFunction, AmountOf

(* The assets less the liabilities of a currency are its balances.           *)
LEMMA NetWorthIsBalance ==
  ASSUME ReportInv, NEW c
  PROVE  NetWorth(c) = BalanceOf(InCurrency(c))
<1>1. PICK S, R, f : /\ S = InCurrency(c) /\ R = {a \in S : wallets[a].balance >= 0}
                     /\ f = [a \in Opened |-> wallets[a].balance]
  OBVIOUS
<1>2. S \in SUBSET Opened /\ R \in SUBSET S
  BY <1>1 DEF InCurrency, FindAccounts
<1>3. IsFiniteSet(S) /\ IntsOn(f, S)
  BY <1>1, <1>2, LedgerTypes, FS_Subset DEF IntsOn
<1>4. {a \in S : wallets[a].balance < 0} = S \ R
  BY <1>1, <1>2, LedgerTypes
<1>5. /\ SumFunctionOnSet(f, S) = SumFunctionOnSet(f, R) + SumFunctionOnSet(f, S \ R)
      /\ SumFunctionOnSet(f, R) \in Int /\ SumFunctionOnSet(f, S \ R) \in Int
  BY <1>2, <1>3, SumByParts
<1>6. NetWorth(c) = SumFunctionOnSet(f, R) - (-SumFunctionOnSet(f, S \ R))
  <2>1. BalanceOf(R) = SumFunctionOnSet(f, R) /\ BalanceOf(S \ R) = SumFunctionOnSet(f, S \ R)
    BY <1>1 DEF BalanceOf
  <2> QED
    BY <1>1, <1>4, <2>1 DEF NetWorth, SummarizeNetWorth
<1> QED
  BY <1>1, <1>5, <1>6 DEF BalanceOf

LEMMA WorthAccounted ==
  ASSUME ReportInv
  PROVE  NetWorthAccountsForEverything
<1>1. ASSUME NEW c \in Currencies, NEW live,
             live = {a \in Opened : ~wallets[a].archived /\ wallets[a].currency = c}, NEW rows,
             rows = {i \in Booked : entries[i].account \in live}
      PROVE  NetWorth(c) = SumFunction([a \in live |-> wallets[a].opening])
                           + SumFunction([i \in rows |-> Signed(entries[i])])
  <2>1. live = InCurrency(c) /\ live \in SUBSET Opened /\ IsFiniteSet(live)
    BY <1>1, LedgerTypes, FS_Subset DEF InCurrency, FindAccounts
  <2>2. PICK f, g, h : /\ f = [a \in live |-> wallets[a].opening]
                       /\ g = [a \in live |-> SumFunctionOnSet(SignedAmounts, RowsOn(a))]
                       /\ h = [a \in Opened |-> wallets[a].balance]
    OBVIOUS
  <2>3. NetWorth(c) = SumFunctionOnSet(h, live)
    BY <2>1, <2>2, NetWorthIsBalance DEF BalanceOf
  <2>4. \A a \in live : /\ h[a] = f[a] + g[a] /\ f[a] \in Int /\ g[a] \in Int
    <3>1. ASSUME NEW a \in live
          PROVE  SumFunctionOnSet(SignedAmounts, RowsOn(a)) \in Int
      <4>1. RowsOn(a) \in SUBSET Booked
        BY DEF RowsOn
      <4> QED
        BY <4>1, AmountsAdd, SumType
    <3> QED
      BY <2>1, <2>2, <3>1, LedgerTypes DEF ReportInv, BalancesHold
  <2>5. SumFunctionOnSet(h, live) = SumFunctionOnSet(f, live) + SumFunctionOnSet(g, live)
    BY <2>1, <2>4, SumPlus DEF IntsOn
  <2>6. PICK key : key = [i \in Booked |-> entries[i].account]
    OBVIOUS
  <2>7. SumFunctionOnSet(g, live) = SumFunctionOnSet(SignedAmounts, {i \in Booked : key[i] \in live})
    <3>1. \A a \in live : g[a] = SumFunctionOnSet(SignedAmounts, OfKey(Booked, key, a))
      <4>1. ASSUME NEW a \in live
            PROVE  OfKey(Booked, key, a) = RowsOn(a)
        BY <2>6 DEF OfKey, RowsOn
      <4> QED
        BY <2>2, <4>1
    <3>2. IsFiniteSet(Booked) /\ IntsOn(SignedAmounts, Booked)
      BY AmountsAdd
    <3> QED
      BY <2>1, <3>1, <3>2, SumByKey
  <2>8. {i \in Booked : key[i] \in live} = rows /\ rows \in SUBSET Booked
    BY <1>1, <2>6
  <2>9. PICK k : k = [i \in rows |-> Signed(entries[i])]
    OBVIOUS
  <2>10. SumFunctionOnSet(SignedAmounts, rows) = SumFunctionOnSet(k, rows)
    <3>1. \A i \in rows : SignedAmounts[i] = k[i]
      BY <2>8, <2>9 DEF SignedAmounts
    <3> QED
      BY <2>8, <3>1, AmountsAdd, SumSame
  <2>11. SumFunction(f) = SumFunctionOnSet(f, live) /\ SumFunction(k) = SumFunctionOnSet(k, rows)
    BY <2>2, <2>9 DEF SumFunction
  <2> QED
    BY <2>2, <2>3, <2>5, <2>7, <2>8, <2>9, <2>10, <2>11
<1>2. \A c, day : Overview(day, c).totalBalance = Overview(day, c).netWorth
  BY NetWorthIsBalance DEF Overview
<1> QED
  BY <1>1, <1>2 DEF NetWorthAccountsForEverything


-----------------------------------------------------------------------------
(* The months of the reports.                                                *)

(* A month that is j months back begins at most 31 * j days earlier.         *)
LEMMA MonthsBack ==
  ASSUME NEW m \in Int, NEW n \in Nat
  PROVE  MonthStart(m) - 31 * n <= MonthStart(m - n)
<1> DEFINE bad == {j \in Nat : ~(MonthStart(m) - 31 * j <= MonthStart(m - j))}
<1> SUFFICES ASSUME bad # {}
             PROVE  FALSE
  OBVIOUS
<1>1. PICK j \in bad : \A i \in bad : ~(i < j)
  <2>1. bad \in SUBSET Nat
    OBVIOUS
  <2> HIDE DEF bad
  <2> QED
    BY <2>1, LeastOne
<1>2. MonthStart(m) \in Int
  BY LengthType
<1>3. j # 0
  <2>1. MonthStart(m) - 31 * 0 <= MonthStart(m - 0)
    BY <1>2
  <2> QED
    BY <2>1
<1>4. PICK i \in Nat, l \in Int : i = j - 1 /\ l = m - j
  BY <1>3
<1>5. i \notin bad
  BY <1>1, <1>4
<1>6. PICK k \in Int : k = m - i
  OBVIOUS
<1>7. MonthStart(m) - 31 * i <= MonthStart(k)
  BY <1>5, <1>6
<1>8. k = l + 1
  BY <1>4, <1>6
<1>9. /\ MonthStart(l) \in Int /\ MonthStart(k) = MonthStart(l) + MonthLength(l)
      /\ MonthLength(l) \in Int /\ MonthLength(l) <= 31
  BY <1>8, LengthType
<1>10. MonthStart(m) - 31 * j <= MonthStart(l)
  BY <1>2, <1>4, <1>7, <1>9
<1> QED
  BY <1>4, <1>10

(* From the first of a month to the first of another.                        *)
LEMMA FirstPlus ==
  ASSUME NEW n \in Dates, NEW m \in Int, n = MonthStart(m), NEW count \in Int, NEW k, k = m + count,
         MonthStart(k + 1) - 1 \in Dates
  PROVE  AddMonths(n, count) = MonthStart(k)
<1>1. 28 <= MonthLength(m) /\ MonthLength(m) \in Int /\ MonthStart(m) \in Int
  BY LengthType
<1>2. MonthNumber(n) = m /\ DayOf(n) = 1
  BY <1>1, Stands
<1>3. k \in Int /\ MonthStart(MonthNumber(n) + count + 1) - 1 \in Dates
  BY <1>2
<1>4. AddMonths(n, count) = MonthStart(k) + Clamped(1, k) - 1
  BY <1>2, <1>3, MonthsAdded
<1>5. 28 <= MonthLength(k) /\ MonthLength(k) \in Int /\ MonthStart(k) \in Int
  BY <1>3, LengthType
<1>6. Clamped(1, k) = 1
  BY <1>5 DEF Clamped
<1> QED
  BY <1>4, <1>5, <1>6

LEMMA ReportDates ==
  ASSUME NEW day \in ReportDays
  PROVE  /\ day \in Dates /\ day \in Int
         /\ \A n \in ReportMonths \cup {1} : \A d \in Int :
               day - 31 * n <= d /\ d <= day + 62 => d \in Dates
<1>1. day \in Int /\ (day - 31 * 1)..(day + 62) \subseteq Dates
  BY ReportAssumption
<1>2. day \in (day - 31 * 1)..(day + 62)
  BY <1>1
<1>3. ASSUME NEW n \in ReportMonths \cup {1}
      PROVE  (day - 31 * n)..(day + 62) \subseteq Dates
  BY ReportAssumption
<1> QED
  BY <1>1, <1>2, <1>3

(* The table holds the months that the reports of a day look at.             *)
LEMMA MonthsOfDay ==
  ASSUME NEW day \in ReportDays, NEW m, m = MonthNumber(day), NEW n \in ReportMonths \cup {1},
         NEW k \in Int, m - n < k, k <= m + 1
  PROVE  /\ m \in Int /\ MonthStart(m) \in Dates
         /\ MonthStart(k + 1) - 1 \in Dates
<1>1. /\ day \in Int /\ m \in Int /\ DayOf(day) \in Int
      /\ day = MonthStart(m) + DayOf(day) - 1 /\ 1 <= DayOf(day) /\ DayOf(day) <= MonthLength(m)
      /\ MonthStart(m) \in Int /\ MonthStart(m + 1) = MonthStart(m) + MonthLength(m)
      /\ MonthLength(m) \in Int /\ MonthLength(m) <= 31
  BY ReportDates, Standing, LengthType
<1>2. n \in Nat /\ 1 <= n
  BY ReportAssumption
<1>3. PICK l \in Int, p \in Int, q \in Int : l = k + 1 /\ p = m + 2 /\ q = m + 1
  BY <1>1
<1>4. MonthStart(l) <= MonthStart(p)
  <2>1. l <= p
    BY <1>1, <1>3
  <2> QED
    BY <2>1, MonthsGrow
<1>5. /\ MonthStart(p) = MonthStart(q) + MonthLength(q) /\ MonthLength(q) <= 31
      /\ MonthLength(q) \in Int /\ MonthStart(q) \in Int
  <2>1. p = q + 1
    BY <1>1, <1>3
  <2> QED
    BY <2>1, LengthType
<1>6. MonthStart(l) - 1 <= day + 62
  <2>1. MonthStart(l) \in Int /\ MonthStart(q) = MonthStart(m) + MonthLength(m)
    BY <1>1, <1>3, LengthType
  <2> QED
    BY <1>1, <1>4, <1>5, <2>1
<1>7. day - 31 * n <= MonthStart(l) - 1
  <2>1. PICK j \in Int, i \in Nat : j = l - 1 /\ i = n - 1
    BY <1>2
  <2>2. PICK o \in Int : o = m - i
    BY <1>1
  <2>3. MonthStart(m) - 31 * i <= MonthStart(o)
    BY <1>1, <2>2, MonthsBack
  <2>4. o <= k
    BY <1>1, <1>2, <2>1, <2>2
  <2>5. MonthStart(o) <= MonthStart(k) /\ MonthStart(o) \in Int
    BY <2>4, MonthsGrow, LengthType
  <2>6. MonthStart(l) = MonthStart(k) + MonthLength(k) /\ 28 <= MonthLength(k) /\ MonthLength(k) \in Int
        /\ MonthStart(k) \in Int
    BY <1>3, LengthType
  <2> QED
    BY <1>1, <1>2, <2>1, <2>3, <2>5, <2>6
<1>8. MonthStart(l) \in Int
  BY LengthType
<1>9. MonthStart(l) - 1 \in Dates
  <2>1. PICK d : d = MonthStart(l) - 1
    OBVIOUS
  <2>2. d \in Int /\ day - 31 * n <= d /\ d <= day + 62
    BY <1>6, <1>7, <1>8, <2>1
  <2> QED
    BY <2>1, <2>2, ReportDates
<1>10. MonthStart(m) \in Dates
  <2>1. PICK d : d = MonthStart(m)
    OBVIOUS
  <2>2. d \in Int /\ day - 31 * 1 <= d /\ d <= day + 62
    BY <1>1, <2>1
  <2> QED
    BY <2>1, <2>2, ReportDates
<1> QED
  BY <1>1, <1>3, <1>9, <1>10

(* The ranges of the cash flow are the months that end with the day's.       *)
LEMMA CashFlowMonths ==
  ASSUME NEW day \in ReportDays, NEW m, m = MonthNumber(day), NEW n \in ReportMonths, NEW i \in 1..n
  PROVE  /\ m \in Int /\ n \in Nat
         /\ LastMonths(n, day)[i] = [start |-> MonthStart(m + i - n), end |-> MonthStart(m + i - n + 1)]
<1>1. n \in Nat /\ i \in Int /\ 1 <= i /\ i <= n
  BY ReportAssumption
<1>2. m \in Int
  BY ReportDates, Standing
<1>3. PICK k \in Int, l \in Int, j \in Int, h \in Int :
         k = m + i - n /\ l = k + 1 /\ j = i - n /\ h = i - n + 1
  BY <1>1, <1>2
<1>4. m - n < k /\ k <= m + 1 /\ m - n < l /\ l <= m + 1
  BY <1>1, <1>2, <1>3
<1>5. MonthStart(m) \in Dates /\ MonthStart(k + 1) - 1 \in Dates /\ MonthStart(l + 1) - 1 \in Dates
  BY <1>2, <1>4, MonthsOfDay
<1>6. PICK base \in Dates : base = MonthStart(m) /\ base = StartOfMonth(day)
  BY <1>5, ReportDates, MonthEnds
<1>7. AddMonths(base, j) = MonthStart(k) /\ AddMonths(base, h) = MonthStart(l)
  <2>1. k = m + j /\ l = m + h /\ j \in Int /\ h \in Int
    BY <1>1, <1>2, <1>3
  <2>2. MonthStart(m) = base /\ base \in Dates
    BY <1>6
  <2>3. AddMonths(base, j) = MonthStart(k)
    BY <1>2, <1>3, <1>5, <2>1, <2>2, FirstPlus
  <2>4. AddMonths(base, h) = MonthStart(l)
    BY <1>2, <1>3, <1>5, <2>1, <2>2, FirstPlus
  <2> QED
    BY <2>3, <2>4
<1> QED
  BY <1>1, <1>2, <1>3, <1>6, <1>7 DEF LastMonths

(* A day is in the range of a month if the month is the day's.               *)
LEMMA MonthOfRows ==
  ASSUME NEW d \in Dates, NEW k \in Int
  PROVE  InRange(d, [start |-> MonthStart(k), end |-> MonthStart(k + 1)]) <=> MonthNumber(d) = k
<1>1. MonthNumber(d) = k => MonthStart(k) <= d /\ d < MonthStart(k + 1)
  BY DateOfDay
<1>2. MonthStart(k) <= d /\ d < MonthStart(k + 1) => MonthNumber(d) = k
  BY MonthOfDay
<1> QED
  BY <1>1, <1>2 DEF InRange

LEMMA BookingDates == BookingDays \subseteq Dates
<1>1. ASSUME NEW d \in BookingDays
      PROVE  d \in Dates
  <2>1. d \in Int /\ (d - 31)..d \subseteq Dates
    BY ReportAssumption
  <2> QED
    BY <2>1
<1> QED
  BY <1>1

(* A row is in one of the ranges of the cash flow, or its month is in none.  *)
LEMMA RowsCounted ==
  ASSUME ReportInv, NEW i \in Booked, NEW day \in ReportDays, NEW n \in ReportMonths
  PROVE  Cardinality({k \in 1..n : InRange(entries[i].day, LastMonths(n, day)[k])})
         = IF MonthDiff(entries[i].day, day) \in 0..(n - 1) THEN 1 ELSE 0
<1>1. PICK d, m, l : d = entries[i].day /\ m = MonthNumber(day) /\ l = MonthNumber(entries[i].day)
  OBVIOUS
<1>2. d \in Dates /\ l \in Int /\ m \in Int /\ n \in Nat
  BY <1>1, LedgerTypes, BookingDates, ReportDates, ReportAssumption, Standing
<1>3. MonthDiff(d, day) = m - l
  BY <1>1, <1>2, ReportDates, MonthsBetween
<1>4. ASSUME NEW k \in 1..n
      PROVE  InRange(d, LastMonths(n, day)[k]) <=> k = n - (m - l)
  <2>1. PICK j \in Int : j = m + k - n
    BY <1>2
  <2>2. LastMonths(n, day)[k] = [start |-> MonthStart(j), end |-> MonthStart(j + 1)]
    BY <1>1, <2>1, CashFlowMonths
  <2>3. InRange(d, LastMonths(n, day)[k]) <=> l = j
    BY <1>1, <1>2, <2>2, MonthOfRows
  <2> QED
    BY <1>2, <2>1, <2>3
<1>5. PICK t \in Int : t = n - (m - l)
  BY <1>2
<1>6. PICK S : S = {k \in 1..n : InRange(d, LastMonths(n, day)[k])}
  OBVIOUS
<1>7. CASE m - l \in 0..(n - 1)
  <2>1. S = {t}
    BY <1>2, <1>4, <1>6, <1>5, <1>7
  <2> QED
    BY <1>1, <1>3, <1>6, <1>7, <2>1, FS_Singleton
<1>8. CASE ~(m - l \in 0..(n - 1))
  <2>1. S = {}
    BY <1>2, <1>4, <1>6, <1>5, <1>8
  <2> QED
    BY <1>1, <1>3, <1>6, <1>8, <2>1, FS_EmptySet
<1> QED
  BY <1>7, <1>8

(* A monthly budget that starts on a first has the months as its periods.    *)
LEMMA MonthBudget ==
  ASSUME NEW day \in ReportDays, NEW d \in BookingDays, NEW start, start = StartOfMonth(d)
  PROVE  MonthBounds(start, day) = ThisMonth(day)
<1>1. day \in Dates /\ d \in Dates
  BY ReportDates, BookingDates
<1>2. PICK m, k : m = MonthNumber(day) /\ k = MonthNumber(d)
  OBVIOUS
<1>3. /\ m \in Int /\ k \in Int /\ d \in Int /\ DayOf(day) \in Int /\ 1 <= DayOf(day)
      /\ d = MonthStart(k) + DayOf(d) - 1 /\ 1 <= DayOf(d) /\ DayOf(d) <= MonthLength(k)
      /\ DayOf(d) \in Int
      /\ MonthStart(k) \in Int /\ MonthLength(k) \in Int /\ 28 <= MonthLength(k) /\ MonthLength(k) <= 31
  BY <1>1, <1>2, Standing, LengthType
<1>4. start = MonthStart(k)
  BY <1>1, <1>2, MonthEnds
<1>5. start \in Dates
  <2>1. (d - 31)..d \subseteq Dates
    BY ReportAssumption
  <2>2. start \in (d - 31)..d
    BY <1>3, <1>4
  <2> QED
    BY <2>1, <2>2
<1>6. MonthNumber(start) = k /\ DayOf(start) = 1
  BY <1>3, <1>4, <1>5, Stands
<1>7. PICK months \in Int, l \in Int : months = m - k /\ l = m + 1
  BY <1>3
<1>8. MonthDiff(start, day) - (IF DayOf(day) < DayOf(start) THEN 1 ELSE 0) = months
  BY <1>1, <1>2, <1>3, <1>5, <1>6, <1>7, MonthsBetween
<1>9. MonthStart(m) \in Dates /\ MonthStart(m + 1) - 1 \in Dates /\ MonthStart(l + 1) - 1 \in Dates
  <2>1. 1 \in ReportMonths \cup {1}
    OBVIOUS
  <2>2. m - 1 < m /\ m <= m + 1 /\ m - 1 < l /\ l <= m + 1
    BY <1>3, <1>7
  <2>3. MonthStart(m) \in Dates /\ MonthStart(m + 1) - 1 \in Dates
    BY <1>2, <1>3, <2>1, <2>2, MonthsOfDay
  <2>4. MonthStart(l + 1) - 1 \in Dates
    BY <1>2, <1>3, <1>7, <2>1, <2>2, MonthsOfDay
  <2> QED
    BY <2>3, <2>4
<1>10. AddMonths(start, months) = MonthStart(m)
  BY <1>3, <1>4, <1>5, <1>7, <1>9, FirstPlus
<1>11. AddMonths(MonthStart(m), 1) = MonthStart(l)
  BY <1>3, <1>7, <1>9, FirstPlus
<1>12. ThisMonth(day) = [start |-> MonthStart(m), end |-> MonthStart(l)]
  BY <1>1, <1>2, <1>7, MonthEnds DEF ThisMonth
<1> QED
  BY <1>8, <1>10, <1>11, <1>12 DEF MonthBounds

(* All screens count the rows of one and the same month.                     *)
LEMMA SpendingHolds ==
  ASSUME ReportInv
  PROVE  SpendingAgrees
<1> SUFFICES ASSUME NEW day \in ReportDays, NEW d \in BookingDays, NEW start, start = StartOfMonth(d),
                    NEW month, month = ThisMonth(day),
                    NEW parts, parts = SumByCategory("EXPENSE", month),
                    NEW expense, expense = AmountOf(FlowRows("EXPENSE", month))
             PROVE  /\ \A c \in DominantCurrencies : Overview(day, c).expense = expense
                    /\ \A n \in ReportMonths : CashFlow(day, n)[n].expense = expense
                    /\ SumFunction(parts) = expense
                    /\ Spent(Monthly(start, AllCategories), day) = expense
                    /\ Food \in DOMAIN parts => Spent(Monthly(start, Food), day) = parts[Food]
  BY DEF SpendingAgrees
<1>1. \A c \in DominantCurrencies : Overview(day, c).expense = expense
  BY DEF Overview, SumFlowsInRange
<1>2. ASSUME NEW n \in ReportMonths
      PROVE  CashFlow(day, n)[n].expense = expense
  <2>1. PICK m : m = MonthNumber(day)
    OBVIOUS
  <2>2. n \in 1..n /\ m \in Int /\ n \in Nat
    BY <2>1, ReportDates, Standing, ReportAssumption
  <2>3. LastMonths(n, day)[n] = [start |-> MonthStart(m + n - n), end |-> MonthStart(m + n - n + 1)]
    BY <2>1, <2>2, CashFlowMonths
  <2>4. m + n - n = m
    BY <2>2
  <2>5. LastMonths(n, day)[n] = month
    BY <2>1, <2>3, <2>4, ReportDates, MonthEnds DEF ThisMonth
  <2> QED
    BY <2>2, <2>5 DEF CashFlow, SumFlowsInRange
<1>3. CategoryRows("EXPENSE", month) = FlowRows("EXPENSE", month)
  BY DEF CategoryRows, FlowRows, Within
<1>4. SumFunction(parts) = expense
  BY <1>3, PartsAddUp
<1>5. ASSUME NEW c
      PROVE  Spent(Monthly(start, c), day) =
                AmountOf({i \in FlowRows("EXPENSE", month) : Covers(c, entries[i].category)})
  <2>1. PICK b : b = Monthly(start, c)
    OBVIOUS
  <2>2. b.period = "MONTHLY" /\ b.start = start /\ b.category = c
    BY <2>1 DEF Monthly
  <2>3. PeriodBounds(b.period, b.start, day) = month
    BY <2>2, MonthBudget DEF PeriodBounds
  <2>4. {i \in Booked : CountsFor(b, month, entries[i])} =
           {i \in FlowRows("EXPENSE", month) : Covers(c, entries[i].category)}
    BY <2>2 DEF CountsFor, FlowRows
  <2> QED
    BY <2>1, <2>3, <2>4 DEF Spent
<1>6. Spent(Monthly(start, AllCategories), day) = expense
  <2>1. {i \in FlowRows("EXPENSE", month) : Covers(AllCategories, entries[i].category)}
           = FlowRows("EXPENSE", month)
    BY DEF Covers
  <2> QED
    BY <1>5, <2>1
<1>7. ASSUME Food \in DOMAIN parts
      PROVE  Spent(Monthly(start, Food), day) = parts[Food]
  <2>1. Food # AllCategories
    BY BudgetAssumption
  <2>2. {i \in FlowRows("EXPENSE", month) : Covers(Food, entries[i].category)}
           = {i \in FlowRows("EXPENSE", month) : entries[i].category = Food}
    BY <2>1 DEF Covers
  <2>3. parts[Food] = AmountOf({i \in FlowRows("EXPENSE", month) : entries[i].category = Food})
    BY <1>3, <1>7 DEF SumByCategory
  <2> QED
    BY <1>5, <2>2, <2>3
<1> QED
  BY <1>1, <1>2, <1>4, <1>6, <1>7

(* For any accounts, transactions, days and lengths of the cash flow, and    *)
(* whatever is booked, erased and archived: the overview, the cash flow, the *)
(* category breakdown and the budgets show the same expense of a month, and  *)
(* the net worth is all that the live accounts were opened with and have had *)
(* booked since.                                                             *)
THEOREM FiguresAlwaysAgree == ReportSpec => []FiguresAgree
<1>1. ReportInv => FiguresAgree
  BY SpendingHolds, WorthAccounted DEF FiguresAgree
<1> QED
  BY <1>1, ReportStarts, ReportStays, PTL DEF ReportSpec

(* The cash flow of the last months has each transaction of theirs once, and *)
(* no other, from whatever day of a month it is asked for.                   *)
THEOREM CashFlowExact == ReportSpec => []CashFlowCountsOnce
<1>1. ReportInv => CashFlowCountsOnce
  BY RowsCounted DEF CashFlowCountsOnce
<1> QED
  BY <1>1, ReportStarts, ReportStays, PTL DEF ReportSpec

-----------------------------------------------------------------------------
(* The demo data.                                                            *)

(* The columns of the script's table that its sums and markers read.         *)
Reads(i, account, amount, monthsAgo) ==
    /\ Samples[i].account = account /\ Samples[i].amount = amount
    /\ Samples[i].monthsAgo = monthsAgo

(* The rows of the script, read one by one.                                  *)
LEMMA SampleTable ==
  /\ Reads(1, "checking", 520000, 1)
  /\ Reads(2, "checking", 520000, 0)
  /\ Reads(3, "checking", -180000, 1)
  /\ Reads(4, "checking", -180000, 0)
  /\ Reads(5, "card", -42350, 1)
  /\ Reads(6, "card", -38990, 0)
  /\ Reads(7, "card", -12500, 0)
  /\ Reads(8, "checking", -15800, 0)
  /\ Reads(9, "card", -9900, 0)
  /\ Reads(10, "card", -5499, 0)
<1>1. Reads(1, "checking", 520000, 1)
  <2>1. Samples[1] = Sample("checking", 520000, "Salary", 1)
    BY SMT DEF Samples
  <2> QED
    BY <2>1, SMT DEF Sample, Reads
<1>2. Reads(2, "checking", 520000, 0)
  <2>1. Samples[2] = Sample("checking", 520000, "Salary", 0)
    BY SMT DEF Samples
  <2> QED
    BY <2>1, SMT DEF Sample, Reads
<1>3. Reads(3, "checking", -180000, 1)
  <2>1. Samples[3] = Sample("checking", -180000, "Rent", 1)
    BY SMT DEF Samples
  <2> QED
    BY <2>1, SMT DEF Sample, Reads
<1>4. Reads(4, "checking", -180000, 0)
  <2>1. Samples[4] = Sample("checking", -180000, "Rent", 0)
    BY SMT DEF Samples
  <2> QED
    BY <2>1, SMT DEF Sample, Reads
<1>5. Reads(5, "card", -42350, 1)
  <2>1. Samples[5] = Sample("card", -42350, "Supermarket", 1)
    BY SMT DEF Samples
  <2> QED
    BY <2>1, SMT DEF Sample, Reads
<1>6. Reads(6, "card", -38990, 0)
  <2>1. Samples[6] = Sample("card", -38990, "Supermarket", 0)
    BY SMT DEF Samples
  <2> QED
    BY <2>1, SMT DEF Sample, Reads
<1>7. Reads(7, "card", -12500, 0)
  <2>1. Samples[7] = Sample("card", -12500, "Restaurant", 0)
    BY SMT DEF Samples
  <2> QED
    BY <2>1, SMT DEF Sample, Reads
<1>8. Reads(8, "checking", -15800, 0)
  <2>1. Samples[8] = Sample("checking", -15800, "Electricity", 0)
    BY SMT DEF Samples
  <2> QED
    BY <2>1, SMT DEF Sample, Reads
<1>9. Reads(9, "card", -9900, 0)
  <2>1. Samples[9] = Sample("card", -9900, "Fuel", 0)
    BY SMT DEF Samples
  <2> QED
    BY <2>1, SMT DEF Sample, Reads
<1>10. Reads(10, "card", -5499, 0)
  <2>1. Samples[10] = Sample("card", -5499, "Streaming", 0)
    BY SMT DEF Samples
  <2> QED
    BY <2>1, SMT DEF Sample, Reads
<1> QED
  BY <1>1, <1>2, <1>3, <1>4, <1>5, <1>6, <1>7, <1>8, <1>9, <1>10, SMT

LEMMA SampleTypes ==
  /\ DOMAIN Samples = 1..10 /\ Len(Samples) = 10
  /\ \A i \in 1..10 : Samples[i].account \in SeedAccounts /\ Samples[i].amount \in Int
<1>1. DOMAIN Samples = 1..10
  BY SMT DEF Samples
<1>2. Len(Samples) = 10
  BY SMT DEF Samples
<1>3. "checking" \in SeedAccounts /\ "card" \in SeedAccounts
  BY SMT DEF SeedAccounts, InitialBalance
<1>4. ASSUME NEW i \in 1..10
      PROVE  Samples[i].account \in SeedAccounts /\ Samples[i].amount \in Int
  BY <1>3, SampleTable, SMT DEF Reads
<1> QED
  BY <1>1, <1>2, <1>4

(* No two samples carry the same marker.                                     *)
LEMMA MarkersDiffer ==
  ASSUME NEW i \in 1..10, NEW j \in 1..10, Marker(Samples[i]) = Marker(Samples[j])
  PROVE  i = j
<1>1. Samples[i].amount = Samples[j].amount /\ Samples[i].monthsAgo = Samples[j].monthsAgo
  BY DEF Marker
<1> QED
  BY <1>1, SampleTable, SMT DEF Reads

(* What the script has made when it gets to a section.                       *)
Progress ==
    /\ seedStep >= 2 => "user" \in found
    /\ seedStep >= 3 => SeedCategories \subseteq found
    /\ seedStep >= 4 => MissingAccounts = {}
    /\ seedStep >= 5 => MissingSamples = {}
    /\ seedStep >= 6 => "budget" \in found
Complete ==
    /\ SeedCategories \cup Single \subseteq found
    /\ MissingAccounts = {} /\ MissingSamples = {}

SeedInv ==
    /\ SeedTypeOK /\ \A x \in Named : hidden[x] <= edits
    /\ seeded \in [DOMAIN seeded -> Int]
    /\ notes \in [DOMAIN notes -> DOMAIN seeded]
    /\ SeedBalances
    /\ Progress
    /\ finished => Complete

LEMMA BookedOnSamples ==
  ASSUME NEW row
  PROVE  /\ BookedOn(row) \in SUBSET (1..10) /\ IsFiniteSet(BookedOn(row))
         /\ \A S \in SUBSET (1..10) : IsFiniteSet(S) /\ IntsOn(SampleAmount, S)
         /\ \A i \in 1..10 : SampleAmount[i] = Samples[i].amount
<1>1. IsFiniteSet(1..10)
  <2>1. PICK n \in Int : n = 10
    OBVIOUS
  <2>2. IsFiniteSet(1..n)
    BY FS_Interval
  <2> QED
    BY <2>1, <2>2
<1>2. BookedOn(row) \in SUBSET (1..10)
  BY SampleTypes DEF BookedOn
<1>3. \A i \in 1..10 : SampleAmount[i] = Samples[i].amount
  BY SampleTypes DEF SampleAmount
<1> QED
  BY <1>1, <1>2, <1>3, SampleTypes, FS_Subset DEF IntsOn

LEMMA InitialInt ==
  ASSUME NEW a \in SeedAccounts
  PROVE  InitialBalance[a] \in Int /\ a \in Named
BY SMT DEF SeedAccounts, InitialBalance, Named

LEMMA AccountMade ==
  ASSUME SeedInv, NEW a \in MissingAccounts, NEW balance, balance = InitialBalance[a],
         seeded' = With(seeded, SeedRow(a), balance), UNCHANGED <<hidden, notes, edits>>
  PROVE  /\ DOMAIN seeded' = DOMAIN seeded \cup {SeedRow(a)}
         /\ SeedRow(a) \in SeedAccounts \X (0..MaxSeedEdits)
         /\ seeded' \in [DOMAIN seeded' -> Int]
         /\ SeedBalances'
<1>1. /\ a \in SeedAccounts /\ SeedRow(a) \notin DOMAIN seeded /\ a \in Named /\ balance \in Int
  BY InitialInt DEF MissingAccounts
<1>2. PICK row : row = SeedRow(a)
  OBVIOUS
<1>3. row = <<a, hidden[a]>> /\ row[1] = a
  BY <1>2 DEF SeedRow
<1>4. row \in SeedAccounts \X (0..MaxSeedEdits)
  BY <1>1, <1>3 DEF SeedInv, SeedTypeOK
<1>5. /\ DOMAIN seeded' = DOMAIN seeded \cup {row} /\ seeded'[row] = balance
      /\ \A y \in DOMAIN seeded : y # row => seeded'[y] = seeded[y]
      /\ seeded' = [y \in DOMAIN seeded \cup {row} |-> seeded'[y]]
  BY <1>2 DEF With
<1>6. \A y \in DOMAIN seeded' : seeded'[y] \in Int
  BY <1>1, <1>5 DEF SeedInv
<1>7. ASSUME NEW y \in DOMAIN seeded'
      PROVE  seeded'[y] = InitialBalance[y[1]] + SumFunctionOnSet(SampleAmount, BookedOn(y)')
  <2>1. BookedOn(y)' = BookedOn(y)
    BY DEF BookedOn
  <2>2. CASE y = row
    <3>1. BookedOn(y) = {}
      BY <1>1, <1>2, <2>2 DEF SeedInv, BookedOn
    <3>2. SumFunctionOnSet(SampleAmount, {}) = 0
      BY SumOfNone
    <3> QED
      BY <1>1, <1>3, <1>5, <2>1, <2>2, <3>1, <3>2
  <2>3. CASE y # row
    BY <1>5, <2>1, <2>3 DEF SeedInv, SeedBalances
  <2> QED
    BY <2>2, <2>3
<1>8. SeedBalances'
  BY <1>7 DEF SeedBalances
<1> QED
  BY <1>2, <1>4, <1>5, <1>6, <1>8

(* A sample that is booked, or deleted, moves the balance of its row by its  *)
(* amount.                                                                   *)
LEMMA SampleBooked ==
  ASSUME SeedInv, NEW i \in MissingSamples, NEW row \in DOMAIN seeded,
         notes' = With(notes, Marker(Samples[i]), row),
         seeded' = [seeded EXCEPT ![row] = @ + Samples[i].amount]
  PROVE  /\ DOMAIN notes' = DOMAIN notes \cup {Marker(Samples[i])}
         /\ DOMAIN seeded' = DOMAIN seeded
         /\ notes' \in [DOMAIN notes' -> DOMAIN seeded']
         /\ seeded' \in [DOMAIN seeded' -> Int]
         /\ SeedBalances'
<1>1. i \in 1..10 /\ Marker(Samples[i]) \notin DOMAIN notes /\ Samples[i].amount \in Int
  BY SampleTypes DEF MissingSamples
<1>2. PICK m : m = Marker(Samples[i])
  OBVIOUS
<1>3. /\ DOMAIN notes' = DOMAIN notes \cup {m} /\ notes'[m] = row
      /\ \A y \in DOMAIN notes : y # m => notes'[y] = notes[y]
      /\ notes' = [y \in DOMAIN notes \cup {m} |-> notes'[y]]
  BY <1>2 DEF With
<1>4. /\ seeded \in [DOMAIN seeded -> Int] /\ notes \in [DOMAIN notes -> DOMAIN seeded]
  BY DEF SeedInv
<1>5. /\ DOMAIN seeded' = DOMAIN seeded /\ seeded' \in [DOMAIN seeded -> Int]
      /\ seeded'[row] = seeded[row] + Samples[i].amount
      /\ \A y \in DOMAIN seeded : y # row => seeded'[y] = seeded[y]
  BY <1>1, <1>4
<1>6. notes' \in [DOMAIN notes' -> DOMAIN seeded']
  BY <1>3, <1>4, <1>5
<1>7. ASSUME NEW y \in DOMAIN seeded
      PROVE  seeded'[y] = InitialBalance[y[1]] + SumFunctionOnSet(SampleAmount, BookedOn(y)')
  <2>1. seeded[y] = InitialBalance[y[1]] + SumFunctionOnSet(SampleAmount, BookedOn(y))
    BY DEF SeedInv, SeedBalances
  <2>2. \A j \in 1..10 : Marker(Samples[j]) = m => j = i
    BY <1>1, <1>2, MarkersDiffer
  <2>3. CASE y = row
    <3>1. BookedOn(y)' = BookedOn(y) \cup {i} /\ i \notin BookedOn(y)
      BY <1>1, <1>2, <1>3, <2>2, <2>3, SampleTypes DEF BookedOn
    <3>2. PICK S \in SUBSET (1..10) : S = BookedOn(y)
      BY BookedOnSamples
    <3>3. /\ SumFunctionOnSet(SampleAmount, S \cup {i}) = SampleAmount[i] + SumFunctionOnSet(SampleAmount, S)
          /\ SumFunctionOnSet(SampleAmount, S) \in Int
      <4>1. S \cup {i} \in SUBSET (1..10)
        BY <1>1
      <4>2. IsFiniteSet(S) /\ IntsOn(SampleAmount, S \cup {i}) /\ i \notin S
        BY <3>1, <3>2, <4>1, BookedOnSamples
      <4> QED
        BY <4>2, SumWith
    <3>4. y \in SeedAccounts \X (0..MaxSeedEdits)
      BY DEF SeedInv, SeedTypeOK
    <3>5. y[1] \in SeedAccounts
      BY <3>4
    <3>6. InitialBalance[y[1]] \in Int
      BY <3>5, InitialInt
    <3>7. SampleAmount[i] = Samples[i].amount
      BY <1>1, BookedOnSamples
    <3>8. PICK b, c, d, e : /\ b = InitialBalance[y[1]] /\ c = SumFunctionOnSet(SampleAmount, S)
                            /\ d = SampleAmount[i] /\ e = SumFunctionOnSet(SampleAmount, S \cup {i})
      OBVIOUS
    <3>9. seeded'[y] = (b + c) + d /\ e = d + c
      BY <1>5, <2>1, <2>3, <3>2, <3>3, <3>7, <3>8
    <3>10. seeded'[y] = b + e
      BY <1>1, <3>3, <3>6, <3>7, <3>8, <3>9
    <3> QED
      BY <3>1, <3>2, <3>8, <3>10
  <2>4. CASE y # row
    <3>1. BookedOn(y)' = BookedOn(y)
      BY <1>1, <1>2, <1>3, <2>2, <2>4, SampleTypes DEF BookedOn
    <3> QED
      BY <1>5, <2>1, <2>4, <3>1
  <2> QED
    BY <2>3, <2>4
<1>8. SeedBalances'
  BY <1>5, <1>7 DEF SeedBalances
<1> QED
  BY <1>2, <1>3, <1>5, <1>6, <1>8

LEMMA SampleDeleted ==
  ASSUME SeedInv, NEW i \in 1..10, NEW m, m = Marker(Samples[i]), m \in DOMAIN notes,
         notes' = [n \in DOMAIN notes \ {m} |-> notes[n]],
         seeded' = [seeded EXCEPT ![notes[m]] = @ - Samples[i].amount]
  PROVE  /\ DOMAIN notes' = DOMAIN notes \ {m}
         /\ DOMAIN seeded' = DOMAIN seeded
         /\ notes' \in [DOMAIN notes' -> DOMAIN seeded']
         /\ seeded' \in [DOMAIN seeded' -> Int]
         /\ SeedBalances'
<1>1. Samples[i].amount \in Int
  BY SampleTypes
<1>2. PICK row : row = notes[m]
  OBVIOUS
<1>3. /\ seeded \in [DOMAIN seeded -> Int] /\ notes \in [DOMAIN notes -> DOMAIN seeded]
      /\ row \in DOMAIN seeded
  BY <1>2 DEF SeedInv
<1>4. /\ DOMAIN notes' = DOMAIN notes \ {m}
      /\ \A y \in DOMAIN notes' : notes'[y] = notes[y]
      /\ notes' \in [DOMAIN notes' -> DOMAIN seeded]
  BY <1>3
<1>5. /\ DOMAIN seeded' = DOMAIN seeded /\ seeded' \in [DOMAIN seeded -> Int]
      /\ seeded'[row] = seeded[row] - Samples[i].amount
      /\ \A y \in DOMAIN seeded : y # row => seeded'[y] = seeded[y]
  BY <1>1, <1>2, <1>3
<1>7. ASSUME NEW y \in DOMAIN seeded
      PROVE  seeded'[y] = InitialBalance[y[1]] + SumFunctionOnSet(SampleAmount, BookedOn(y)')
  <2>1. seeded[y] = InitialBalance[y[1]] + SumFunctionOnSet(SampleAmount, BookedOn(y))
    BY DEF SeedInv, SeedBalances
  <2>2. \A j \in 1..10 : Marker(Samples[j]) = m => j = i
    BY MarkersDiffer
  <2>3. CASE y = row
    <3>1. BookedOn(y)' = BookedOn(y) \ {i} /\ i \in BookedOn(y)
      BY <1>2, <1>4, <2>2, <2>3, SampleTypes DEF BookedOn
    <3>2. PICK S \in SUBSET (1..10) : S = BookedOn(y)
      BY BookedOnSamples
    <3>3. /\ SumFunctionOnSet(SampleAmount, S) = SampleAmount[i] + SumFunctionOnSet(SampleAmount, S \ {i})
          /\ SumFunctionOnSet(SampleAmount, S \ {i}) \in Int
      <4>1. IsFiniteSet(S) /\ IntsOn(SampleAmount, S) /\ i \in S
        BY <3>1, <3>2, BookedOnSamples
      <4> QED
        BY <4>1, SumWithout
    <3>4. y \in SeedAccounts \X (0..MaxSeedEdits)
      BY DEF SeedInv, SeedTypeOK
    <3>5. y[1] \in SeedAccounts
      BY <3>4
    <3>6. InitialBalance[y[1]] \in Int
      BY <3>5, InitialInt
    <3>7. SampleAmount[i] = Samples[i].amount
      BY BookedOnSamples
    <3>8. PICK b, c, d, e : /\ b = InitialBalance[y[1]] /\ c = SumFunctionOnSet(SampleAmount, S)
                            /\ d = SampleAmount[i] /\ e = SumFunctionOnSet(SampleAmount, S \ {i})
      OBVIOUS
    <3>9. seeded'[y] = (b + c) - d /\ c = d + e
      BY <1>5, <2>1, <2>3, <3>2, <3>3, <3>7, <3>8
    <3>10. seeded'[y] = b + e
      BY <1>1, <3>3, <3>6, <3>7, <3>8, <3>9
    <3> QED
      BY <3>1, <3>2, <3>8, <3>10
  <2>4. CASE y # row
    <3>1. BookedOn(y)' = BookedOn(y)
      BY <1>2, <1>4, <2>2, <2>4, SampleTypes DEF BookedOn
    <3> QED
      BY <1>5, <2>1, <2>4, <3>1
  <2> QED
    BY <2>3, <2>4
<1>8. SeedBalances'
  BY <1>5, <1>7 DEF SeedBalances
<1> QED
  BY <1>4, <1>5, <1>8

LEMMA BalancesStay == SeedInv /\ UNCHANGED <<seeded, notes>> => SeedBalances'
BY DEF SeedInv, SeedBalances, BookedOn

LEMMA MissingStay ==
  /\ UNCHANGED <<seeded, hidden>> => MissingAccounts' = MissingAccounts
  /\ UNCHANGED notes => MissingSamples' = MissingSamples
BY DEF MissingAccounts, MissingSamples, SeedRow

LEMMA FirstMissing ==
  ASSUME MissingSamples # {}
  PROVE  Min(MissingSamples) \in MissingSamples
<1>1. MissingSamples \in SUBSET Nat
  BY SampleTypes DEF MissingSamples
<1>2. \E x \in MissingSamples : \A y \in MissingSamples : ~(y < x)
  BY <1>1, LeastOne
<1>3. \E x \in MissingSamples : \A y \in MissingSamples : x <= y
  BY <1>1, <1>2
<1> QED
  BY <1>3 DEF Min

LEMMA SeedStays == SeedInv /\ [SeedNext]_seedVars => SeedInv'
<1> SUFFICES ASSUME SeedInv, [SeedNext]_seedVars
             PROVE  SeedInv'
  OBVIOUS
<1>0. UNCHANGED <<seeded, notes>> => SeedBalances'
  BY BalancesStay
<1>1. CASE RunSeed \/ UpsertUser \/ SeedBudget \/ SeedGoal \/ SeedDies
  <2>1. UNCHANGED <<seeded, notes, hidden, edits>> /\ found \subseteq found' /\ seedStep' \in 0..6
    BY <1>1 DEF RunSeed, UpsertUser, SeedBudget, SeedGoal, SeedDies, Goes, Then
  <2>2. SeedTypeOK' /\ (\A x \in Named : hidden[x] <= edits)'
    BY <1>1, <2>1 DEF SeedInv, SeedTypeOK, Single, RunSeed, UpsertUser, SeedBudget, SeedGoal, SeedDies
  <2>3. /\ seeded' \in [DOMAIN seeded' -> Int] /\ notes' \in [DOMAIN notes' -> DOMAIN seeded']
        /\ SeedBalances'
    BY <1>0, <2>1 DEF SeedInv
  <2>4. MissingAccounts' = MissingAccounts /\ MissingSamples' = MissingSamples
    BY <2>1, MissingStay
  <2>5. Progress' /\ (finished => Complete)'
    BY <1>1, <2>1, <2>4 DEF SeedInv, SeedTypeOK, Progress, Complete, Single,
       RunSeed, UpsertUser, SeedBudget, SeedGoal, SeedDies, Goes, Then
  <2> QED
    BY <2>2, <2>3, <2>5 DEF SeedInv
<1>2. CASE SeedCategory
  <2>1. PICK c : c = CHOOSE d \in SeedCategories : d \notin found
    OBVIOUS
  <2>2. /\ UNCHANGED <<seeded, notes, hidden, edits, finished>>
        /\ found \subseteq found' /\ found' \subseteq SeedCategories \cup found
        /\ seedStep = 2 /\ seedStep' \in 2..3 /\ (seedStep' = 3 => SeedCategories \subseteq found')
    <3>1. CASE SeedCategories \subseteq found
      BY <1>2, <3>1 DEF SeedCategory, Goes, Then
    <3>2. CASE ~(SeedCategories \subseteq found)
      <4>1. c \in SeedCategories
        BY <2>1, <3>2
      <4>2. found' = found \cup {c} /\ seedStep' = 2
        BY <1>2, <2>1, <3>2 DEF SeedCategory, Then
      <4> QED
        BY <1>2, <4>1, <4>2 DEF SeedCategory, Goes
    <3> QED
      BY <3>1, <3>2
  <2>3. SeedTypeOK' /\ (\A x \in Named : hidden[x] <= edits)'
    BY <2>2 DEF SeedInv, SeedTypeOK
  <2>4. /\ seeded' \in [DOMAIN seeded' -> Int] /\ notes' \in [DOMAIN notes' -> DOMAIN seeded']
        /\ SeedBalances'
    BY <1>0, <2>2 DEF SeedInv
  <2>5. MissingAccounts' = MissingAccounts /\ MissingSamples' = MissingSamples
    BY <2>2, MissingStay
  <2>6. Progress' /\ (finished => Complete)'
    BY <2>2, <2>5 DEF SeedInv, Progress, Complete
  <2> QED
    BY <2>3, <2>4, <2>6 DEF SeedInv
<1>3. CASE SeedAccount
  <2>1. UNCHANGED <<found, hidden, notes, edits, finished>> /\ seedStep = 3
    BY <1>3 DEF SeedAccount, Goes
  <2>2. CASE MissingAccounts = {}
    <3>1. UNCHANGED seeded /\ seedStep' = 4
      BY <1>3, <2>2 DEF SeedAccount, Then
    <3>2. MissingAccounts' = MissingAccounts /\ MissingSamples' = MissingSamples
      BY <2>1, <3>1, MissingStay
    <3>3. SeedTypeOK' /\ (\A x \in Named : hidden[x] <= edits)'
      BY <2>1, <3>1 DEF SeedInv, SeedTypeOK
    <3>4. Progress' /\ (finished => Complete)'
      BY <2>1, <2>2, <3>1, <3>2 DEF SeedInv, Progress, Complete
    <3> QED
      BY <1>0, <2>1, <3>1, <3>3, <3>4 DEF SeedInv
  <2>3. CASE MissingAccounts # {}
    <3>1. PICK a : a = CHOOSE b \in MissingAccounts : TRUE
      OBVIOUS
    <3>2. a \in MissingAccounts
      BY <2>3, <3>1
    <3>3. seeded' = With(seeded, SeedRow(a), InitialBalance[a]) /\ seedStep' = 3
      BY <1>3, <2>3, <3>1 DEF SeedAccount, Then, OpeningBalance
    <3>4. /\ DOMAIN seeded' = DOMAIN seeded \cup {SeedRow(a)}
          /\ SeedRow(a) \in SeedAccounts \X (0..MaxSeedEdits)
          /\ seeded' \in [DOMAIN seeded' -> Int]
          /\ SeedBalances'
      BY <2>1, <3>2, <3>3, AccountMade
    <3>5. SeedTypeOK' /\ (\A x \in Named : hidden[x] <= edits)'
      BY <2>1, <3>3, <3>4 DEF SeedInv, SeedTypeOK
    <3>6. notes' \in [DOMAIN notes' -> DOMAIN seeded']
      BY <2>1, <3>4 DEF SeedInv
    <3>7. ~finished
      BY <2>3 DEF SeedInv, Complete
    <3>8. Progress' /\ (finished => Complete)'
      BY <2>1, <3>3, <3>7 DEF SeedInv, Progress
    <3> QED
      BY <3>4, <3>5, <3>6, <3>8 DEF SeedInv
  <2> QED
    BY <2>2, <2>3
<1>4. CASE BookSample
  <2>1. UNCHANGED <<found, hidden, edits, finished>> /\ seedStep = 4 /\ MissingAccounts = {}
    BY <1>4 DEF BookSample, Goes, SeedInv, Progress
  <2>2. CASE MissingSamples = {}
    <3>1. UNCHANGED <<seeded, notes>> /\ seedStep' = 5
      BY <1>4, <2>2 DEF BookSample, Then
    <3>2. MissingAccounts' = MissingAccounts /\ MissingSamples' = MissingSamples
      BY <2>1, <3>1, MissingStay
    <3>3. SeedTypeOK' /\ (\A x \in Named : hidden[x] <= edits)'
      BY <2>1, <3>1 DEF SeedInv, SeedTypeOK
    <3>4. Progress' /\ (finished => Complete)'
      BY <2>1, <2>2, <3>1, <3>2 DEF SeedInv, Progress, Complete
    <3> QED
      BY <1>0, <2>1, <3>1, <3>3, <3>4 DEF SeedInv
  <2>3. CASE MissingSamples # {}
    <3>1. PICK i \in MissingSamples : i = Min(MissingSamples)
      BY <2>3, FirstMissing
    <3>2. i \in 1..10 /\ Samples[i].account \in SeedAccounts
      BY SampleTypes DEF MissingSamples
    <3>3. PICK row : row = SeedRow(Samples[i].account)
      OBVIOUS
    <3>4. row \in DOMAIN seeded
      BY <2>1, <3>2, <3>3 DEF MissingAccounts
    <3>5. /\ notes' = With(notes, Marker(Samples[i]), row)
          /\ seeded' = [seeded EXCEPT ![row] = @ + Samples[i].amount]
          /\ seedStep' = 4
      BY <1>4, <2>3, <3>1, <3>3 DEF BookSample, Then
    <3>6. /\ DOMAIN notes' = DOMAIN notes \cup {Marker(Samples[i])}
          /\ DOMAIN seeded' = DOMAIN seeded
          /\ notes' \in [DOMAIN notes' -> DOMAIN seeded']
          /\ seeded' \in [DOMAIN seeded' -> Int]
          /\ SeedBalances'
      BY <3>4, <3>5, SampleBooked
    <3>7. Marker(Samples[i]) \in Markers
      BY <3>2, SampleTypes DEF Markers
    <3>8. SeedTypeOK' /\ (\A x \in Named : hidden[x] <= edits)'
      BY <2>1, <3>5, <3>6, <3>7 DEF SeedInv, SeedTypeOK
    <3>9. ~finished
      BY <2>3 DEF SeedInv, Complete
    <3>10. MissingAccounts' = {}
      BY <2>1, <3>6 DEF MissingAccounts, SeedRow
    <3>11. Progress' /\ (finished => Complete)'
      BY <2>1, <3>5, <3>9, <3>10 DEF SeedInv, Progress
    <3> QED
      BY <3>6, <3>8, <3>11 DEF SeedInv
  <2> QED
    BY <2>2, <2>3
<1>5. ASSUME NEW x \in SeedCategories \cup SeedAccounts \cup {"goal"}, HideRow(x)
      PROVE  SeedInv'
  <2>1. /\ UNCHANGED <<seedStep, seeded, notes>> /\ seedStep = 0 /\ finished' = FALSE
        /\ edits < MaxSeedEdits /\ edits' = edits + 1 /\ found' \subseteq found
        /\ hidden' = [hidden EXCEPT ![x] = @ + 1]
    BY <1>5 DEF HideRow, Edit, Goes
  <2>2. x \in Named
    BY DEF Named, Single
  <2>3. edits \in Nat /\ MaxSeedEdits \in Nat /\ \A y \in Named : hidden[y] \in Nat /\ hidden[y] <= edits
    BY SeedAssumption DEF SeedInv, SeedTypeOK
  <2>4. \A y \in Named : hidden'[y] \in 0..MaxSeedEdits /\ hidden'[y] <= edits'
    BY <2>1, <2>2, <2>3, SeedAssumption DEF SeedInv, SeedTypeOK
  <2>5. hidden' \in [Named -> 0..MaxSeedEdits] /\ edits' \in 0..MaxSeedEdits
    <3>1. edits' \in 0..MaxSeedEdits
      BY <2>1, <2>3
    <3>2. hidden \in [Named -> 0..MaxSeedEdits]
      BY DEF SeedInv, SeedTypeOK
    <3>3. hidden' = [y \in Named |-> hidden'[y]]
      BY <2>1, <3>2
    <3> QED
      BY <2>4, <3>1, <3>3
  <2>6. SeedTypeOK'
    BY <2>1, <2>5 DEF SeedInv, SeedTypeOK
  <2>7. Progress' /\ (finished => Complete)'
    BY <2>1 DEF Progress
  <2> QED
    BY <1>0, <2>1, <2>4, <2>6, <2>7 DEF SeedInv
<1>6. ASSUME NEW i \in DOMAIN Samples, DeleteSample(i)
      PROVE  SeedInv'
  <2>1. PICK m : m = Marker(Samples[i])
    OBVIOUS
  <2>2. /\ UNCHANGED <<seedStep, found, hidden>> /\ seedStep = 0 /\ finished' = FALSE
        /\ edits < MaxSeedEdits /\ edits' = edits + 1 /\ m \in DOMAIN notes
        /\ notes' = [n \in DOMAIN notes \ {m} |-> notes[n]]
        /\ seeded' = [seeded EXCEPT ![notes[m]] = @ - Samples[i].amount]
    BY <1>6, <2>1 DEF DeleteSample, Edit, Goes
  <2>3. i \in 1..10
    BY SampleTypes
  <2>4. /\ DOMAIN notes' = DOMAIN notes \ {m}
        /\ DOMAIN seeded' = DOMAIN seeded
        /\ notes' \in [DOMAIN notes' -> DOMAIN seeded']
        /\ seeded' \in [DOMAIN seeded' -> Int]
        /\ SeedBalances'
    BY <2>1, <2>2, <2>3, SampleDeleted
  <2>5. edits \in Nat /\ MaxSeedEdits \in Nat /\ \A y \in Named : hidden[y] \in Nat /\ hidden[y] <= edits
    BY SeedAssumption DEF SeedInv, SeedTypeOK
  <2>6. (\A y \in Named : hidden[y] <= edits)' /\ edits' \in 0..MaxSeedEdits
    BY <2>2, <2>5
  <2>7. SeedTypeOK'
    BY <2>2, <2>4, <2>6 DEF SeedInv, SeedTypeOK
  <2>8. Progress' /\ (finished => Complete)'
    BY <2>2 DEF Progress
  <2> QED
    BY <2>4, <2>6, <2>7, <2>8 DEF SeedInv
<1>7. CASE UNCHANGED seedVars
  <2>1. UNCHANGED <<seedStep, found, hidden, seeded, notes, edits, finished>>
    BY <1>7 DEF seedVars
  <2>2. MissingAccounts' = MissingAccounts /\ MissingSamples' = MissingSamples
    BY <2>1, MissingStay
  <2>3. SeedTypeOK' /\ Progress' /\ (finished => Complete)'
    BY <2>1, <2>2 DEF SeedInv, SeedTypeOK, Progress, Complete
  <2> QED
    BY <1>0, <2>1, <2>3 DEF SeedInv
<1> QED
  BY <1>1, <1>2, <1>3, <1>4, <1>5, <1>6, <1>7 DEF SeedNext

LEMMA SeedStarts == SeedInit => SeedInv
<1> SUFFICES ASSUME SeedInit
             PROVE  SeedInv
  OBVIOUS
<1>1. /\ seedStep = 0 /\ found = {} /\ hidden = [x \in Named |-> 0] /\ edits = 0 /\ finished = FALSE
      /\ DOMAIN seeded = {} /\ DOMAIN notes = {}
      /\ seeded \in [DOMAIN seeded -> Int] /\ notes \in [DOMAIN notes -> DOMAIN seeded]
  BY DEF SeedInit
<1>2. hidden \in [Named -> 0..MaxSeedEdits] /\ \A x \in Named : hidden[x] = 0
  BY <1>1, SeedAssumption
<1>3. SeedTypeOK
  <2>0. 0 \in 0..6 /\ edits \in 0..MaxSeedEdits
    BY <1>1, SeedAssumption
  <2>1. finished \in BOOLEAN
    BY <1>1, Zenon
  <2>2. /\ found \subseteq SeedCategories \cup Single
        /\ DOMAIN seeded \subseteq SeedAccounts \X (0..MaxSeedEdits) /\ DOMAIN notes \subseteq Markers
        /\ \A m \in DOMAIN notes : notes[m] \in DOMAIN seeded
    BY <1>1
  <2> QED
    BY <1>1, <1>2, <2>0, <2>1, <2>2 DEF SeedTypeOK
<1> QED
  BY <1>1, <1>2, <1>3 DEF SeedInv, SeedBalances, Progress

(* With none missing, as many are booked as the table has.                   *)
LEMMA AllBooked ==
  ASSUME SeedInv, MissingSamples = {}
  PROVE  Cardinality(DOMAIN notes) = Len(Samples)
<1>1. DOMAIN notes = Markers
  BY SampleTypes DEF SeedInv, SeedTypeOK, Markers, MissingSamples
<1> DEFINE f == [i \in 1..10 |-> Marker(Samples[i])]
<1>2. f \in [1..10 -> Markers]
  BY SampleTypes DEF Markers
<1>3. \A m \in Markers : \E i \in 1..10 : f[i] = m
  BY SampleTypes DEF Markers
<1>4. \A i, j \in 1..10 : f[i] = f[j] => i = j
  BY MarkersDiffer
<1>5. PICK n \in Nat : n = 10
  OBVIOUS
<1>6. ExistsBijection(1..n, Markers)
  <2> HIDE DEF f
  <2>1. f \in Bijection(1..n, Markers)
    BY <1>2, <1>3, <1>4, <1>5 DEF Bijection, Injection, Surjection, IsInjective
  <2> QED
    BY <2>1 DEF ExistsBijection
<1>7. Cardinality(Markers) = n
  BY <1>6, FS_CountingElements
<1> QED
  BY <1>1, <1>5, <1>7, SampleTypes

(* The demo data keeps its types: a script that dies anywhere never leaves a *)
(* sample booked on a row that is not there.                                 *)
THEOREM SeedTypeCorrect == SeedSpec => []SeedTypeOK
<1>1. SeedInv => SeedTypeOK
  BY DEF SeedInv
<1> QED
  BY <1>1, SeedStarts, SeedStays, PTL DEF SeedSpec

(* Wherever the script dies and however often it is run again, over any      *)
(* number of edits between its runs: each account's balance is its initial   *)
(* balance and the samples booked on it, and a run that ends has made all.   *)
THEOREM SeedStaysIntact == SeedSpec => []SeedIntact
<1>1. ASSUME SeedInv
      PROVE  SeedIntact
  <2>1. finished => /\ SeedCategories \cup Single \subseteq found
                    /\ MissingAccounts = {}
                    /\ Cardinality(DOMAIN notes) = Len(Samples)
    BY <1>1, AllBooked DEF SeedInv, Complete
  <2> QED
    BY <1>1, <2>1 DEF SeedInv, SeedIntact, SeedComplete
<1> QED
  BY <1>1, SeedStarts, SeedStays, PTL DEF SeedSpec

(* "Idempotent database seed": once a run has ended, runs of the script      *)
(* change nothing until the user does.                                       *)
THEOREM SeedRunsAgain == SeedSpec => SeedIdempotent
<1>1. ASSUME SeedInv, [SeedNext]_seedVars, finished, finished'
      PROVE  UNCHANGED <<found, seeded, notes>>
  <2>1. SeedCategories \cup Single \subseteq found /\ MissingAccounts = {} /\ MissingSamples = {}
    BY <1>1 DEF SeedInv, Complete
  <2>2. CASE RunSeed \/ UpsertUser \/ SeedBudget \/ SeedGoal \/ SeedDies
    BY <2>1, <2>2 DEF RunSeed, UpsertUser, SeedBudget, SeedGoal, SeedDies, Single
  <2>3. CASE SeedCategory
    BY <2>1, <2>3 DEF SeedCategory
  <2>4. CASE SeedAccount
    BY <2>1, <2>4 DEF SeedAccount
  <2>5. CASE BookSample
    BY <2>1, <2>5 DEF BookSample
  <2>6. CASE UNCHANGED seedVars
    BY <2>6 DEF seedVars
  <2>7. \A x : ~HideRow(x) /\ ~DeleteSample(x)
    BY <1>1 DEF HideRow, DeleteSample, Edit
  <2> QED
    BY <1>1, <2>2, <2>3, <2>4, <2>5, <2>6, <2>7 DEF SeedNext
<1>2. SeedInv /\ [SeedNext]_seedVars =>
         [finished /\ finished' => UNCHANGED <<found, seeded, notes>>]_seedVars
  BY <1>1
<1> QED
  BY <1>2, SeedStarts, SeedStays, PTL DEF SeedSpec, SeedIdempotent
=============================================================================
