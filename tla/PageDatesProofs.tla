--------------------------- MODULE PageDatesProofs ---------------------------
(* That the workdays DateUtil finds are the neighbours of the day, for      *)
(* every day of every year, from what adding days does to the day number;   *)
(* and what the date helpers of the pages return on each of these days: each *)
(* moves its Date within a month or to a neighbouring one, and what is left *)
(* of it then is written down field by field.                               *)
EXTENDS PageDates, TLAPS


Fields == [year : Int, month : 0 .. 11, day : 1 .. 31,
           hour : Int, minute : Int, second : Int, milli : Int]

CalendarDate(d) == d \in Fields /\ d.day <= DaysIn(d.year, d.month)

-----------------------------------------------------------------------------
(* Months and years join up.                                                *)

LEMMA MonthTable ==
  \A m \in 0 .. 11 :
    /\ MonthLengths[m + 1] \in 28 .. 31
    /\ DaysBeforeMonth[m + 1] \in Nat
    /\ m < 11 => DaysBeforeMonth[m + 2] = DaysBeforeMonth[m + 1] + MonthLengths[m + 1]
    /\ m = 0 => DaysBeforeMonth[m + 1] = 0
    /\ m = 11 => DaysBeforeMonth[m + 1] = 334 /\ MonthLengths[m + 1] = 31
<1> TAKE m \in 0 .. 11
<1>1. m = 0 \/ m = 1 \/ m = 2 \/ m = 3 \/ m = 4 \/ m = 5
        \/ m = 6 \/ m = 7 \/ m = 8 \/ m = 9 \/ m = 10 \/ m = 11
  OBVIOUS
<1> QED
  BY <1>1 DEF MonthLengths, DaysBeforeMonth

LEMMA LeapYears ==
  \A y \in Int :
    y \div 4 - y \div 100 + y \div 400
      = (y - 1) \div 4 - (y - 1) \div 100 + (y - 1) \div 400 + (IF IsLeap(y) THEN 1 ELSE 0)
<1> TAKE y \in Int
<1>1. y \div 4 = (y - 1) \div 4 + (IF y % 4 = 0 THEN 1 ELSE 0)
  OBVIOUS
<1>2. y \div 100 = (y - 1) \div 100 + (IF y % 100 = 0 THEN 1 ELSE 0)
  OBVIOUS
<1>3. y \div 400 = (y - 1) \div 400 + (IF y % 400 = 0 THEN 1 ELSE 0)
  OBVIOUS
<1>4. (y % 100 = 0 => y % 4 = 0) /\ (y % 400 = 0 => y % 100 = 0)
  OBVIOUS
<1> QED
  BY <1>1, <1>2, <1>3, <1>4 DEF IsLeap

LEMMA DaysInRange ==
  ASSUME NEW y \in Int, NEW m \in 0 .. 11 PROVE DaysIn(y, m) \in 28 .. 31
<1>1. m = 1 => MonthLengths[m + 1] = 28
  BY DEF MonthLengths
<1> QED
  BY <1>1, MonthTable DEF DaysIn

(* The days of the years before y.                                          *)
YearDays(y) == 365 * (y - 1) + (y - 1) \div 4 - (y - 1) \div 100 + (y - 1) \div 400

(* The days of the months before m.                                         *)
MonthDays(y, m) == DaysBeforeMonth[m + 1] + (IF m > 1 /\ IsLeap(y) THEN 1 ELSE 0)

LEMMA DayNumberParts ==
  ASSUME NEW d \in Fields
  PROVE  /\ DayNumber(d) = YearDays(d.year) + MonthDays(d.year, d.month) + d.day
         /\ YearDays(d.year) \in Int /\ MonthDays(d.year, d.month) \in Nat
         /\ DayNumber(d) \in Int
<1>1. DaysBeforeMonth[d.month + 1] \in Nat /\ d.year \in Int /\ d.day \in Int
  BY MonthTable DEF Fields
<1> QED
  BY <1>1 DEF DayNumber, YearDays, MonthDays

LEMMA NextMonthFollows ==
  ASSUME NEW y \in Int, NEW m \in 0 .. 10
  PROVE  MonthDays(y, m + 1) = MonthDays(y, m) + DaysIn(y, m)
<1>1. DaysBeforeMonth[m + 2] = DaysBeforeMonth[m + 1] + MonthLengths[m + 1]
      /\ DaysBeforeMonth[m + 1] \in Nat /\ MonthLengths[m + 1] \in Nat
  BY MonthTable
<1>2. DaysBeforeMonth[(m + 1) + 1] = DaysBeforeMonth[m + 2]
  OBVIOUS
<1> QED
  BY <1>1, <1>2 DEF MonthDays, DaysIn

LEMMA NextYearFollows ==
  ASSUME NEW y \in Int
  PROVE  /\ YearDays(y + 1) = YearDays(y) + MonthDays(y, 11) + 31
         /\ MonthDays(y + 1, 0) = 0 /\ DaysIn(y, 11) = 31
<1>1. YearDays(y + 1) = 365 * y + (y \div 4 - y \div 100 + y \div 400)
  BY DEF YearDays
<1>2. YearDays(y + 1) = YearDays(y) + 365 + (IF IsLeap(y) THEN 1 ELSE 0)
  BY <1>1, LeapYears DEF YearDays
<1>3. MonthDays(y, 11) = 334 + (IF IsLeap(y) THEN 1 ELSE 0)
  BY MonthTable DEF MonthDays
<1>4. MonthDays(y + 1, 0) = 0 /\ DaysIn(y, 11) = 31
  BY MonthTable DEF MonthDays, DaysIn
<1>5. YearDays(y) \in Int
  BY DEF YearDays
<1> QED
  BY <1>2, <1>3, <1>4, <1>5

-----------------------------------------------------------------------------
(* Adding days                                                              *)

(* The first of the next and of the previous month.                         *)
LEMMA MonthAfter ==
  ASSUME NEW d \in Fields, NEW n, n = AddMonths([d EXCEPT !.day = 1], 1)
  PROVE  /\ n \in Fields
         /\ n.year = IF d.month = 11 THEN d.year + 1 ELSE d.year
         /\ n.month = IF d.month = 11 THEN 0 ELSE d.month + 1
<1> DEFINE months == 12 * d.year + d.month + 1
<1>0. d.year \in Int /\ d.month \in 0 .. 11
  BY DEF Fields
<1>1. /\ months \div 12 = IF d.month = 11 THEN d.year + 1 ELSE d.year
      /\ months % 12 = IF d.month = 11 THEN 0 ELSE d.month + 1
  BY <1>0
<1>2. ~(1 > DaysIn(months \div 12, months % 12))
  BY <1>0, <1>1, DaysInRange
<1> HIDE DEF months
<1> DEFINE f == [d EXCEPT !.day = 1]
<1>3. f \in Fields /\ f.year = d.year /\ f.month = d.month /\ f.day = 1
  BY DEF Fields
<1> HIDE DEF f
<1>4. n = [f EXCEPT !.year = months \div 12, !.month = months % 12, !.day = 1]
  BY <1>2, <1>3 DEF AddMonths, f, months
<1> DEFINE y == months \div 12
           m == months % 12
<1>5. y \in Int /\ m \in 0 .. 11
  BY <1>0, <1>1
<1> HIDE DEF y, m
<1>6. n = [f EXCEPT !.year = y, !.month = m, !.day = 1]
  BY <1>4 DEF y, m
<1>7. n \in Fields /\ n.year = y /\ n.month = m
  BY <1>3, <1>5, <1>6 DEF Fields
<1> QED
  BY <1>1, <1>7 DEF y, m

LEMMA MonthBefore ==
  ASSUME NEW d \in Fields, NEW n, n = AddMonths([d EXCEPT !.day = 1], -1)
  PROVE  /\ n \in Fields
         /\ n.year = IF d.month = 0 THEN d.year - 1 ELSE d.year
         /\ n.month = IF d.month = 0 THEN 11 ELSE d.month - 1
<1> DEFINE months == 12 * d.year + d.month + -1
<1>0. d.year \in Int /\ d.month \in 0 .. 11
  BY DEF Fields
<1>1. /\ months \div 12 = IF d.month = 0 THEN d.year - 1 ELSE d.year
      /\ months % 12 = IF d.month = 0 THEN 11 ELSE d.month - 1
  BY <1>0
<1>2. ~(1 > DaysIn(months \div 12, months % 12))
  BY <1>0, <1>1, DaysInRange
<1> HIDE DEF months
<1> DEFINE f == [d EXCEPT !.day = 1]
<1>3. f \in Fields /\ f.year = d.year /\ f.month = d.month /\ f.day = 1
  BY DEF Fields
<1> HIDE DEF f
<1>4. n = [f EXCEPT !.year = months \div 12, !.month = months % 12, !.day = 1]
  BY <1>2, <1>3 DEF AddMonths, f, months
<1> DEFINE y == months \div 12
           m == months % 12
<1>5. y \in Int /\ m \in 0 .. 11
  BY <1>0, <1>1
<1> HIDE DEF y, m
<1>6. n = [f EXCEPT !.year = y, !.month = m, !.day = 1]
  BY <1>4 DEF y, m
<1>7. n \in Fields /\ n.year = y /\ n.month = m
  BY <1>3, <1>5, <1>6 DEF Fields
<1> QED
  BY <1>1, <1>7 DEF y, m

(* add(DAY_OF_MONTH, n) yields a date, n days away.                         *)
LEMMA AddDaysCounts ==
  ASSUME NEW d, CalendarDate(d), NEW n \in -28 .. 28
  PROVE  /\ CalendarDate(AddDays(d, n))
         /\ DayNumber(AddDays(d, n)) = DayNumber(d) + n
<1> DEFINE k        == d.day + n
           previous == AddMonths([d EXCEPT !.day = 1], -1)
           next     == AddMonths([d EXCEPT !.day = 1], 1)
<1>0. /\ d \in Fields /\ d.year \in Int /\ d.month \in 0 .. 11 /\ d.day \in 1 .. 31
      /\ d.day <= DaysIn(d.year, d.month) /\ k \in Int
      /\ DaysIn(d.year, d.month) \in 28 .. 31
  BY DaysInRange DEF CalendarDate, Fields
<1>1. CASE k < 1
  <2> DEFINE e == [previous EXCEPT !.day = k + DaysIn(previous.year, previous.month)]
  <2>1. AddDays(d, n) = e
    BY <1>0, <1>1 DEF AddDays
  <2>2. /\ previous \in Fields
        /\ previous.year = IF d.month = 0 THEN d.year - 1 ELSE d.year
        /\ previous.month = IF d.month = 0 THEN 11 ELSE d.month - 1
    BY <1>0, MonthBefore DEF Fields
  <2> HIDE DEF previous
  <2>3. DaysIn(previous.year, previous.month) \in 28 .. 31
    BY <2>2, DaysInRange DEF Fields
  <2>4. /\ e \in Fields /\ e.year = previous.year /\ e.month = previous.month
        /\ e.day = k + DaysIn(previous.year, previous.month)
    BY <1>0, <1>1, <2>2, <2>3 DEF Fields
  <2>5. CalendarDate(e)
    BY <1>0, <1>1, <2>3, <2>4 DEF CalendarDate
  <2> HIDE DEF e
  <2>6. DayNumber(e) = DayNumber(d) + n
    <3>1. /\ DayNumber(e) = YearDays(e.year) + MonthDays(e.year, e.month) + e.day
          /\ DayNumber(d) = YearDays(d.year) + MonthDays(d.year, d.month) + d.day
          /\ YearDays(e.year) \in Int /\ MonthDays(e.year, e.month) \in Nat
          /\ YearDays(d.year) \in Int /\ MonthDays(d.year, d.month) \in Nat
      BY <1>0, <2>4, DayNumberParts
    <3>2. CASE d.month = 0
      <4>1. e.year = d.year - 1 /\ e.month = 11 /\ e.day = k + DaysIn(e.year, 11)
        BY <3>2, <2>2, <2>4
      <4>2. e.year \in Int /\ e.year + 1 = d.year
        BY <4>1, <1>0
      <4>3. /\ YearDays(d.year) = YearDays(e.year) + MonthDays(e.year, 11) + 31
            /\ MonthDays(d.year, 0) = 0 /\ DaysIn(e.year, 11) = 31
        BY <4>2, NextYearFollows
      <4> QED
        BY <3>1, <3>2, <4>1, <4>3, <1>0
    <3>3. CASE d.month # 0
      <4>1. e.year = d.year /\ e.month = d.month - 1 /\ e.day = k + DaysIn(e.year, e.month)
        BY <3>3, <2>2, <2>4
      <4>2. e.month \in 0 .. 10 /\ e.month + 1 = d.month
        BY <4>1, <3>3, <1>0
      <4>3. MonthDays(d.year, d.month) = MonthDays(d.year, e.month) + DaysIn(d.year, e.month)
        BY <4>2, <1>0, NextMonthFollows
      <4> QED
        BY <3>1, <4>1, <4>3, <1>0, <2>3, <2>4
    <3> QED
      BY <3>2, <3>3
  <2> QED
    BY <2>1, <2>5, <2>6
<1>2. CASE k > DaysIn(d.year, d.month)
  <2> DEFINE e == [next EXCEPT !.day = k - DaysIn(d.year, d.month)]
  <2>1. AddDays(d, n) = e
    BY <1>0, <1>2 DEF AddDays
  <2>2. /\ next \in Fields
        /\ next.year = IF d.month = 11 THEN d.year + 1 ELSE d.year
        /\ next.month = IF d.month = 11 THEN 0 ELSE d.month + 1
    BY <1>0, MonthAfter DEF Fields
  <2> HIDE DEF next
  <2>3. DaysIn(next.year, next.month) \in 28 .. 31
    BY <2>2, DaysInRange DEF Fields
  <2>4. /\ e \in Fields /\ e.year = next.year /\ e.month = next.month
        /\ e.day = k - DaysIn(d.year, d.month) /\ e.day <= 28
    BY <1>0, <1>2, <2>2 DEF Fields
  <2>5. CalendarDate(e)
    BY <2>3, <2>4 DEF CalendarDate, Fields
  <2> HIDE DEF e
  <2>6. DayNumber(e) = DayNumber(d) + n
    <3>1. /\ DayNumber(e) = YearDays(e.year) + MonthDays(e.year, e.month) + e.day
          /\ DayNumber(d) = YearDays(d.year) + MonthDays(d.year, d.month) + d.day
          /\ YearDays(e.year) \in Int /\ MonthDays(e.year, e.month) \in Nat
          /\ YearDays(d.year) \in Int /\ MonthDays(d.year, d.month) \in Nat
      BY <1>0, <2>4, DayNumberParts
    <3>2. CASE d.month = 11
      <4>1. /\ YearDays(d.year + 1) = YearDays(d.year) + MonthDays(d.year, 11) + 31
            /\ MonthDays(d.year + 1, 0) = 0 /\ DaysIn(d.year, 11) = 31
        BY <1>0, NextYearFollows
      <4>2. e.year = d.year + 1 /\ e.month = 0 /\ e.day = d.day + n - 31
        BY <3>2, <4>1, <1>0, <2>2, <2>4
      <4>3. MonthDays(d.year, 11) \in Nat
        BY <3>1, <3>2
      <4> QED
        BY <3>1, <3>2, <4>1, <4>2, <4>3, <1>0
    <3>3. CASE d.month # 11
      <4>1. d.month \in 0 .. 10
        BY <3>3, <1>0
      <4>2. MonthDays(d.year, d.month + 1) = MonthDays(d.year, d.month) + DaysIn(d.year, d.month)
        BY <4>1, <1>0, NextMonthFollows
      <4>3. /\ e.year = d.year /\ e.month = d.month + 1
            /\ e.day = d.day + n - DaysIn(d.year, d.month)
        BY <3>3, <1>0, <2>2, <2>4
      <4> QED
        BY <3>1, <4>2, <4>3, <1>0
    <3> QED
      BY <3>2, <3>3
  <2> QED
    BY <2>1, <2>5, <2>6
<1>3. CASE k \in 1 .. DaysIn(d.year, d.month)
  <2> DEFINE e == [d EXCEPT !.day = k]
  <2>1. AddDays(d, n) = e
    BY <1>0, <1>3 DEF AddDays
  <2>2. e \in Fields /\ e.year = d.year /\ e.month = d.month /\ e.day = d.day + n
    BY <1>0, <1>3 DEF Fields
  <2> HIDE DEF e
  <2> QED
    BY <1>0, <1>3, <2>1, <2>2, DayNumberParts DEF CalendarDate
<1> QED
  BY <1>0, <1>1, <1>2, <1>3

-----------------------------------------------------------------------------
(* Workdays                                                                 *)

LEMMA StartOfDayKeepsDay ==
  ASSUME NEW d, CalendarDate(d)
  PROVE  DayNumber(GetIntegralStartTime(d)) = DayNumber(d)
BY DEF CalendarDate, Fields, GetIntegralStartTime, GetResetTime, DayNumber

LEMMA WeekDayOfSum ==
  ASSUME NEW d, CalendarDate(d), NEW n \in -28 .. 28
  PROVE  /\ WeekDay(AddDays(d, n)) = ((DayNumber(d) + n) % 7) + 1
         /\ DayNumber(d) \in Int
BY AddDaysCounts, DayNumberParts DEF WeekDay, CalendarDate

(* A step taken only on one day of the week.                                *)
Skip(d, w, n) == IF WeekDay(d) = w THEN AddDays(d, n) ELSE d

LEMMA SkipOnWeekDay ==
  ASSUME NEW d, CalendarDate(d), NEW w, NEW n \in -28 .. 28
  PROVE  /\ CalendarDate(Skip(d, w, n))
         /\ DayNumber(Skip(d, w, n)) = DayNumber(d) + (IF WeekDay(d) = w THEN n ELSE 0)
<1> USE DEF Skip
<1>1. DayNumber(d) \in Int
  BY WeekDayOfSum
<1>2. CASE WeekDay(d) = w
  BY <1>2, AddDaysCounts
<1>3. CASE WeekDay(d) # w
  BY <1>1, <1>3
<1> QED
  BY <1>2, <1>3

(* Days of the week by their remainders, 0 for a Sunday.                    *)
LEMMA WeekRemainders ==
  ASSUME NEW D \in Int
  PROVE  \E r \in 0 .. 6 :
           /\ D % 7 = r
           /\ (D + 1) % 7 = IF r < 6 THEN r + 1 ELSE r - 6
           /\ (D + 2) % 7 = IF r < 5 THEN r + 2 ELSE r - 5
           /\ (D + 3) % 7 = IF r < 4 THEN r + 3 ELSE r - 4
           /\ (D - 1) % 7 = IF r < 1 THEN r + 6 ELSE r - 1
           /\ (D - 2) % 7 = IF r < 2 THEN r + 5 ELSE r - 2
           /\ (D - 3) % 7 = IF r < 3 THEN r + 4 ELSE r - 3
<1> WITNESS D % 7 \in 0 .. 6
<1> QED
  OBVIOUS

LEMMA WeekDayByRemainder ==
  ASSUME NEW d, CalendarDate(d)
  PROVE  /\ DayNumber(d) \in Int
         /\ \A w \in SUNDAY .. SATURDAY : WeekDay(d) = w <=> DayNumber(d) % 7 = w - 1
<1>1. DayNumber(d) \in Int
  BY WeekDayOfSum
<1> QED
  BY <1>1 DEF WeekDay, SUNDAY, SATURDAY

(* How many days ahead of day D the next workday is, and the previous one   *)
(* behind.                                                                 *)
DaysAhead(D)  == IF D % 7 = 5 THEN 3 ELSE IF D % 7 = 6 THEN 2 ELSE 1
DaysBehind(D) == IF D % 7 = 1 THEN 3 ELSE IF D % 7 = 0 THEN 2 ELSE 1

LEMMA SkipForward ==
  ASSUME NEW D \in Int, NEW T \in Int, T = D + 1,
         NEW M \in Int, M = T + (IF T % 7 = 6 THEN 2 ELSE 0),
         NEW R \in Int, R = M + (IF M % 7 = 0 THEN 1 ELSE 0)
  PROVE  R = D + DaysAhead(D)
BY WeekRemainders DEF DaysAhead

LEMMA SkipBack ==
  ASSUME NEW D \in Int, NEW T \in Int, T = D - 1,
         NEW M \in Int, M = T + (IF T % 7 = 0 THEN -2 ELSE 0),
         NEW R \in Int, R = M + (IF M % 7 = 6 THEN -1 ELSE 0)
  PROVE  R = D - DaysBehind(D)
BY WeekRemainders DEF DaysBehind

LEMMA NextWorkdayIsAhead ==
  ASSUME CalendarDate(now)
  PROVE  DayNumber(GetNextWorkday) = DayNumber(now) + DaysAhead(DayNumber(now))
<1> DEFINE tomorrow == AddDays(now, 1)
           monday   == Skip(tomorrow, SATURDAY, 2)
           result   == Skip(monday, SUNDAY, 1)
<1>1. GetNextWorkday = GetIntegralStartTime(result)
  BY DEF GetNextWorkday, Skip
<1>2. CalendarDate(tomorrow) /\ DayNumber(tomorrow) = DayNumber(now) + 1
  BY AddDaysCounts
<1>3. /\ CalendarDate(monday)
      /\ DayNumber(monday) = DayNumber(tomorrow) + (IF WeekDay(tomorrow) = SATURDAY THEN 2 ELSE 0)
  <2> HIDE DEF tomorrow
  <2> QED
    BY <1>2, SkipOnWeekDay
<1>4. /\ CalendarDate(result)
      /\ DayNumber(result) = DayNumber(monday) + (IF WeekDay(monday) = SUNDAY THEN 1 ELSE 0)
  <2> HIDE DEF monday
  <2> QED
    BY <1>3, SkipOnWeekDay
<1>5. DayNumber(GetNextWorkday) = DayNumber(result)
  BY <1>1, <1>4, StartOfDayKeepsDay
<1> HIDE DEF tomorrow, monday, result
<1>6. /\ WeekDay(tomorrow) = SATURDAY <=> DayNumber(tomorrow) % 7 = 6
      /\ WeekDay(monday) = SUNDAY <=> DayNumber(monday) % 7 = 0
  BY <1>2, <1>3, WeekDayByRemainder DEF SUNDAY, SATURDAY
<1>7. /\ DayNumber(now) \in Int /\ DayNumber(tomorrow) \in Int
      /\ DayNumber(monday) \in Int /\ DayNumber(result) \in Int
  BY <1>2, <1>3, <1>4, WeekDayByRemainder
<1> QED
  BY <1>2, <1>3, <1>4, <1>5, <1>6, <1>7, SkipForward

LEMMA PrevWorkdayIsBehind ==
  ASSUME CalendarDate(now)
  PROVE  DayNumber(GetPrevWorkday) = DayNumber(now) - DaysBehind(DayNumber(now))
<1> DEFINE yesterday == AddDays(now, -1)
           friday    == Skip(yesterday, SUNDAY, -2)
           result    == Skip(friday, SATURDAY, -1)
<1>1. GetPrevWorkday = GetIntegralStartTime(result)
  BY DEF GetPrevWorkday, Skip
<1>2. CalendarDate(yesterday) /\ DayNumber(yesterday) = DayNumber(now) - 1
  BY AddDaysCounts, WeekDayByRemainder
<1>3. /\ CalendarDate(friday)
      /\ DayNumber(friday) = DayNumber(yesterday) + (IF WeekDay(yesterday) = SUNDAY THEN -2 ELSE 0)
  <2> HIDE DEF yesterday
  <2> QED
    BY <1>2, SkipOnWeekDay
<1>4. /\ CalendarDate(result)
      /\ DayNumber(result) = DayNumber(friday) + (IF WeekDay(friday) = SATURDAY THEN -1 ELSE 0)
  <2> HIDE DEF friday
  <2> QED
    BY <1>3, SkipOnWeekDay
<1>5. DayNumber(GetPrevWorkday) = DayNumber(result)
  BY <1>1, <1>4, StartOfDayKeepsDay
<1> HIDE DEF yesterday, friday, result
<1>6. /\ WeekDay(yesterday) = SUNDAY <=> DayNumber(yesterday) % 7 = 0
      /\ WeekDay(friday) = SATURDAY <=> DayNumber(friday) % 7 = 6
  BY <1>2, <1>3, WeekDayByRemainder DEF SUNDAY, SATURDAY
<1>7. /\ DayNumber(now) \in Int /\ DayNumber(yesterday) \in Int
      /\ DayNumber(friday) \in Int /\ DayNumber(result) \in Int
  BY <1>2, <1>3, <1>4, WeekDayByRemainder
<1> QED
  BY <1>2, <1>3, <1>4, <1>5, <1>6, <1>7, SkipBack

(* The days on the way are a Saturday and a Sunday.                         *)
LEMMA NoneBetween ==
  ASSUME NEW D \in Int
  PROVE  /\ (D + DaysAhead(D)) % 7 \in 1 .. 5 /\ (D - DaysBehind(D)) % 7 \in 1 .. 5
         /\ \A n \in 1 .. 6 : n < DaysAhead(D) => (D + n) % 7 \notin 1 .. 5
         /\ \A n \in 1 .. 6 : n < DaysBehind(D) => (D - n) % 7 \notin 1 .. 5
         /\ DaysAhead(D) \in 1 .. 3 /\ DaysBehind(D) \in 1 .. 3
<1>1. (D + DaysAhead(D)) % 7 \in 1 .. 5 /\ (D - DaysBehind(D)) % 7 \in 1 .. 5
  BY WeekRemainders DEF DaysAhead, DaysBehind
<1>2. /\ (D + 1) % 7 \in 1 .. 5 => DaysAhead(D) = 1
      /\ (D + 2) % 7 \in 1 .. 5 => DaysAhead(D) <= 2
      /\ (D - 1) % 7 \in 1 .. 5 => DaysBehind(D) = 1
      /\ (D - 2) % 7 \in 1 .. 5 => DaysBehind(D) <= 2
      /\ DaysAhead(D) \in 1 .. 3 /\ DaysBehind(D) \in 1 .. 3
  BY WeekRemainders DEF DaysAhead, DaysBehind
<1>3. ASSUME NEW n \in 1 .. 6, n < DaysAhead(D) PROVE (D + n) % 7 \notin 1 .. 5
  <2>1. n = 1 \/ n = 2
    BY <1>2, <1>3
  <2> QED
    BY <1>2, <1>3, <2>1
<1>4. ASSUME NEW n \in 1 .. 6, n < DaysBehind(D) PROVE (D - n) % 7 \notin 1 .. 5
  <2>1. n = 1 \/ n = 2
    BY <1>2, <1>4
  <2> QED
    BY <1>2, <1>4, <2>1
<1> QED
  BY <1>1, <1>2, <1>3, <1>4

LEMMA NeighboursOfADate == CalendarDate(now) => WorkdaysAreNeighbours
<1> SUFFICES ASSUME CalendarDate(now) PROVE WorkdaysAreNeighbours
  OBVIOUS
<1> DEFINE D == DayNumber(now)
<1>1. D \in Int
  BY WeekDayByRemainder
<1>2. /\ DayNumber(GetNextWorkday) = D + DaysAhead(D)
      /\ DayNumber(GetPrevWorkday) = D - DaysBehind(D)
  BY NextWorkdayIsAhead, PrevWorkdayIsBehind
<1>3. ASSUME NEW d, DayNumber(d) \in Int PROVE IsWorkday(d) <=> DayNumber(d) % 7 \in 1 .. 5
  BY <1>3 DEF IsWorkday, WeekDay, SATURDAY, SUNDAY
<1>4. \A n \in 1 .. 6 : /\ DayNumber(AddDays(now, n)) = D + n
                        /\ DayNumber(AddDays(now, -n)) = D - n
  <2> TAKE n \in 1 .. 6
  <2>1. n \in -28 .. 28 /\ -n \in -28 .. 28
    OBVIOUS
  <2>2. /\ DayNumber(AddDays(now, n)) = D + n
        /\ DayNumber(AddDays(now, -n)) = D + (-n)
    BY <2>1, AddDaysCounts
  <2> QED
    BY <1>1, <2>2
<1> HIDE DEF D
<1>5. IsWorkday(GetNextWorkday) /\ IsWorkday(GetPrevWorkday)
  BY <1>1, <1>2, <1>3, NoneBetween
<1>6. ASSUME NEW n \in 1 .. 6
      PROVE  /\ D + n < DayNumber(GetNextWorkday) => ~IsWorkday(AddDays(now, n))
             /\ D - n > DayNumber(GetPrevWorkday) => ~IsWorkday(AddDays(now, -n))
  <2>1. /\ IsWorkday(AddDays(now, n)) <=> (D + n) % 7 \in 1 .. 5
        /\ IsWorkday(AddDays(now, -n)) <=> (D - n) % 7 \in 1 .. 5
    BY <1>1, <1>3, <1>4
  <2>2. /\ D + n < DayNumber(GetNextWorkday) => n < DaysAhead(D)
        /\ D - n > DayNumber(GetPrevWorkday) => n < DaysBehind(D)
    BY <1>1, <1>2, NoneBetween
  <2> QED
    BY <1>1, <2>1, <2>2, NoneBetween
<1>7. DayNumber(GetPrevWorkday) < D /\ D < DayNumber(GetNextWorkday)
  BY <1>1, <1>2, NoneBetween
<1> QED
  BY <1>5, <1>6, <1>7 DEF WorkdaysAreNeighbours, D

DateInv == CalendarDate(now)

LEMMA ClockShowsDates == Spec => []DateInv
<1> USE DEF DateInv
<1>1. Init => DateInv
  BY DateUtilAssumption, DaysInRange DEF Init, CalendarDate, Fields, On, TimeOfDay
<1>2. DateInv /\ [Next]_now => DateInv'
  <2> SUFFICES ASSUME DateInv, [Next]_now PROVE DateInv'
    OBVIOUS
  <2>1. CASE UNCHANGED now
    BY <2>1
  <2>2. CASE LaterToday
    BY <2>2, DateUtilAssumption DEF LaterToday, CalendarDate, Fields, On, TimeOfDay
  <2>3. CASE Tomorrow
    <3> DEFINE next == AddDays(now, 1)
    <3>1. CalendarDate(next)
      BY AddDaysCounts
    <3>2. \E t \in Times : now' = On(next.year, next.month, next.day, t)
      BY <2>3 DEF Tomorrow
    <3> HIDE DEF next
    <3> QED
      BY <3>1, <3>2, DateUtilAssumption DEF CalendarDate, Fields, On, TimeOfDay
  <2> QED
    BY <2>1, <2>2, <2>3 DEF Next
<1> QED
  BY <1>1, <1>2, PTL DEF Spec

(* getNextWorkday and getPrevWorkday find the neighbouring workdays of      *)
(* every day, over weekends and the ends of months, years and centuries.   *)
THEOREM WorkdaysFound == Spec => []WorkdaysAreNeighbours
<1>1. DateInv => WorkdaysAreNeighbours
  BY NeighboursOfADate DEF DateInv
<1> QED
  BY <1>1, ClockShowsDates, PTL

-----------------------------------------------------------------------------
(* The helpers of the pages                                                 *)


(* The same time on another day.                                            *)
At(d, y, m, n) == [d EXCEPT !.year = y, !.month = m, !.day = n]

NextYear(y, m)  == IF m = 11 THEN y + 1 ELSE y
NextMonth(m)    == IF m = 11 THEN 0 ELSE m + 1
PrevYear(y, m)  == IF m = 0 THEN y - 1 ELSE y
PrevMonth(m)    == IF m = 0 THEN 11 ELSE m - 1

LEMMA FirstIsThere ==
  ASSUME NEW d \in Fields, NEW y \in Int, NEW m \in 0 .. 11
  PROVE  /\ At(d, y, m, 1) \in Fields
         /\ At(d, y, m, 1).year = y /\ At(d, y, m, 1).month = m
         /\ At(d, y, m, 1).day = 1
<1> DEFINE first == 1
<1>1. first \in 1 .. 31
  OBVIOUS
<1> HIDE DEF first
<1>2. /\ At(d, y, m, first) \in Fields
      /\ At(d, y, m, first).year = y /\ At(d, y, m, first).month = m
      /\ At(d, y, m, first).day = first
  BY <1>1 DEF At, Fields
<1> QED
  BY <1>2 DEF first

LEMMA AtItself ==
  ASSUME NEW d \in Fields
  PROVE  /\ d = At(d, d.year, d.month, d.day)
         /\ \A n : [d EXCEPT !.day = n] = At(d, d.year, d.month, n)
         /\ d.year \in Int /\ d.month \in 0 .. 11 /\ d.day \in 1 .. 31
BY DEF At, Fields

(* AddMonths from the first of a month.                                     *)
LEMMA MonthShift ==
  ASSUME NEW d \in Fields, NEW k \in Int, NEW y \in Int, NEW m \in 0 .. 11,
         12 * d.year + d.month + k = 12 * y + m
  PROVE  AddMonths([d EXCEPT !.day = 1], k) = At(d, y, m, 1)
<1> DEFINE f == [d EXCEPT !.day = 1]
           months == 12 * d.year + d.month + k
<1>1. d.year \in Int /\ d.month \in 0 .. 11
  BY DEF Fields
<1>2. months \div 12 = y /\ months % 12 = m
  BY <1>1
<1>3. f \in Fields /\ f.year = d.year /\ f.month = d.month /\ f.day = 1
  BY DEF Fields
<1>4. ~(1 > DaysIn(months \div 12, months % 12))
  BY <1>2, DaysInRange
<1> HIDE DEF f, months
<1>5. AddMonths(f, k) = [f EXCEPT !.year = months \div 12, !.month = months % 12, !.day = 1]
  BY <1>3, <1>4 DEF AddMonths, f, months
<1>6. [f EXCEPT !.year = y, !.month = m, !.day = 1] = At(d, y, m, 1)
  BY DEF f, At, Fields
<1> QED
  BY <1>2, <1>5, <1>6 DEF f

(* AddDays, by the month in which it ends.                                  *)
LEMMA AddWithin ==
  ASSUME NEW d \in Fields, NEW n \in Int, d.day + n \in 1 .. DaysIn(d.year, d.month)
  PROVE  AddDays(d, n) = At(d, d.year, d.month, d.day + n)
<1>1. d.day \in Int /\ DaysIn(d.year, d.month) \in Int
  BY DaysInRange DEF Fields
<1> QED
  BY <1>1, AtItself DEF AddDays

LEMMA AddAfter ==
  ASSUME NEW d \in Fields, NEW n \in Int, d.day + n > DaysIn(d.year, d.month)
  PROVE  AddDays(d, n) = At(d, NextYear(d.year, d.month), NextMonth(d.month),
                            d.day + n - DaysIn(d.year, d.month))
<1> DEFINE next == AddMonths([d EXCEPT !.day = 1], 1)
<1>1. d.day \in Int /\ DaysIn(d.year, d.month) \in 28 .. 31
      /\ d.year \in Int /\ d.month \in 0 .. 11
  BY DaysInRange DEF Fields
<1>2. next = At(d, NextYear(d.year, d.month), NextMonth(d.month), 1)
  <2>1. /\ NextYear(d.year, d.month) \in Int /\ NextMonth(d.month) \in 0 .. 11
        /\ 12 * d.year + d.month + 1
             = 12 * NextYear(d.year, d.month) + NextMonth(d.month)
    BY <1>1 DEF NextYear, NextMonth
  <2> HIDE DEF next
  <2> QED
    BY <2>1, MonthShift DEF next
<1>3. AddDays(d, n) = [next EXCEPT !.day = d.day + n - DaysIn(d.year, d.month)]
  BY <1>1 DEF AddDays
<1> HIDE DEF next
<1> QED
  BY <1>2, <1>3 DEF At, Fields

LEMMA AddBefore ==
  ASSUME NEW d \in Fields, NEW n \in Int, d.day + n < 1
  PROVE  LET y == PrevYear(d.year, d.month)
             m == PrevMonth(d.month)
         IN  AddDays(d, n) = At(d, y, m, d.day + n + DaysIn(y, m))
<1> DEFINE previous == AddMonths([d EXCEPT !.day = 1], -1)
           y == PrevYear(d.year, d.month)
           m == PrevMonth(d.month)
<1>1. d.day \in Int /\ d.year \in Int /\ d.month \in 0 .. 11
  BY DEF Fields
<1>2. y \in Int /\ m \in 0 .. 11 /\ 12 * d.year + d.month + -1 = 12 * y + m
  BY <1>1 DEF PrevYear, PrevMonth
<1>3. previous = At(d, y, m, 1)
  <2> HIDE DEF y, m
  <2> QED
    BY <1>2, MonthShift
<1>4. AddDays(d, n) = [previous EXCEPT !.day = d.day + n + DaysIn(previous.year, previous.month)]
  <2>1. DaysIn(d.year, d.month) \in 28 .. 31
    BY <1>1, DaysInRange
  <2> QED
    BY <1>1, <2>1 DEF AddDays
<1> HIDE DEF previous, y, m
<1>5. previous.year = y /\ previous.month = m
  <2>1. At(d, y, m, 1).year = y /\ At(d, y, m, 1).month = m
    BY DEF At, Fields
  <2> QED
    BY <1>3, <2>1
<1>6. [previous EXCEPT !.day = d.day + n + DaysIn(y, m)] = At(d, y, m, d.day + n + DaysIn(y, m))
  BY <1>3 DEF At, Fields
<1> QED
  BY <1>4, <1>5, <1>6 DEF y, m

-----------------------------------------------------------------------------
(* setDate and setMonth                                                     *)

LEMMA SetDateWithin ==
  ASSUME NEW d \in Fields, NEW n \in 1 .. DaysIn(d.year, d.month)
  PROVE  SetDate(d, n) = At(d, d.year, d.month, n)
<1> DEFINE f == [d EXCEPT !.day = 1]
<1>1. f \in Fields /\ f.year = d.year /\ f.month = d.month /\ f.day = 1
  BY DEF Fields
<1>2. n \in Int /\ DaysIn(d.year, d.month) \in Int
  BY DaysInRange DEF Fields
<1>3. At(f, d.year, d.month, n) = At(d, d.year, d.month, n)
  BY DEF At, Fields
<1> HIDE DEF f
<1>4. AddDays(f, n - 1) = At(f, d.year, d.month, 1 + (n - 1))
  BY <1>1, <1>2, AddWithin
<1> QED
  BY <1>2, <1>3, <1>4 DEF SetDate, f

(* setDate(0) is the last day of the month before.                          *)
LEMMA SetDateZero ==
  ASSUME NEW d \in Fields
  PROVE  LET y == PrevYear(d.year, d.month)
             m == PrevMonth(d.month)
         IN  SetDate(d, 0) = At(d, y, m, DaysIn(y, m))
<1> DEFINE f == [d EXCEPT !.day = 1]
           y == PrevYear(d.year, d.month)
           m == PrevMonth(d.month)
<1>1. f \in Fields /\ f.year = d.year /\ f.month = d.month /\ f.day = 1
  BY DEF Fields
<1>2. DaysIn(y, m) \in 28 .. 31
  BY DaysInRange DEF PrevYear, PrevMonth, Fields
<1>3. At(f, y, m, DaysIn(y, m)) = At(d, y, m, DaysIn(y, m))
  BY DEF At, Fields
<1> HIDE DEF f
<1>4. AddDays(f, -1) = At(f, y, m, 1 + -1 + DaysIn(y, m))
  BY <1>1, AddBefore
<1> HIDE DEF y, m
<1>5. 1 + -1 + DaysIn(y, m) = DaysIn(y, m) /\ 0 - 1 = -1
  BY <1>2
<1> QED
  BY <1>3, <1>4, <1>5 DEF SetDate, f, y, m

(* setMonth(a) of a day that month has, and of one it has not.              *)
LEMMA SetMonthDate ==
  ASSUME NEW d \in Fields, NEW a \in Int, NEW y \in Int, NEW m \in 0 .. 11,
         12 * d.year + a = 12 * y + m
  PROVE  SetMonth(d, a) =
           IF d.day <= DaysIn(y, m)
           THEN At(d, y, m, d.day)
           ELSE At(d, NextYear(y, m), NextMonth(m), d.day - DaysIn(y, m))
<1> DEFINE n == d.day
           f == At(d, y, m, 1)
<1>1. d.year \in Int /\ d.month \in Int /\ n \in 1 .. 31 /\ DaysIn(y, m) \in 28 .. 31
  BY DaysInRange DEF Fields
<1>2. AddMonths([d EXCEPT !.day = 1], a - d.month) = f
  BY <1>1, MonthShift
<1>3. SetMonth(d, a) = AddDays([[f EXCEPT !.day = n] EXCEPT !.day = 1], n - 1)
  BY <1>2 DEF SetMonth, Resolve, At, Fields
<1>4. [[f EXCEPT !.day = n] EXCEPT !.day = 1] = f
  BY DEF At, Fields
<1>5. f \in Fields /\ f.year = y /\ f.month = m /\ f.day = 1
  <2>1. f \in Fields
    BY FirstIsThere
  <2>2. f.year = y /\ f.month = m /\ f.day = 1
    BY DEF At, Fields
  <2> QED
    BY <2>1, <2>2
<1>6. \A y2, m2, n2 : At(f, y2, m2, n2) = At(d, y2, m2, n2)
  BY DEF At, Fields
<1> HIDE DEF f, n
<1>7. SetMonth(d, a) = AddDays(f, n - 1) /\ 1 + (n - 1) = n
  BY <1>1, <1>3, <1>4
<1>8. CASE n <= DaysIn(y, m)
  <2>1. AddDays(f, n - 1) = At(f, y, m, 1 + (n - 1))
    BY <1>1, <1>5, <1>8, AddWithin
  <2> QED
    BY <1>6, <1>7, <1>8, <2>1 DEF n
<1>9. CASE ~(n <= DaysIn(y, m))
  <2>1. AddDays(f, n - 1) = At(f, NextYear(y, m), NextMonth(m), 1 + (n - 1) - DaysIn(y, m))
    BY <1>1, <1>5, <1>9, AddAfter
  <2> QED
    BY <1>1, <1>6, <1>7, <1>9, <2>1 DEF n
<1> QED
  BY <1>8, <1>9

LEMMA FormatAt ==
  ASSUME NEW d \in Fields, NEW y, NEW m, NEW n
  PROVE  Format(At(d, y, m, n)) = <<y, m + 1, n>>
BY DEF Format, At, Fields

LEMMA SetDateFirst ==
  ASSUME NEW d \in Fields
  PROVE  SetDate(d, 1) = At(d, d.year, d.month, 1)
<1>1. d.year \in Int /\ d.month \in 0 .. 11
  BY DEF Fields
<1>2. 1 \in 1 .. DaysIn(d.year, d.month)
  BY <1>1, DaysInRange
<1> QED
  BY <1>2, SetDateWithin

-----------------------------------------------------------------------------
(* The first day of the season                                              *)

(* From month d.month to month m of the same year, and there to its first:  *)
(* the month has no 31st, if it is April.                                   *)
LEMMA FirstOfMonth ==
  ASSUME NEW d, CalendarDate(d), NEW m \in {0, 3, 6, 9}
  PROVE  Format(SetDate(SetMonth(d, m), 1)) =
           IF m = 3 /\ d.day = 31 THEN <<d.year, 5, 1>> ELSE <<d.year, m + 1, 1>>
<1> DEFINE e == SetMonth(d, m)
           y == d.year
<1>1. d \in Fields /\ y \in Int /\ d.day \in 1 .. 31 /\ m \in 0 .. 11
  BY DEF CalendarDate, Fields
<1>2. DaysIn(y, m) = IF m = 3 THEN 30 ELSE 31
  BY DEF DaysIn, MonthLengths
<1>3. e = IF d.day <= DaysIn(y, m) THEN At(d, y, m, d.day)
          ELSE At(d, NextYear(y, m), NextMonth(m), d.day - DaysIn(y, m))
  BY <1>1, SetMonthDate
<1>4. CASE m = 3 /\ d.day = 31
  <2>1. e = At(d, y, 4, 1)
    BY <1>2, <1>3, <1>4 DEF NextYear, NextMonth
  <2>2. e \in Fields /\ e.year = y /\ e.month = 4
    <3>1. m + 1 \in 0 .. 11 /\ m + 1 = 4
      BY <1>4
    <3> HIDE DEF e, y
    <3>2. /\ At(d, y, m + 1, 1) \in Fields
          /\ At(d, y, m + 1, 1).year = y /\ At(d, y, m + 1, 1).month = m + 1
      BY <1>1, <3>1, FirstIsThere
    <3> QED
      BY <2>1, <3>1, <3>2
  <2>3. SetDate(e, 1) = At(e, y, 4, 1)
    BY <2>2, SetDateFirst
  <2> QED
    BY <1>4, <2>2, <2>3, FormatAt
<1>5. CASE ~(m = 3 /\ d.day = 31)
  <2>1. e = At(d, y, m, d.day)
    BY <1>1, <1>2, <1>3, <1>5
  <2>2. e \in Fields /\ e.year = y /\ e.month = m
    BY <1>1, <2>1 DEF At, Fields
  <2>3. SetDate(e, 1) = At(e, y, m, 1)
    BY <2>2, SetDateFirst
  <2> QED
    BY <1>5, <2>2, <2>3, FormatAt
<1> QED
  BY <1>4, <1>5

LEMMA SeasonOfADate == CalendarDate(now) => SeasonStartsAtItsQuarter
<1> SUFFICES ASSUME CalendarDate(now) PROVE SeasonStartsAtItsQuarter
  OBVIOUS
<1> DEFINE y == now.year
           mo == now.month
           n == now.day
           season == Format(GetFirstDayOfSeason(now))
           first(m) == Format(SetDate(SetMonth(now, m), 1))
<1>1. /\ now \in Fields /\ mo \in 0 .. 11 /\ n \in 1 .. 31
      /\ n <= DaysIn(y, mo)
  BY DEF CalendarDate, Fields
<1>2. season = IF mo < 3 THEN first(0)
               ELSE IF mo \in 3 .. 5 THEN first(3)
               ELSE IF mo \in 6 .. 8 THEN first(6)
               ELSE IF mo \in 9 .. 10 THEN first(9)
               ELSE Format(SetDate(now, 1))
  BY <1>1 DEF GetFirstDayOfSeason
<1>3. /\ first(0) = <<y, 1, 1>> /\ first(6) = <<y, 7, 1>> /\ first(9) = <<y, 10, 1>>
      /\ first(3) = IF n = 31 THEN <<y, 5, 1>> ELSE <<y, 4, 1>>
  BY FirstOfMonth
<1>4. Format(SetDate(now, 1)) = <<y, mo + 1, 1>>
  BY <1>1, SetDateFirst, FormatAt
<1>5. mo \in {3, 5} => n <= 30
  BY <1>1 DEF DaysIn, MonthLengths
<1>6. /\ mo \in 0 .. 2 => mo \div 3 = 0
      /\ mo \in 3 .. 5 => mo \div 3 = 1
      /\ mo \in 6 .. 8 => mo \div 3 = 2
      /\ mo \in 9 .. 11 => mo \div 3 = 3
  OBVIOUS
<1> HIDE DEF season, first
<1>7. CASE mo \in 0 .. 2
  BY <1>2, <1>3, <1>6, <1>7 DEF SeasonStartsAtItsQuarter, SeasonIsMissed, SeasonIsFound, QuarterFirst, season
<1>8. CASE mo \in 3 .. 5
  BY <1>1, <1>2, <1>3, <1>5, <1>6, <1>8 DEF SeasonStartsAtItsQuarter, SeasonIsMissed, SeasonIsFound, QuarterFirst, season
<1>9. CASE mo \in 6 .. 8
  BY <1>2, <1>3, <1>6, <1>9 DEF SeasonStartsAtItsQuarter, SeasonIsMissed, SeasonIsFound, QuarterFirst, season
<1>10. CASE mo \in 9 .. 11
  BY <1>2, <1>3, <1>4, <1>6, <1>10 DEF SeasonStartsAtItsQuarter, SeasonIsMissed, SeasonIsFound, QuarterFirst, season
<1> QED
  BY <1>1, <1>7, <1>8, <1>9, <1>10

(* getFirstDayOfSeason finds the first day of the quarter on every day of   *)
(* every year that is neither in December nor a 31 May.                    *)
THEOREM SeasonFound == Spec => []SeasonStartsAtItsQuarter
<1>1. DateInv => SeasonStartsAtItsQuarter
  BY SeasonOfADate DEF DateInv
<1> QED
  BY <1>1, ClockShowsDates, PTL

-----------------------------------------------------------------------------
(* The ends of a month                                                      *)

(* getEndDate of a Date in month m of year y: of the month after next, if   *)
(* the next has no such day.                                               *)
LEMMA EndOfMonth ==
  ASSUME NEW d, CalendarDate(d)
  PROVE  LET y == NextYear(d.year, d.month)
             m == NextMonth(d.month)
         IN  Format(GetEndDate(d)) =
               IF d.day <= DaysIn(y, m)
               THEN <<d.year, d.month + 1, DaysIn(d.year, d.month)>>
               ELSE <<y, m + 1, DaysIn(y, m)>>
<1> DEFINE y == NextYear(d.year, d.month)
           m == NextMonth(d.month)
           a == d.month + 1
           e == SetMonth(d, a)
<1>1. d \in Fields /\ d.year \in Int /\ d.month \in 0 .. 11 /\ d.day \in 1 .. 31
  BY DEF CalendarDate, Fields
<1>2. /\ y \in Int /\ m \in 0 .. 11 /\ a \in Int
      /\ 12 * d.year + a = 12 * y + m
      /\ PrevYear(y, m) = d.year /\ PrevMonth(m) = d.month
  BY <1>1 DEF NextYear, NextMonth, PrevYear, PrevMonth
<1>3. GetEndDate(d) = SetDate(e, 0)
  BY DEF GetEndDate
<1> HIDE DEF y, m, a
<1>4. e = IF d.day <= DaysIn(y, m) THEN At(d, y, m, d.day)
          ELSE At(d, NextYear(y, m), NextMonth(m), d.day - DaysIn(y, m))
  BY <1>1, <1>2, SetMonthDate
<1> HIDE DEF e
<1>5. CASE d.day <= DaysIn(y, m)
  <2>1. e \in Fields /\ e.year = y /\ e.month = m
    BY <1>1, <1>2, <1>4, <1>5 DEF At, Fields
  <2>2. SetDate(e, 0) = At(e, d.year, d.month, DaysIn(d.year, d.month))
    BY <1>2, <2>1, SetDateZero
  <2>3. Format(SetDate(e, 0)) = <<d.year, d.month + 1, DaysIn(d.year, d.month)>>
    BY <2>1, <2>2, FormatAt
  <2> QED
    BY <1>3, <1>5, <2>3 DEF y, m
<1>6. CASE ~(d.day <= DaysIn(y, m))
  <2> DEFINE y2 == NextYear(y, m)
             m2 == NextMonth(m)
             n2 == d.day - DaysIn(y, m)
  <2>1. DaysIn(y, m) \in 28 .. 31
    BY <1>2, DaysInRange
  <2>2. /\ y2 \in Int /\ m2 \in 0 .. 11 /\ n2 \in 1 .. 31
        /\ PrevYear(y2, m2) = y /\ PrevMonth(m2) = m
    BY <1>1, <1>2, <1>6, <2>1 DEF NextYear, NextMonth, PrevYear, PrevMonth
  <2> HIDE DEF y2, m2, n2
  <2>3. e = At(d, y2, m2, n2)
    BY <1>4, <1>6 DEF y2, m2, n2
  <2>4. e \in Fields /\ e.year = y2 /\ e.month = m2
    BY <1>1, <2>2, <2>3 DEF At, Fields
  <2>5. SetDate(e, 0) = At(e, y, m, DaysIn(y, m))
    BY <2>2, <2>4, SetDateZero
  <2>6. Format(SetDate(e, 0)) = <<y, m + 1, DaysIn(y, m)>>
    BY <2>4, <2>5, FormatAt
  <2> QED
    BY <1>3, <1>6, <2>6 DEF y, m
<1> QED
  BY <1>5, <1>6

(* getfirstDate leaves its Date at the first of the next month.             *)
LEMMA FirstIsLeft ==
  ASSUME NEW d, CalendarDate(d)
  PROVE  GetfirstDate(d) = At(d, NextYear(d.year, d.month), NextMonth(d.month), 1)
<1> DEFINE f == SetDate(d, 1)
           y == NextYear(d.year, d.month)
           m == NextMonth(d.month)
           a == d.month + 1
<1>1. d \in Fields /\ d.year \in Int /\ d.month \in 0 .. 11
  BY DEF CalendarDate, Fields
<1>2. y \in Int /\ m \in 0 .. 11 /\ a \in Int /\ 12 * d.year + a = 12 * y + m
  BY <1>1 DEF NextYear, NextMonth
<1>3. f = At(d, d.year, d.month, 1)
  BY <1>1, SetDateFirst
<1> HIDE DEF f, y, m, a
<1>4. f \in Fields /\ f.year = d.year /\ f.month = d.month /\ f.day = 1
  BY <1>1, <1>3, FirstIsThere
<1>5. At(f, y, m, 1) = At(d, y, m, 1)
  BY <1>3 DEF At, Fields
<1>6. 1 <= DaysIn(y, m)
  BY <1>2, DaysInRange
<1>7. SetMonth(f, a) = At(f, y, m, 1)
  BY <1>2, <1>4, <1>6, SetMonthDate
<1> QED
  BY <1>5, <1>7 DEF GetfirstDate, f, y, m, a

LEMMA EndsOfADate == CalendarDate(now) => MonthHasItsEnds
<1> SUFFICES ASSUME CalendarDate(now) PROVE MonthHasItsEnds
  OBVIOUS
<1> DEFINE y0 == now.year
           m0 == now.month
           y == NextYear(y0, m0)
           m == NextMonth(m0)
           g == GetfirstDate(now)
           first == FirstDateText(now)
           end == Format(GetEndDate(now))
<1>1. /\ now \in Fields /\ y0 \in Int /\ m0 \in 0 .. 11 /\ now.day \in 1 .. 31
      /\ now.day <= DaysIn(y0, m0)
  BY DEF CalendarDate, Fields
<1>2. /\ y \in Int /\ m \in 0 .. 11
      /\ IF m = 0 THEN m0 = 11 ELSE m = m0 + 1
      /\ m = (m0 + 1) % 12
  BY <1>1 DEF NextYear, NextMonth
<1>3. DaysIn(y, m) = DaysIn(y0, m)
  <2>1. CASE m0 = 11
    BY <2>1 DEF NextYear, NextMonth, DaysIn, MonthLengths
  <2>2. CASE m0 # 11
    BY <2>2 DEF NextYear
  <2> QED
    BY <2>1, <2>2
<1> HIDE DEF y, m, g, first, end
<1>5. g = At(now, y, m, 1)
  BY FirstIsLeft DEF g, y, m
<1>6. /\ g \in Fields /\ g.year = y /\ g.month = m /\ g.day = 1
  <2>1. /\ At(now, y, m, 1) \in Fields
        /\ At(now, y, m, 1).year = y /\ At(now, y, m, 1).month = m
        /\ At(now, y, m, 1).day = 1
    <3>1. now \in Fields /\ y \in Int /\ m \in 0 .. 11
      BY <1>1, <1>2
    <3> QED
      BY <3>1, FirstIsThere
  <2> QED
    BY <1>5, <2>1
<1>7. first = <<y0, m0 + 1, 1>>
  BY <1>1, <1>2, <1>6 DEF FirstDateText, g, first
<1>8. end = IF now.day <= DaysIn(y, m) THEN <<y0, m0 + 1, DaysIn(y0, m0)>>
            ELSE <<y, m + 1, DaysIn(y, m)>>
  BY EndOfMonth DEF y, m, end
<1>10. DayIsMissingNext <=> ~(now.day <= DaysIn(y, m))
  <2>1. DaysIn(y, m) \in 28 .. 31
    BY <1>2, DaysInRange
  <2> QED
    BY <1>1, <1>2, <1>3, <2>1 DEF DayIsMissingNext
<1>12. (m0 + 1) - 1 = m0 /\ Format(now) = <<y0, m0 + 1, now.day>>
  BY <1>1 DEF Format
<1>13. ASSUME ~DayIsMissingNext PROVE EndIsThisMonths
  <2>1. end = <<y0, m0 + 1, DaysIn(y0, m0)>>
    BY <1>8, <1>10, <1>13
  <2> QED
    BY <1>12, <2>1 DEF EndIsThisMonths, MonthOf, DaysOfMonth, end
<1> QED
  BY <1>7, <1>13 DEF MonthHasItsEnds, first

(* The first date of the month is its first day on every day of every year, *)
(* and the last date its last day on every day that the next month has.     *)
THEOREM EndsFound == Spec => []MonthHasItsEnds
<1>1. DateInv => MonthHasItsEnds
  BY EndsOfADate DEF DateInv
<1> QED
  BY <1>1, ClockShowsDates, PTL

-----------------------------------------------------------------------------
(* The first day of the week                                                *)

(* setDate(day + n) moves by n days.                                        *)
LEMMA SetDateMoves ==
  ASSUME NEW d \in Fields, NEW n \in Int
  PROVE  SetDate(d, d.day + n) = AddDays(d, n)
<1> DEFINE f == [d EXCEPT !.day = 1]
           k == d.day + n
           y == d.year
           m == d.month
<1>1. /\ f \in Fields /\ f.year = y /\ f.month = m /\ f.day = 1
      /\ d.day \in Int /\ k \in Int
      /\ y \in Int /\ m \in 0 .. 11
  BY DEF Fields
<1>2. \A y2, m2, n2 : At(f, y2, m2, n2) = At(d, y2, m2, n2)
  BY DEF At, Fields
<1>3. DaysIn(y, m) \in 28 .. 31
  BY <1>1, DaysInRange
<1>4. SetDate(d, d.day + n) = AddDays(f, k - 1)
  BY DEF SetDate
<1> HIDE DEF f
<1>5. 1 + (k - 1) = k /\ k - 1 \in Int
  BY <1>1
<1>6. CASE k \in 1 .. DaysIn(y, m)
  <2>1. AddDays(f, k - 1) = At(f, y, m, 1 + (k - 1))
    BY <1>1, <1>5, <1>6, AddWithin
  <2> QED
    BY <1>2, <1>4, <1>5, <1>6, <2>1, AddWithin
<1>7. CASE k > DaysIn(y, m)
  <2>1. AddDays(f, k - 1) = At(f, NextYear(y, m), NextMonth(m), 1 + (k - 1) - DaysIn(y, m))
    BY <1>1, <1>5, <1>7, AddAfter
  <2>2. d.day + n > DaysIn(d.year, d.month)
    BY <1>7
  <2>3. AddDays(d, n) = At(d, NextYear(y, m), NextMonth(m), k - DaysIn(y, m))
    BY <1>1, <1>3, <2>2, AddAfter
  <2>4. 1 + (k - 1) - DaysIn(y, m) = k - DaysIn(y, m)
    BY <1>1, <1>3, <1>5
  <2> HIDE DEF k, y, m
  <2> QED
    BY <1>2, <1>4, <2>1, <2>3, <2>4
<1>8. CASE k < 1
  <2> DEFINE py == PrevYear(y, m)
             pm == PrevMonth(m)
  <2>1. AddDays(f, k - 1) = At(f, py, pm, 1 + (k - 1) + DaysIn(py, pm))
    BY <1>1, <1>5, <1>8, AddBefore
  <2>2. AddDays(d, n) = At(d, py, pm, k + DaysIn(py, pm))
    BY <1>8, AddBefore
  <2> HIDE DEF py, pm
  <2> QED
    BY <1>2, <1>4, <1>5, <2>1, <2>2
<1> QED
  BY <1>1, <1>3, <1>6, <1>7, <1>8

(* Going on by at most 28 days and back by as many leads to the same date.  *)
LEMMA AddBack ==
  ASSUME NEW d, CalendarDate(d), NEW n \in 0 .. 28
  PROVE  AddDays(AddDays(d, n), -n) = d
<1> DEFINE y == d.year
           m == d.month
           e == AddDays(d, n)
           back == -n
<1>1. /\ d \in Fields /\ y \in Int /\ m \in 0 .. 11 /\ d.day \in 1 .. 31
      /\ d.day <= DaysIn(y, m) /\ n \in Int /\ back \in Int /\ back = 0 - n
  BY DEF CalendarDate, Fields
<1>2. DaysIn(y, m) \in 28 .. 31
  BY <1>1, DaysInRange
<1>3. d = At(d, y, m, d.day)
  BY <1>1, AtItself
<1> HIDE DEF back
<1>4. CASE d.day + n <= DaysIn(y, m)
  <2> DEFINE k == d.day + n
  <2>1. e = At(d, y, m, k) /\ k \in 1 .. 31 /\ k + back = d.day
    BY <1>1, <1>2, <1>4, AddWithin
  <2> HIDE DEF e, k
  <2>2. e \in Fields /\ e.year = y /\ e.month = m /\ e.day = k
    BY <1>1, <2>1 DEF At, Fields
  <2>3. AddDays(e, back) = At(e, y, m, k + back)
    BY <1>1, <1>2, <2>1, <2>2, AddWithin
  <2>4. At(e, y, m, d.day) = At(d, y, m, d.day)
    BY <2>1 DEF At, Fields
  <2> QED
    BY <1>3, <2>1, <2>3, <2>4 DEF e, back
<1>5. CASE ~(d.day + n <= DaysIn(y, m))
  <2> DEFINE ny == NextYear(y, m)
             nm == NextMonth(m)
             k == d.day + n - DaysIn(y, m)
  <2>1. e = At(d, ny, nm, k)
    BY <1>1, <1>2, <1>5, AddAfter
  <2>2. /\ k \in 1 .. 31 /\ k + back < 1 /\ k + back + DaysIn(y, m) = d.day
        /\ ny \in Int /\ nm \in 0 .. 11
        /\ PrevYear(ny, nm) = y /\ PrevMonth(nm) = m
    <3>1. /\ ny \in Int /\ nm \in 0 .. 11
          /\ PrevYear(ny, nm) = y /\ PrevMonth(nm) = m
      BY <1>1 DEF NextYear, NextMonth, PrevYear, PrevMonth
    <3> DEFINE x == d.day
               l == DaysIn(y, m)
    <3>2. /\ x \in 1 .. 31 /\ l \in 28 .. 31 /\ x <= l /\ n \in 0 .. 28
          /\ back = 0 - n /\ ~(x + n <= l)
      BY <1>1, <1>2, <1>5
    <3> HIDE DEF x, l
    <3>3. /\ x + n - l \in 1 .. 31 /\ (x + n - l) + back < 1
          /\ (x + n - l) + back + l = x
      BY <3>2
    <3> QED
      BY <3>1, <3>3 DEF x, l
  <2> HIDE DEF e, k, ny, nm
  <2>3. e \in Fields /\ e.year = ny /\ e.month = nm /\ e.day = k
    BY <1>1, <2>1, <2>2 DEF At, Fields
  <2>4. AddDays(e, back) = At(e, y, m, k + back + DaysIn(y, m))
    BY <1>1, <2>2, <2>3, AddBefore
  <2>5. At(e, y, m, d.day) = At(d, y, m, d.day)
    BY <2>1 DEF At, Fields
  <2> QED
    BY <1>3, <2>2, <2>4, <2>5 DEF e, back
<1> QED
  BY <1>1, <1>2, <1>4, <1>5

(* The days since Monday, on a day of the week.                             *)
Since(d) == IF WeekDay(d) = SUNDAY THEN 6 ELSE WeekDay(d) - 2

LEMMA DaysSinceMonday ==
  ASSUME NEW d, CalendarDate(d)
  PROVE  /\ WeekDay(d) \in 1 .. 7 /\ Since(d) \in 0 .. 6
         /\ (WeekDay(d) - MONDAY) % 7 = Since(d)
         /\ GetFirstDayOfWeek(d) = AddDays(d, 0 - Since(d))
<1>1. d \in Fields /\ DayNumber(d) \in Int
  BY DayNumberParts DEF CalendarDate, Fields
<1>2. WeekDay(d) \in 1 .. 7
  BY <1>1 DEF WeekDay
<1>3. Since(d) \in 0 .. 6 /\ (WeekDay(d) - MONDAY) % 7 = Since(d)
  <2>1. \A w \in 1 .. 7 : (w - 2) % 7 = IF w = 1 THEN 6 ELSE w - 2
    OBVIOUS
  <2> QED
    BY <1>2, <2>1 DEF Since, SUNDAY, MONDAY
<1>4. GetFirstDayOfWeek(d) = SetDate(d, d.day + (0 - Since(d)))
  <2>1. d.day \in Int
    BY <1>1 DEF Fields
  <2>2. CASE WeekDay(d) = 1
    <3>1. d.day - 7 + 1 = d.day + (0 - 6)
      BY <2>1
    <3> QED
      BY <2>2, <3>1 DEF GetFirstDayOfWeek, GetDay, Since, SUNDAY
  <2>3. CASE WeekDay(d) # 1
    <3>1. /\ WeekDay(d) - 1 # 0
          /\ d.day - (WeekDay(d) - 1) + 1 = d.day + (0 - (WeekDay(d) - 2))
      BY <1>2, <2>1, <2>3
    <3> QED
      BY <2>3, <3>1 DEF GetFirstDayOfWeek, GetDay, Since, SUNDAY
  <2> QED
    BY <2>2, <2>3
<1>5. 0 - Since(d) \in Int
  BY <1>3
<1> HIDE DEF Since
<1> QED
  BY <1>1, <1>2, <1>3, <1>4, <1>5, SetDateMoves

(* getFirstDayOfWeek finds the server's Monday, and again from that Monday  *)
(* and from the Sunday after it.                                           *)
LEMMA MondayOfADate ==
  ASSUME CalendarDate(now)
  PROVE  /\ WeekBeginsOnMonday
         /\ GetIntegralStartTime(GetFirstDayOfWeek(now)) = GetFirstWorkday(MONDAY)
<1> DEFINE since == Since(now)
           monday == AddDays(now, 0 - since)
           sunday == AddDays(monday, 6)
<1>1. /\ since \in 0 .. 6 /\ (WeekDay(now) - MONDAY) % 7 = since
      /\ WeekDay(now) \in 1 .. 7 /\ GetFirstDayOfWeek(now) = monday
  BY DaysSinceMonday
<1> HIDE DEF since
<1>2. 0 - since \in -28 .. 28
  BY <1>1
<1>3. CalendarDate(monday) /\ DayNumber(monday) = DayNumber(now) - since
  <2> DEFINE n == 0 - since
  <2>1. DayNumber(now) \in Int /\ since \in Int
    BY <1>1, WeekDayByRemainder
  <2>2. \A D \in Int : D + n = D - since
    BY <2>1
  <2>3. n \in -28 .. 28
    BY <1>2
  <2> HIDE DEF n
  <2>4. /\ CalendarDate(AddDays(now, n))
        /\ DayNumber(AddDays(now, n)) = DayNumber(now) + n
    BY <2>3, AddDaysCounts
  <2> QED
    BY <2>1, <2>2, <2>4 DEF n
<1>4. WeekDay(monday) = MONDAY
  <2>1. DayNumber(now) \in Int /\ DayNumber(monday) \in Int
    BY <1>3, WeekDayByRemainder
  <2>2. DayNumber(now) % 7 = (IF since = 6 THEN 0 ELSE since + 1)
    <3>1. since = IF WeekDay(now) = 1 THEN 6 ELSE WeekDay(now) - 2
      BY DEF since, Since, SUNDAY
    <3>2. WeekDay(now) - 1 = DayNumber(now) % 7
      BY <2>1 DEF WeekDay
    <3> QED
      BY <1>1, <3>1, <3>2
  <2>3. \A D \in Int, s \in 0 .. 6 :
          D % 7 = (IF s = 6 THEN 0 ELSE s + 1) => (D - s) % 7 = 1
    OBVIOUS
  <2>4. DayNumber(monday) % 7 = 1
    BY <1>1, <1>3, <2>1, <2>2, <2>3
  <2> QED
    BY <2>4 DEF WeekDay, MONDAY
<1> HIDE DEF monday
<1>5. GetFirstDayOfWeek(monday) = monday
  <2>1. Since(monday) = 0
    BY <1>4 DEF Since, SUNDAY, MONDAY
  <2>2. GetFirstDayOfWeek(monday) = AddDays(monday, 0)
    BY <1>3, <2>1, DaysSinceMonday
  <2>3. /\ monday \in Fields /\ monday.day \in 1 .. DaysIn(monday.year, monday.month)
        /\ monday.day + 0 = monday.day
    BY <1>3, DaysInRange DEF CalendarDate, Fields
  <2>4. AddDays(monday, 0) = At(monday, monday.year, monday.month, monday.day)
    BY <2>3, AddWithin
  <2> QED
    BY <2>2, <2>3, <2>4, AtItself
<1>6. CalendarDate(sunday) /\ WeekDay(sunday) = SUNDAY
  <2>1. CalendarDate(sunday) /\ WeekDay(sunday) = ((DayNumber(monday) + 6) % 7) + 1
    BY <1>3, AddDaysCounts, WeekDayOfSum
  <2>2. DayNumber(monday) \in Int /\ DayNumber(monday) % 7 = 1
    BY <1>3, <1>4, WeekDayByRemainder DEF MONDAY, SUNDAY, SATURDAY
  <2>3. (DayNumber(monday) + 6) % 7 = 0
    BY <2>2
  <2> QED
    BY <2>1, <2>3 DEF SUNDAY
<1>7. GetFirstDayOfWeek(sunday) = monday
  <2>1. Since(sunday) = 6
    BY <1>6 DEF Since
  <2>2. GetFirstDayOfWeek(sunday) = AddDays(sunday, -6)
    BY <1>6, <2>1, DaysSinceMonday
  <2> QED
    BY <1>3, <2>2, AddBack
<1>8. GetMyDay(monday) = "Monday"
  BY <1>4 DEF GetMyDay, GetDay, MONDAY
<1>9. DayNumber(now) - DayNumber(monday) \in 0 .. 6
  BY <1>1, <1>3, WeekDayByRemainder
<1>10. SetWeekDay(now, MONDAY, MONDAY) = monday
  <2>1. (MONDAY - MONDAY) % 7 = 0
    BY DEF MONDAY
  <2> QED
    BY <1>1, <2>1 DEF SetWeekDay, monday
<1> QED
  BY <1>1, <1>5, <1>7, <1>8, <1>9, <1>10 DEF WeekBeginsOnMonday, GetFirstWorkday

-----------------------------------------------------------------------------
(* The month before, and the first days of the month and the year           *)

LEMMA MonthBeforeIsServers ==
  ASSUME CalendarDate(now)
  PROVE  GetPreMonth(Format(now)) = Format(AddMonths(now, -1))
<1> DEFINE y == PrevYear(now.year, now.month)
           m == PrevMonth(now.month)
           months == 12 * now.year + now.month + -1
           day == IF now.day > DaysIn(y, m) THEN DaysIn(y, m) ELSE now.day
<1>1. /\ now \in Fields /\ now.year \in Int /\ now.month \in 0 .. 11
      /\ now.day \in 1 .. 31
  BY DEF CalendarDate, Fields
<1>2. y \in Int /\ m \in 0 .. 11 /\ months = 12 * y + m
  BY <1>1 DEF PrevYear, PrevMonth
<1> HIDE DEF y, m
<1>3. months \div 12 = y /\ months % 12 = m
  BY <1>2
<1>4. AddMonths(now, -1) = At(now, y, m, day)
  <2> HIDE DEF day, months
  <2>1. AddMonths(now, -1) =
          [now EXCEPT !.year = y, !.month = m,
                      !.day = IF @ > DaysIn(y, m) THEN DaysIn(y, m) ELSE @]
    BY <1>3 DEF AddMonths, months
  <2> QED
    BY <1>1, <2>1 DEF At, Fields, day
<1>5. Format(AddMonths(now, -1)) = <<y, m + 1, day>>
  <2> HIDE DEF day
  <2> QED
    BY <1>1, <1>4, FormatAt
<1>6. GetPreMonth(<<now.year, now.month + 1, now.day>>) = <<y, m + 1, day>>
  <2> DEFINE a == now.month + 1
             y2 == IF a = 1 THEN now.year - 1 ELSE now.year
             m2 == IF a = 1 THEN 12 ELSE a - 1
             days == DaysIn(y2, m2 - 1)
  <2>1. y2 = y /\ m2 = m + 1 /\ m2 - 1 = m
    BY <1>1 DEF y, m, PrevYear, PrevMonth
  <2>2. GetPreMonth(<<now.year, a, now.day>>)
          = <<y2, m2, IF now.day > days THEN days ELSE now.day>>
    BY DEF GetPreMonth, DaysOfMonth
  <2> QED
    BY <2>1, <2>2
<1> QED
  BY <1>5, <1>6 DEF Format

LEMMA FirstDaysAreServers ==
  ASSUME CalendarDate(now)
  PROVE  /\ Format(GetFirstDayOfMonth(now)) = Format(GetMonthStartTime(0))
         /\ GetFirstDayOfYear(now) = GetFirstDayOfSeason(GetFirstDayOfYear(now))
         /\ Format(GetFirstDayOfYear(now)) = <<now.year, 1, 1>>
<1> DEFINE y == now.year
           m == now.month
           months == 12 * now.year + now.month + 0
           f == SetDate(now, 1)
           e == SetMonth(f, 0)
<1>1. now \in Fields /\ y \in Int /\ m \in 0 .. 11
  BY DEF CalendarDate, Fields
<1>2. f = At(now, y, m, 1)
  BY <1>1, SetDateFirst
<1>3. Format(f) = <<y, m + 1, 1>>
  <2> HIDE DEF f
  <2> QED
    BY <1>1, <1>2, FormatAt
<1>4. Format(GetMonthStartTime(0)) = <<y, m + 1, 1>>
  <2>1. months \div 12 = y /\ months % 12 = m
    BY <1>1
  <2> HIDE DEF months
  <2>2. PICK n : AddMonths(now, 0) = [now EXCEPT !.year = y, !.month = m, !.day = n]
    BY <2>1 DEF AddMonths, months
  <2> QED
    BY <1>1, <2>2 DEF GetMonthStartTime, GetIntegralStartTime, GetResetTime, Format, Fields
<1>5. /\ f \in Fields /\ f.year = y /\ f.month = m /\ f.day = 1
  <2> HIDE DEF f
  <2> QED
    BY <1>1, <1>2, FirstIsThere
<1>6. DaysIn(y, 0) = 31
  BY DEF DaysIn, MonthLengths
<1> HIDE DEF f
<1>7. e = At(f, y, 0, 1)
  BY <1>1, <1>5, <1>6, SetMonthDate
<1>8. /\ e \in Fields /\ e.year = y /\ e.month = 0 /\ e.day = 1
  <2> DEFINE january == 0
  <2>1. january \in 0 .. 11 /\ e = At(f, y, january, 1)
    BY <1>7
  <2> HIDE DEF e, january
  <2>2. /\ At(f, y, january, 1) \in Fields
        /\ At(f, y, january, 1).year = y /\ At(f, y, january, 1).month = january
        /\ At(f, y, january, 1).day = 1
    BY <1>1, <1>5, <2>1, FirstIsThere
  <2> QED
    BY <2>1, <2>2 DEF january
<1>9. e = At(e, y, 0, 1)
  <2> HIDE DEF e
  <2> QED
    BY <1>8, AtItself
<1>10. Format(e) = <<y, 1, 1>>
  <2> HIDE DEF e
  <2> QED
    BY <1>8 DEF Format
<1> HIDE DEF e
<1>11. SetMonth(e, 0) = e
  BY <1>1, <1>6, <1>8, <1>9, SetMonthDate
<1>12. SetDate(e, 1) = e
  BY <1>8, <1>9, SetDateFirst
<1>13. GetFirstDayOfSeason(e) = e
  BY <1>8, <1>11, <1>12 DEF GetFirstDayOfSeason
<1> QED
  BY <1>3, <1>4, <1>10, <1>13 DEF GetFirstDayOfMonth, GetFirstDayOfYear, e, f

(* On every day of every year the helpers of the pages and the server's     *)
(* find the same first day of the week and of the month, and the same date *)
(* a month ago.                                                            *)
THEOREM PagesAgree == Spec => []PagesAgreeWithServer
<1>1. DateInv => PagesAgreeWithServer
  BY MondayOfADate, MonthBeforeIsServers, FirstDaysAreServers
     DEF DateInv, PagesAgreeWithServer
<1> QED
  BY <1>1, ClockShowsDates, PTL
=============================================================================
