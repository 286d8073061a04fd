---------------------------- MODULE PeriodProofs -----------------------------
(* That the periods the server counts by fit together on every day of every *)
(* year: months, quarters, the workdays of a week and rolled dates.  Each   *)
(* bound of a period is written down as the first or the last of a month,   *)
(* and the days between two of them follow from the month table.  Last, that *)
(* getTimeOffsetDesc describes the distance between two moments.            *)
EXTENDS PageDatesProofs

FirstOf(y, m) == GetIntegralStartTime(At(now, y, m, 1))
LastOf(y, m)  == GetIntegralEndTime(At(now, y, m, DaysIn(y, m)))

(* The time of the clock is a time of a day.                                *)
TimeInv ==
  /\ CalendarDate(now)
  /\ now.hour \in 0 .. 23 /\ now.minute \in 0 .. 59 /\ now.second \in 0 .. 59

LEMMA ClockShowsTimes == Spec => []TimeInv
<1> DEFINE Clock(d) == /\ d.hour \in 0 .. 23 /\ d.minute \in 0 .. 59
                       /\ d.second \in 0 .. 59
<1>1. \A y, m, n : \A t \in Times : Clock(On(y, m, n, t))
  BY DateUtilAssumption DEF On, TimeOfDay
<1>2. Init => Clock(now)
  BY <1>1 DEF Init
<1>3. Clock(now) /\ [Next]_now => Clock(now)'
  BY <1>1 DEF Next, LaterToday, Tomorrow
<1>4. DateInv /\ Clock(now) => TimeInv
  BY DEF DateInv, TimeInv
<1> HIDE DEF Clock
<1> QED
  BY <1>2, <1>3, <1>4, ClockShowsDates, PTL DEF Spec

LEMMA HoursInSeconds ==
  ASSUME NEW h \in 0 .. 23
  PROVE  3600 * h \in Int /\ 0 <= 3600 * h /\ 3600 * h <= 82800
OBVIOUS

LEMMA MinutesInSeconds ==
  ASSUME NEW n \in 0 .. 59
  PROVE  60 * n \in Int /\ 0 <= 60 * n /\ 60 * n <= 3540
OBVIOUS

LEMMA SecondsOfADay ==
  ASSUME TimeInv
  PROVE  Seconds(now) \in Int /\ 0 <= Seconds(now) /\ Seconds(now) <= 86399
<1> DEFINE h == 3600 * now.hour
           n == 60 * now.minute
           s == now.second
<1>1. h \in Int /\ 0 <= h /\ h <= 82800
  BY HoursInSeconds DEF TimeInv
<1>2. n \in Int /\ 0 <= n /\ n <= 3540
  BY MinutesInSeconds DEF TimeInv
<1>3. s \in Int /\ 0 <= s /\ s <= 59
  BY DEF TimeInv
<1> HIDE DEF h, n, s
<1>4. h + n + s \in Int /\ 0 <= h + n + s /\ h + n + s <= 86399
  BY <1>1, <1>2, <1>3
<1> QED
  BY <1>4 DEF Seconds, h, n, s

-----------------------------------------------------------------------------
(* The bounds of a month                                                    *)

LEMMA ResetIsThere ==
  ASSUME NEW d \in Fields, NEW h \in Int, NEW n \in Int
  PROVE  LET r == GetResetTime(d, h, n, n)
         IN  /\ r \in Fields
             /\ r.year = d.year /\ r.month = d.month /\ r.day = d.day
             /\ r.milli = d.milli
             /\ r.hour = h /\ r.minute = n /\ r.second = n
BY DEF GetResetTime, Fields

LEMMA FirstOfIsThere ==
  ASSUME now \in Fields, NEW y \in Int, NEW m \in 0 .. 11
  PROVE  LET d == FirstOf(y, m)
         IN  /\ d \in Fields
             /\ d.year = y /\ d.month = m /\ d.day = 1 /\ d.milli = now.milli
             /\ d.hour = 0 /\ d.minute = 0 /\ d.second = 0
<1> DEFINE d == FirstOf(y, m)
           n == 1
           e == At(now, y, m, n)
           zero == 0
<1>1. n \in 1 .. 31 /\ zero \in Int
  OBVIOUS
<1> HIDE DEF n, zero, d
<1>2. e \in Fields /\ e.year = y /\ e.month = m /\ e.day = n /\ e.milli = now.milli
  <2> HIDE DEF e
  <2>1. /\ At(now, y, m, n) \in Fields
        /\ At(now, y, m, n).year = y /\ At(now, y, m, n).month = m
        /\ At(now, y, m, n).day = n
        /\ At(now, y, m, n).milli = now.milli
    BY <1>1 DEF At, Fields
  <2> QED
    BY <2>1 DEF e
<1>3. d = GetResetTime(e, zero, zero, zero)
  BY DEF FirstOf, GetIntegralStartTime, n, d, zero
<1> HIDE DEF e
<1>4. LET r == GetResetTime(e, zero, zero, zero)
      IN  /\ r \in Fields
          /\ r.year = e.year /\ r.month = e.month /\ r.day = e.day
          /\ r.milli = e.milli
          /\ r.hour = zero /\ r.minute = zero /\ r.second = zero
  BY <1>1, <1>2, ResetIsThere
<1> QED
  BY <1>2, <1>3, <1>4 DEF d, n, zero

LEMMA LastOfIsThere ==
  ASSUME now \in Fields, NEW y \in Int, NEW m \in 0 .. 11
  PROVE  LET d == LastOf(y, m)
         IN  /\ d \in Fields
             /\ d.year = y /\ d.month = m /\ d.day = DaysIn(y, m) /\ d.milli = now.milli
             /\ d.hour = 23 /\ d.minute = 59 /\ d.second = 59
<1> DEFINE d == LastOf(y, m)
           n == DaysIn(y, m)
           e == At(now, y, m, n)
           h == 23
           s == 59
<1>1. n \in 1 .. 31 /\ h \in Int /\ s \in Int
  <2>1. DaysIn(y, m) \in 28 .. 31
    BY DaysInRange
  <2> QED
    BY <2>1
<1> HIDE DEF n, h, s, d
<1>2. e \in Fields /\ e.year = y /\ e.month = m /\ e.day = n /\ e.milli = now.milli
  <2> HIDE DEF e
  <2>1. /\ At(now, y, m, n) \in Fields
        /\ At(now, y, m, n).year = y /\ At(now, y, m, n).month = m
        /\ At(now, y, m, n).day = n
        /\ At(now, y, m, n).milli = now.milli
    BY <1>1 DEF At, Fields
  <2> QED
    BY <2>1 DEF e
<1>3. d = GetResetTime(e, h, s, s)
  BY DEF LastOf, GetIntegralEndTime, n, d, h, s
<1> HIDE DEF e
<1>4. LET r == GetResetTime(e, h, s, s)
      IN  /\ r \in Fields
          /\ r.year = e.year /\ r.month = e.month /\ r.day = e.day
          /\ r.milli = e.milli
          /\ r.hour = h /\ r.minute = s /\ r.second = s
  BY <1>1, <1>2, ResetIsThere
<1> QED
  BY <1>2, <1>3, <1>4 DEF d, n, h, s

(* The time of day of the two bounds.                                       *)
LEMMA FirstOfTime ==
  ASSUME now \in Fields, NEW y \in Int, NEW m \in 0 .. 11
  PROVE  /\ FirstOf(y, m).hour = 0 /\ FirstOf(y, m).minute = 0
         /\ FirstOf(y, m).second = 0 /\ FirstOf(y, m).milli = now.milli
<1>1. LET d == FirstOf(y, m)
      IN  /\ d \in Fields
          /\ d.year = y /\ d.month = m /\ d.day = 1 /\ d.milli = now.milli
          /\ d.hour = 0 /\ d.minute = 0 /\ d.second = 0
  BY FirstOfIsThere, Zenon
<1> QED
  BY <1>1, Zenon

LEMMA LastOfTime ==
  ASSUME now \in Fields, NEW y \in Int, NEW m \in 0 .. 11
  PROVE  /\ LastOf(y, m).hour = 23 /\ LastOf(y, m).minute = 59
         /\ LastOf(y, m).second = 59 /\ LastOf(y, m).milli = now.milli
<1>1. LET d == LastOf(y, m)
      IN  /\ d \in Fields
          /\ d.year = y /\ d.month = m /\ d.day = DaysIn(y, m) /\ d.milli = now.milli
          /\ d.hour = 23 /\ d.minute = 59 /\ d.second = 59
  BY LastOfIsThere, SMTT(30)
<1> QED
  BY <1>1, Zenon

LEMMA DaysOfBounds ==
  ASSUME now \in Fields, NEW y \in Int, NEW m \in 0 .. 11
  PROVE  /\ DayNumber(FirstOf(y, m)) = YearDays(y) + MonthDays(y, m) + 1
         /\ DayNumber(LastOf(y, m)) = YearDays(y) + MonthDays(y, m) + DaysIn(y, m)
         /\ YearDays(y) \in Int /\ MonthDays(y, m) \in Int /\ DaysIn(y, m) \in 28 .. 31
<1>1. /\ FirstOf(y, m) \in Fields /\ FirstOf(y, m).year = y
      /\ FirstOf(y, m).month = m /\ FirstOf(y, m).day = 1
  BY FirstOfIsThere
<1>4. /\ LastOf(y, m) \in Fields /\ LastOf(y, m).year = y
      /\ LastOf(y, m).month = m /\ LastOf(y, m).day = DaysIn(y, m)
  BY LastOfIsThere
<1>2. /\ DayNumber(FirstOf(y, m)) = YearDays(y) + MonthDays(y, m) + 1
      /\ YearDays(y) \in Int /\ MonthDays(y, m) \in Nat
  BY <1>1, DayNumberParts
<1>3. DayNumber(LastOf(y, m)) = YearDays(y) + MonthDays(y, m) + DaysIn(y, m)
  BY <1>4, DayNumberParts
<1> QED
  BY <1>2, <1>3, DaysInRange

(* The first of the next month is the day after the last of this one.       *)
LEMMA NextMonthBegins ==
  ASSUME now \in Fields, NEW y \in Int, NEW m \in 0 .. 11
  PROVE  IsFollowedBy(LastOf(y, m), FirstOf(NextYear(y, m), NextMonth(m)))
<1> DEFINE ny == NextYear(y, m)
           nm == NextMonth(m)
<1>1. ny \in Int /\ nm \in 0 .. 11
  BY DEF NextYear, NextMonth
<1>2. YearDays(ny) + MonthDays(ny, nm) = YearDays(y) + MonthDays(y, m) + DaysIn(y, m)
  <2>1. CASE m = 11
    <3>1. /\ YearDays(y + 1) = YearDays(y) + MonthDays(y, 11) + 31
          /\ MonthDays(y + 1, 0) = 0 /\ DaysIn(y, 11) = 31
          /\ YearDays(y) \in Int /\ MonthDays(y, 11) \in Int
      BY <2>1, NextYearFollows, DaysOfBounds
    <3> QED
      BY <2>1, <3>1 DEF NextYear, NextMonth
  <2>2. CASE m # 11
    <3>1. m \in 0 .. 10
      BY <2>2
    <3>2. MonthDays(y, m + 1) = MonthDays(y, m) + DaysIn(y, m)
      BY <3>1, NextMonthFollows
    <3>3. YearDays(y) \in Int /\ MonthDays(y, m) \in Int /\ DaysIn(y, m) \in 28 .. 31
      BY DaysOfBounds
    <3> QED
      BY <2>2, <3>2, <3>3 DEF NextYear, NextMonth
  <2> QED
    BY <2>1, <2>2
<1> HIDE DEF ny, nm
<1>3. DayNumber(FirstOf(ny, nm)) = DayNumber(LastOf(y, m)) + 1
  <2>1. /\ DayNumber(FirstOf(ny, nm)) = YearDays(ny) + MonthDays(ny, nm) + 1
        /\ DayNumber(LastOf(y, m)) = YearDays(y) + MonthDays(y, m) + DaysIn(y, m)
    BY <1>1, DaysOfBounds
  <2> QED
    BY <1>2, <2>1
<1>4. /\ LastOf(y, m).milli = now.milli
      /\ LastOf(y, m).hour = 23 /\ LastOf(y, m).minute = 59 /\ LastOf(y, m).second = 59
  BY LastOfTime, Zenon
<1>5. /\ FirstOf(ny, nm).milli = now.milli
      /\ FirstOf(ny, nm).hour = 0 /\ FirstOf(ny, nm).minute = 0
      /\ FirstOf(ny, nm).second = 0
  BY <1>1, FirstOfTime, Zenon
<1> QED
  BY <1>3, <1>4, <1>5 DEF IsFollowedBy, ny, nm

(* A month is over when one of the three after it begins.                   *)
LEMMA MonthsGrow ==
  ASSUME NEW y \in Int, NEW m \in 0 .. 11, NEW k \in 0 .. 11, k \in m + 1 .. m + 3
  PROVE  MonthDays(y, m) + DaysIn(y, m) <= MonthDays(y, k)
<1>1. \A i \in 0 .. 11 : MonthDays(y, i) \in Nat /\ DaysIn(y, i) \in 28 .. 31
  BY MonthTable, DaysInRange DEF MonthDays
<1>2. MonthDays(y, m + 1) = MonthDays(y, m) + DaysIn(y, m)
  BY NextMonthFollows
<1>3. m + 2 <= 11 => MonthDays(y, (m + 1) + 1) = MonthDays(y, m + 1) + DaysIn(y, m + 1)
  <2> DEFINE i == m + 1
  <2>1. m + 2 <= 11 => i \in 0 .. 10
    OBVIOUS
  <2> HIDE DEF i
  <2>2. i \in 0 .. 10 => MonthDays(y, i + 1) = MonthDays(y, i) + DaysIn(y, i)
    BY NextMonthFollows
  <2> QED
    BY <2>1, <2>2 DEF i
<1>4. m + 3 <= 11 => MonthDays(y, (m + 2) + 1) = MonthDays(y, m + 2) + DaysIn(y, m + 2)
  <2> DEFINE i == m + 2
  <2>1. m + 3 <= 11 => i \in 0 .. 10
    OBVIOUS
  <2> HIDE DEF i
  <2>2. i \in 0 .. 10 => MonthDays(y, i + 1) = MonthDays(y, i) + DaysIn(y, i)
    BY NextMonthFollows
  <2> QED
    BY <2>1, <2>2 DEF i
<1>5. (m + 1) + 1 = m + 2 /\ (m + 2) + 1 = m + 3
  OBVIOUS
<1>6. CASE k = m + 1
  BY <1>1, <1>2, <1>6
<1>7. CASE k = m + 2
  <2>1. MonthDays(y, k) = MonthDays(y, m + 1) + DaysIn(y, m + 1)
    BY <1>3, <1>5, <1>7
  <2>2. m + 1 \in 0 .. 11
    BY <1>7
  <2> QED
    BY <1>1, <1>2, <2>1, <2>2
<1>8. CASE k = m + 3
  <2>1. m + 1 \in 0 .. 11 /\ m + 2 \in 0 .. 11
    BY <1>8
  <2>2. MonthDays(y, k) = MonthDays(y, m + 2) + DaysIn(y, m + 2)
    BY <1>4, <1>5, <1>8
  <2>3. MonthDays(y, m + 2) = MonthDays(y, m + 1) + DaysIn(y, m + 1)
    BY <1>3, <1>5, <2>1
  <2> QED
    BY <1>1, <1>2, <2>1, <2>2, <2>3
<1> QED
  BY <1>6, <1>7, <1>8

(* Now is between the first of a month not later and the last of one not    *)
(* earlier, as far apart as a quarter needs.                               *)
LEMMA NowIsBetween ==
  ASSUME TimeInv, NEW s \in 0 .. 11, NEW e \in 0 .. 11,
         now.month \in s .. s + 3, e \in now.month .. now.month + 3
  PROVE  /\ ~IsBefore(now, FirstOf(now.year, s))
         /\ ~IsBefore(LastOf(now.year, e), now)
<1> DEFINE y == now.year
           m == now.month
           first == FirstOf(y, s)
           last == LastOf(y, e)
<1>1. /\ now \in Fields /\ y \in Int /\ m \in 0 .. 11 /\ now.day \in 1 .. 31
      /\ now.day <= DaysIn(y, m) /\ now.milli \in Int
  BY DEF TimeInv, CalendarDate, Fields
<1>2. /\ DayNumber(now) = YearDays(y) + MonthDays(y, m) + now.day
      /\ YearDays(y) \in Int /\ MonthDays(y, m) \in Int /\ DayNumber(now) \in Int
  BY <1>1, DayNumberParts
<1>3. Seconds(now) \in Int /\ 0 <= Seconds(now) /\ Seconds(now) <= 86399
  BY SecondsOfADay
<1> HIDE DEF y, m, first, last
<1>4. DayNumber(first) <= DayNumber(now) /\ DayNumber(first) \in Int
  <2>1. /\ DayNumber(first) = YearDays(y) + MonthDays(y, s) + 1
        /\ MonthDays(y, s) \in Int /\ DaysIn(y, s) \in 28 .. 31
    BY <1>1, DaysOfBounds DEF first
  <2>2. m = s \/ MonthDays(y, s) + DaysIn(y, s) <= MonthDays(y, m)
    <3>1. m = s \/ m \in s + 1 .. s + 3
      BY <1>1 DEF m
    <3> QED
      BY <1>1, <3>1, MonthsGrow
  <2> QED
    BY <1>1, <1>2, <2>1, <2>2
<1>5. DayNumber(now) <= DayNumber(last) /\ DayNumber(last) \in Int
  <2>1. /\ DayNumber(last) = YearDays(y) + MonthDays(y, e) + DaysIn(y, e)
        /\ MonthDays(y, e) \in Int /\ DaysIn(y, e) \in 28 .. 31
    BY <1>1, DaysOfBounds DEF last
  <2>2. DaysIn(y, m) \in 28 .. 31
    BY <1>1, DaysInRange
  <2>3. m = e \/ MonthDays(y, m) + DaysIn(y, m) <= MonthDays(y, e)
    <3>1. e = m \/ e \in m + 1 .. m + 3
      BY <1>1 DEF m
    <3> QED
      BY <1>1, <3>1, MonthsGrow
  <2> QED
    BY <1>1, <1>2, <2>1, <2>2, <2>3
<1>6. /\ Seconds(first) = 0 /\ Seconds(last) = 86399
      /\ first.milli = now.milli /\ last.milli = now.milli
  <2>1. now \in Fields /\ y \in Int
    BY <1>1
  <2>2. /\ FirstOf(y, s).hour = 0 /\ FirstOf(y, s).minute = 0
        /\ FirstOf(y, s).second = 0 /\ FirstOf(y, s).milli = now.milli
    BY <2>1, FirstOfTime, Zenon
  <2>3. /\ LastOf(y, e).hour = 23 /\ LastOf(y, e).minute = 59
        /\ LastOf(y, e).second = 59 /\ LastOf(y, e).milli = now.milli
    BY <2>1, LastOfTime, Zenon
  <2> QED
    BY <2>2, <2>3 DEF Seconds, first, last
<1>7. ~IsBefore(now, first) /\ ~IsBefore(last, now)
  BY <1>1, <1>2, <1>3, <1>4, <1>5, <1>6 DEF IsBefore
<1> QED
  BY <1>7 DEF first, last, y

-----------------------------------------------------------------------------
(* Months                                                                   *)

(* add(MONTH, k), to month m of year y.                                     *)
LEMMA AddMonthsTo ==
  ASSUME NEW d \in Fields, NEW k \in Int, NEW y \in Int, NEW m \in 0 .. 11,
         12 * d.year + d.month + k = 12 * y + m
  PROVE  AddMonths(d, k) =
           At(d, y, m, IF d.day > DaysIn(y, m) THEN DaysIn(y, m) ELSE d.day)
<1> DEFINE months == 12 * d.year + d.month + k
           day == IF d.day > DaysIn(y, m) THEN DaysIn(y, m) ELSE d.day
<1>0. d.year \in Int /\ d.month \in 0 .. 11
  BY DEF Fields
<1>1. months \div 12 = y /\ months % 12 = m
  BY <1>0
<1> HIDE DEF months
<1>2. AddMonths(d, k) = [d EXCEPT !.year = y, !.month = m,
                                  !.day = IF @ > DaysIn(y, m) THEN DaysIn(y, m) ELSE @]
  BY <1>1 DEF AddMonths, months
<1> QED
  BY <1>2 DEF At, Fields

LEMMA MonthTimes ==
  ASSUME CalendarDate(now), NEW k \in Int, NEW y \in Int, NEW m \in 0 .. 11,
         12 * now.year + now.month + k = 12 * y + m
  PROVE  GetMonthStartTime(k) = FirstOf(y, m) /\ GetMonthEndTime(k) = LastOf(y, m)
<1> DEFINE n == IF now.day > DaysIn(y, m) THEN DaysIn(y, m) ELSE now.day
           cal == At(now, y, m, n)
<1>1. now \in Fields
  BY DEF CalendarDate
<1>2. AddMonths(now, k) = cal
  BY <1>1, AddMonthsTo
<1> HIDE DEF n
<1>3. cal.year = y /\ cal.month = m
  BY <1>1 DEF At, Fields
<1>4. [cal EXCEPT !.day = 1] = At(now, y, m, 1)
  BY <1>1 DEF At, Fields
<1>5. [cal EXCEPT !.day = DaysIn(y, m)] = At(now, y, m, DaysIn(y, m))
  BY <1>1 DEF At, Fields
<1> HIDE DEF cal
<1>6. GetMonthStartTime(k) = FirstOf(y, m)
  BY <1>2, <1>4 DEF GetMonthStartTime, FirstOf
<1>7. GetMonthEndTime(k) = LastOf(y, m)
  BY <1>2, <1>3, <1>5 DEF GetMonthEndTime, GetDayOfMonth, LastOf
<1> QED
  BY <1>6, <1>7

LEMMA MonthsOfADate == TimeInv => MonthsFollow
<1> SUFFICES ASSUME TimeInv PROVE MonthsFollow
  OBVIOUS
<1> DEFINE y == now.year
           m == now.month
           ny == NextYear(y, m)
           nm == NextMonth(m)
           py == PrevYear(y, m)
           pm == PrevMonth(m)
<1>1. CalendarDate(now) /\ now \in Fields /\ y \in Int /\ m \in 0 .. 11
  BY DEF TimeInv, CalendarDate, Fields
<1>2. /\ ny \in Int /\ nm \in 0 .. 11 /\ 12 * y + m + 1 = 12 * ny + nm
      /\ py \in Int /\ pm \in 0 .. 11 /\ 12 * y + m + -1 = 12 * py + pm
      /\ NextYear(py, pm) = y /\ NextMonth(pm) = m
      /\ 12 * y + m + 0 = 12 * y + m
  BY <1>1 DEF NextYear, NextMonth, PrevYear, PrevMonth
<1> HIDE DEF ny, nm, py, pm
<1>3. GetMonthStartTime(0) = FirstOf(y, m) /\ GetMonthEndTime(0) = LastOf(y, m)
  BY <1>1, <1>2, MonthTimes
<1>4. GetMonthStartTime(1) = FirstOf(ny, nm) /\ GetMonthEndTime(1) = LastOf(ny, nm)
  BY <1>1, <1>2, MonthTimes
<1>5. GetMonthStartTime(-1) = FirstOf(py, pm) /\ GetMonthEndTime(-1) = LastOf(py, pm)
  BY <1>1, <1>2, MonthTimes
<1>6. IsFollowedBy(GetMonthEndTime(0), GetMonthStartTime(1))
  BY <1>1, <1>3, <1>4, NextMonthBegins DEF ny, nm
<1>7. IsFollowedBy(GetMonthEndTime(-1), GetMonthStartTime(0))
  <2>1. IsFollowedBy(LastOf(py, pm), FirstOf(NextYear(py, pm), NextMonth(pm)))
    BY <1>1, <1>2, NextMonthBegins
  <2> QED
    BY <1>2, <1>3, <1>5, <2>1
<1>8. \A i \in Int, j \in 0 .. 11 : FirstOf(i, j).month = LastOf(i, j).month
  <2> SUFFICES ASSUME NEW i \in Int, NEW j \in 0 .. 11
               PROVE  FirstOf(i, j).month = LastOf(i, j).month
    OBVIOUS
  <2>1. FirstOf(i, j).month = j
    BY <1>1, FirstOfIsThere
  <2>2. LastOf(i, j).month = j
    BY <1>1, LastOfIsThere
  <2> QED
    BY <2>1, <2>2
<1>9. \A k \in -1 .. 1 : GetMonthStartTime(k).month = GetMonthEndTime(k).month
  <2>1. GetMonthStartTime(0).month = GetMonthEndTime(0).month
    BY <1>1, <1>3, <1>8
  <2>2. GetMonthStartTime(1).month = GetMonthEndTime(1).month
    BY <1>2, <1>4, <1>8
  <2>3. GetMonthStartTime(-1).month = GetMonthEndTime(-1).month
    BY <1>2, <1>5, <1>8
  <2>4. \A k \in -1 .. 1 : k = -1 \/ k = 0 \/ k = 1
    OBVIOUS
  <2> QED
    BY <2>1, <2>2, <2>3, <2>4
<1>10. ~IsBefore(now, GetMonthStartTime(0)) /\ ~IsBefore(GetMonthEndTime(0), now)
  BY <1>1, <1>3, NowIsBetween
<1>11. \A k \in {-1, 0} : IsFollowedBy(GetMonthEndTime(k), GetMonthStartTime(k + 1))
  <2>1. -1 + 1 = 0 /\ 0 + 1 = 1
    OBVIOUS
  <2> QED
    BY <1>6, <1>7, <2>1
<1> QED
  BY <1>9, <1>10, <1>11 DEF MonthsFollow

-----------------------------------------------------------------------------
(* Quarters                                                                 *)

LEMMA QuarterOfADate == TimeInv => QuarterEndsAfterThreeMonths
<1> SUFFICES ASSUME TimeInv PROVE QuarterEndsAfterThreeMonths
  OBVIOUS
<1> DEFINE y == now.year
           m == now.month
           n == now.day
           q == QuarterStartMonth(m)
           third == q + 2
           last == IF n > DaysIn(y, third) THEN q + 3 ELSE third
           k == IF n > DaysIn(y, third) THEN 4 ELSE 3
           cal == Resolve([now EXCEPT !.month = QuarterStartMonth(@) + 2])
<1>1. /\ CalendarDate(now) /\ now \in Fields
      /\ y \in Int /\ m \in 0 .. 11 /\ n \in 1 .. 31
  BY DEF TimeInv, CalendarDate, Fields
<1>2. q \in {0, 3, 6, 9} /\ m \in q .. q + 2
  BY <1>1 DEF QuarterStartMonth
<1>3. /\ DaysIn(y, third) \in 28 .. 31 /\ third \in 0 .. 11 /\ q \in 0 .. 11
      /\ q = 9 => DaysIn(y, third) = 31
  <2>1. third \in 0 .. 11 /\ q \in 0 .. 11
    BY <1>2
  <2>2. q = 9 => third = 11
    OBVIOUS
  <2>3. DaysIn(y, 11) = 31
    BY <1>1, NextYearFollows
  <2> HIDE DEF third, q
  <2> QED
    BY <1>1, <2>1, <2>2, <2>3, DaysInRange
<1> HIDE DEF q
<1>4. last \in 0 .. 11 /\ last \in m .. m + 3 /\ m \in q .. q + 3 /\ k \in Int
  BY <1>1, <1>2, <1>3
<1>5. GetQuarterStartTime = FirstOf(y, q)
  <2>1. [now EXCEPT !.month = QuarterStartMonth(@), !.day = 1] = At(now, y, q, 1)
    BY <1>1 DEF At, Fields, q
  <2> QED
    BY <2>1 DEF GetQuarterStartTime, FirstOf
<1>6. /\ cal.year = y /\ cal.month = last
      /\ [cal EXCEPT !.day = DaysIn(y, last)] = At(now, y, last, DaysIn(y, last))
  <2> DEFINE f == At(now, y, third, 1)
  <2>1. cal = AddDays(f, n - 1)
    BY <1>1 DEF Resolve, At, Fields, q
  <2>2. f \in Fields /\ f.year = y /\ f.month = third /\ f.day = 1
    <3>1. third \in 0 .. 11
      BY <1>3
    <3>2. f \in Fields
      <4> HIDE DEF third, y
      <4> QED
        BY <1>1, <3>1, FirstIsThere
    <3> HIDE DEF third
    <3> QED
      BY <1>1, <3>1, <3>2 DEF At, Fields
  <2>3. 1 + (n - 1) = n /\ n - 1 \in Int
    BY <1>1
  <2> HIDE DEF cal, f, third
  <2>4. CASE n > DaysIn(y, third)
    <3>1. AddDays(f, n - 1) = At(f, NextYear(y, third), NextMonth(third),
                                 1 + (n - 1) - DaysIn(y, third))
      BY <2>2, <2>3, <2>4, AddAfter
    <3>2. NextYear(y, third) = y /\ NextMonth(third) = last
      BY <1>1, <1>2, <1>3, <2>4 DEF NextYear, NextMonth, third
    <3>3. PICK day : cal = At(f, y, last, day)
      BY <2>1, <3>1, <3>2
    <3> HIDE DEF last
    <3> QED
      BY <2>2, <3>3, <1>1 DEF At, Fields, f
  <2>5. CASE ~(n > DaysIn(y, third))
    <3>1. AddDays(f, n - 1) = At(f, y, third, 1 + (n - 1))
      <4>1. 1 + (n - 1) \in 1 .. DaysIn(y, third)
        BY <1>1, <1>3, <2>5
      <4> QED
        BY <2>2, <2>3, <4>1, AddWithin
    <3>2. third = last
      BY <2>5
    <3>3. PICK day : cal = At(f, y, last, day)
      BY <2>1, <3>1, <3>2
    <3> HIDE DEF last
    <3> QED
      BY <2>2, <3>3, <1>1 DEF At, Fields, f
  <2> QED
    BY <2>4, <2>5
<1>7. GetQuarterEndTime = LastOf(y, last)
  <2> HIDE DEF cal, last
  <2> QED
    BY <1>6 DEF GetQuarterEndTime, GetDayOfMonth, LastOf, cal
<1>8. ~IsBefore(now, FirstOf(y, q)) /\ ~IsBefore(LastOf(y, last), now)
  <2> HIDE DEF last
  <2> QED
    BY <1>3, <1>4, NowIsBetween
<1>9. AddMonths(FirstOf(y, q), k) = FirstOf(NextYear(y, last), NextMonth(last))
  <2> DEFINE f == FirstOf(y, q)
             ny == NextYear(y, last)
             nm == NextMonth(last)
  <2>1. /\ f \in Fields /\ f.year = y /\ f.month = q /\ f.day = 1
    BY <1>1, <1>3, FirstOfIsThere
  <2>2. ny \in Int /\ nm \in 0 .. 11
    BY <1>1, <1>4 DEF NextYear, NextMonth
  <2>3. 12 * y + q + k = 12 * ny + nm
    <3>1. last = q + k - 1
      BY <1>2
    <3> HIDE DEF last, k
    <3> QED
      BY <1>1, <1>3, <1>4, <3>1 DEF NextYear, NextMonth
  <2> HIDE DEF f, ny, nm, k
  <2>4. DaysIn(ny, nm) \in 28 .. 31
    BY <2>2, DaysInRange
  <2>5. AddMonths(f, k) = At(f, ny, nm, 1)
    <3>1. AddMonths(f, k) = At(f, ny, nm, IF f.day > DaysIn(ny, nm) THEN DaysIn(ny, nm) ELSE f.day)
      BY <1>4, <2>1, <2>2, <2>3, AddMonthsTo
    <3> QED
      BY <2>1, <2>4, <3>1
  <2>6. At(f, ny, nm, 1) = FirstOf(ny, nm)
    BY <1>1 DEF f, FirstOf, GetIntegralStartTime, GetResetTime, At, Fields
  <2> QED
    BY <2>5, <2>6 DEF f, ny, nm
<1>10. IsFollowedBy(LastOf(y, last), FirstOf(NextYear(y, last), NextMonth(last)))
  <2> HIDE DEF last
  <2> QED
    BY <1>1, <1>4, NextMonthBegins
<1>11. ~DayIsLost => k = 3
  BY DEF DayIsLost, q
<1> HIDE DEF k, last
<1> QED
  BY <1>5, <1>7, <1>8, <1>9, <1>10, <1>11
  DEF QuarterEndsAfterThreeMonths, QuarterEndsOnItsLastDay

-----------------------------------------------------------------------------
(* Weeks                                                                    *)

(* What SetWeekDay adds on weekday day to reach weekday w.                  *)
ToWeekDay(day, w, first) == ((w - first) % 7) - ((day - first) % 7)

LEMMA WeekByRemainder ==
  ASSUME NEW r \in 0 .. 6, NEW first \in {SUNDAY, MONDAY, SATURDAY}
  PROVE  /\ ToWeekDay(r + 1, MONDAY, first) =
              IF first = MONDAY /\ r = 0 THEN -6
              ELSE IF first = SATURDAY /\ r = 6 THEN 2 ELSE 1 - r
         /\ ToWeekDay(r + 1, FRIDAY, first) =
              IF first = MONDAY /\ r = 0 THEN -2
              ELSE IF first = SATURDAY /\ r = 6 THEN 6 ELSE 5 - r
<1>1. /\ (2 - 1) % 7 = 1 /\ (6 - 1) % 7 = 5 /\ (2 - 2) % 7 = 0 /\ (6 - 2) % 7 = 4
      /\ (2 - 7) % 7 = 2 /\ (6 - 7) % 7 = 6
  <2>1. \A x \in -6 .. 6 : x % 7 = IF x < 0 THEN x + 7 ELSE x
    OBVIOUS
  <2> QED
    BY <2>1
<1>2. /\ (r + 1 - 1) % 7 = r
      /\ (r + 1 - 2) % 7 = IF r = 0 THEN 6 ELSE r - 1
      /\ (r + 1 - 7) % 7 = IF r = 6 THEN 0 ELSE r + 1
  OBVIOUS
<1>3. CASE first = SUNDAY
  BY <1>1, <1>2, <1>3 DEF ToWeekDay, SUNDAY, MONDAY, FRIDAY, SATURDAY
<1>4. CASE first = MONDAY
  BY <1>1, <1>2, <1>4 DEF ToWeekDay, SUNDAY, MONDAY, FRIDAY, SATURDAY
<1>5. CASE first = SATURDAY
  BY <1>1, <1>2, <1>5 DEF ToWeekDay, SUNDAY, MONDAY, FRIDAY, SATURDAY
<1> QED
  BY <1>3, <1>4, <1>5

LEMMA RemainderMoves ==
  ASSUME NEW D \in Int, NEW a \in Int, NEW r \in 0 .. 6, D % 7 = r,
         a = 1 - r \/ a = -6 - r \/ a = 8 - r
  PROVE  \A n \in 0 .. 4 : (D + a + n) % 7 = n + 1
OBVIOUS

(* The start of a date n days from a date.                                  *)
LEMMA StartAfter ==
  ASSUME NEW d, CalendarDate(d), NEW n \in -28 .. 28
  PROVE  LET s == GetIntegralStartTime(AddDays(d, n))
         IN  CalendarDate(s) /\ DayNumber(s) = DayNumber(d) + n
<1> DEFINE e == AddDays(d, n)
<1>1. CalendarDate(e) /\ DayNumber(e) = DayNumber(d) + n
  BY AddDaysCounts
<1> HIDE DEF e
<1>2. DayNumber(GetIntegralStartTime(e)) = DayNumber(e)
  BY <1>1, StartOfDayKeepsDay
<1>3. CalendarDate(GetIntegralStartTime(e))
  <2> DEFINE zero == 0
  <2>1. zero \in Int /\ e \in Fields
    BY <1>1 DEF CalendarDate
  <2>2. GetIntegralStartTime(e) = GetResetTime(e, zero, zero, zero)
    BY DEF GetIntegralStartTime
  <2> HIDE DEF zero
  <2>3. LET s == GetResetTime(e, zero, zero, zero)
        IN  s \in Fields /\ s.year = e.year /\ s.month = e.month /\ s.day = e.day
    BY <2>1, ResetIsThere
  <2> QED
    BY <1>1, <2>2, <2>3 DEF CalendarDate
<1> QED
  BY <1>1, <1>2, <1>3 DEF e

LEMMA WeekOfADate == CalendarDate(now) => WeekHasFiveWorkdays
<1> SUFFICES ASSUME CalendarDate(now), NEW first \in FirstDays
             PROVE  LET monday == GetFirstWorkday(first)
                        friday == GetLastWorkday(first)
                    IN  /\ DayNumber(friday) - DayNumber(monday) = 4
                        /\ \A n \in 0 .. 4 : IsWorkday(AddDays(monday, n))
                        /\ DayNumber(monday) <= DayNumber(now) + 2
                        /\ DayNumber(now) <= DayNumber(friday) + 2
                        /\ IsWorkday(now) => /\ DayNumber(monday) <= DayNumber(now)
                                             /\ DayNumber(now) <= DayNumber(friday)
  BY DEF WeekHasFiveWorkdays
<1> DEFINE D == DayNumber(now)
           r == D % 7
           a == ToWeekDay(WeekDay(now), MONDAY, first)
           b == ToWeekDay(WeekDay(now), FRIDAY, first)
           monday == GetFirstWorkday(first)
           friday == GetLastWorkday(first)
<1>0. first \in {SUNDAY, MONDAY, SATURDAY}
  BY DateUtilAssumption
<1>1. D \in Int /\ r \in 0 .. 6 /\ D % 7 = r /\ WeekDay(now) = r + 1
  <2>1. D \in Int
    BY WeekDayOfSum
  <2> QED
    BY <2>1 DEF WeekDay
<1>2. /\ monday = GetIntegralStartTime(AddDays(now, a))
      /\ friday = GetIntegralStartTime(AddDays(now, b))
  <2>2. /\ SetWeekDay(now, MONDAY, first) = AddDays(now, a)
        /\ SetWeekDay(now, FRIDAY, first) = AddDays(now, b)
    BY DEF SetWeekDay, ToWeekDay
  <2> HIDE DEF a, b
  <2> QED
    BY <2>2 DEF GetFirstWorkday, GetLastWorkday
<1> HIDE DEF D, r, a, b, monday, friday
<1>3. /\ a = IF first = MONDAY /\ r = 0 THEN -6
             ELSE IF first = SATURDAY /\ r = 6 THEN 2 ELSE 1 - r
      /\ b = IF first = MONDAY /\ r = 0 THEN -2
             ELSE IF first = SATURDAY /\ r = 6 THEN 6 ELSE 5 - r
  BY <1>0, <1>1, WeekByRemainder DEF a, b
<1>4. a \in -28 .. 28 /\ b \in -28 .. 28 /\ b - a = 4 /\ a <= 2 /\ -2 <= b
  BY <1>1, <1>3
<1>5. CalendarDate(monday) /\ DayNumber(monday) = D + a
  BY <1>2, <1>4, StartAfter DEF D
<1>6. DayNumber(friday) = D + b
  BY <1>2, <1>4, StartAfter DEF D
<1>7. \A n \in 0 .. 4 : IsWorkday(AddDays(monday, n))
  <2>1. \A n \in 0 .. 4 : (D + a + n) % 7 = n + 1
    <3>1. a = 1 - r \/ a = -6 - r \/ a = 8 - r
      BY <1>3
    <3>2. a \in Int
      BY <1>4
    <3> QED
      BY <1>1, <3>1, <3>2, RemainderMoves
  <2> SUFFICES ASSUME NEW n \in 0 .. 4 PROVE IsWorkday(AddDays(monday, n))
    OBVIOUS
  <2>2. WeekDay(AddDays(monday, n)) = ((DayNumber(monday) + n) % 7) + 1
    <3>1. n \in -28 .. 28
      OBVIOUS
    <3> QED
      BY <1>5, <3>1, WeekDayOfSum
  <2> QED
    BY <1>5, <2>1, <2>2 DEF IsWorkday, SATURDAY, SUNDAY
<1>8. IsWorkday(now) => a <= 0 /\ 0 <= b
  <2>1. IsWorkday(now) => r \in 1 .. 5
    BY <1>1 DEF IsWorkday, SATURDAY, SUNDAY
  <2> QED
    BY <1>3, <2>1
<1> QED
  BY <1>1, <1>4, <1>5, <1>6, <1>7, <1>8 DEF D, monday, friday

-----------------------------------------------------------------------------
(* Rolled dates                                                             *)

(* add(MONTH, k) yields a date, with the day or the last one of the month.  *)
LEMMA AddMonthsKeepsDay ==
  ASSUME NEW d, CalendarDate(d), NEW k \in Int
  PROVE  LET e == AddMonths(d, k)
         IN  /\ CalendarDate(e)
             /\ 12 * e.year + e.month = 12 * d.year + d.month + k
             /\ e.day = IF d.day > DaysIn(e.year, e.month)
                        THEN DaysIn(e.year, e.month) ELSE d.day
<1> DEFINE months == 12 * d.year + d.month + k
           y == months \div 12
           m == months % 12
           n == IF d.day > DaysIn(y, m) THEN DaysIn(y, m) ELSE d.day
           e == AddMonths(d, k)
<1>1. d \in Fields /\ d.year \in Int /\ d.month \in 0 .. 11 /\ d.day \in 1 .. 31
  BY DEF CalendarDate, Fields
<1>2. y \in Int /\ m \in 0 .. 11 /\ months = 12 * y + m
  <2>1. months \in Int
    BY <1>1
  <2> HIDE DEF months
  <2> QED
    BY <2>1
<1>3. DaysIn(y, m) \in 28 .. 31
  BY <1>2, DaysInRange
<1>4. n \in 1 .. 31 /\ n <= DaysIn(y, m)
  BY <1>1, <1>3
<1> HIDE DEF y, m
<1>5. e = At(d, y, m, n)
  <2>1. 12 * d.year + d.month + k = 12 * y + m
    BY <1>2
  <2> HIDE DEF e, n
  <2> QED
    BY <1>1, <1>2, <2>1, AddMonthsTo DEF e, n
<1> HIDE DEF months, n, e
<1>6. At(d, y, m, n) \in Fields
  BY <1>1, <1>2, <1>4 DEF At, Fields
<1>7. At(d, y, m, n).year = y /\ At(d, y, m, n).month = m /\ At(d, y, m, n).day = n
  BY <1>1 DEF At, Fields
<1>8. e \in Fields /\ e.year = y /\ e.month = m /\ e.day = n
  BY <1>5, <1>6, <1>7
<1>9. CalendarDate(e)
  BY <1>4, <1>8 DEF CalendarDate
<1>10. 12 * e.year + e.month = 12 * d.year + d.month + k
  BY <1>2, <1>8 DEF months
<1>11. e.day = IF d.day > DaysIn(e.year, e.month)
               THEN DaysIn(e.year, e.month) ELSE d.day
  BY <1>8 DEF n
<1> QED
  BY <1>9, <1>10, <1>11 DEF e

LEMMA SameMonth ==
  ASSUME NEW y \in Int, NEW z \in Int, NEW m \in 0 .. 11, NEW n \in 0 .. 11,
         12 * y + m = 12 * z + n
  PROVE  y = z /\ m = n
OBVIOUS

LEMMA OnlyFebruaryVaries ==
  ASSUME NEW y \in Int, NEW z \in Int, NEW m \in 0 .. 11,
         DaysIn(z, m) < DaysIn(y, m)
  PROVE  m = 1 /\ DaysIn(y, m) = 29 /\ DaysIn(z, m) = 28
BY DEF DaysIn, MonthLengths

LEMMA RollOfADate == CalendarDate(now) => RollKeepsTheDay
<1> SUFFICES ASSUME CalendarDate(now), NEW year \in -1 .. 1, NEW month \in -13 .. 13
             PROVE  LET d == RollDate(now, year, month, 0)
                    IN  /\ 12 * d.year + d.month = 12 * (now.year + year) + now.month + month
                        /\ \/ d.day = now.day
                           \/ d.day < now.day /\ d.day = DaysIn(d.year, d.month)
                           \/ now.day = 29 /\ now.month = 1 /\ d.day = 28 /\ year # 0
                        /\ \A day \in {-28, -1, 1, 28} :
                             DayNumber(RollDate(now, year, month, day)) = DayNumber(d) + day
  BY DEF RollKeepsTheDay
<1> DEFINE k == 12 * year
           e == AddMonths(now, k)
           f == AddMonths(e, month)
           d == RollDate(now, year, month, 0)
<1>1. k \in Int /\ month \in Int
  OBVIOUS
<1>2. /\ now.year \in Int /\ now.month \in 0 .. 11 /\ now.day \in 1 .. 31
      /\ now.day <= DaysIn(now.year, now.month)
      /\ DaysIn(now.year, now.month) \in 28 .. 31
  BY DaysInRange DEF CalendarDate, Fields
<1>3. \A day : RollDate(now, year, month, day) = AddDays(f, day)
  BY DEF RollDate, AddYears
<1> HIDE DEF k, d
<1>4. /\ CalendarDate(e) /\ 12 * e.year + e.month = 12 * now.year + now.month + k
      /\ e.day = IF now.day > DaysIn(e.year, e.month)
                 THEN DaysIn(e.year, e.month) ELSE now.day
  BY <1>1, AddMonthsKeepsDay
<1> HIDE DEF e
<1>5. /\ CalendarDate(f) /\ 12 * f.year + f.month = 12 * e.year + e.month + month
      /\ f.day = IF e.day > DaysIn(f.year, f.month)
                 THEN DaysIn(f.year, f.month) ELSE e.day
  BY <1>1, <1>4, AddMonthsKeepsDay
<1> HIDE DEF f
<1>6. /\ e.year \in Int /\ e.month \in 0 .. 11 /\ DaysIn(e.year, e.month) \in 28 .. 31
      /\ f.year \in Int /\ f.month \in 0 .. 11 /\ DaysIn(f.year, f.month) \in 28 .. 31
  BY <1>4, <1>5, DaysInRange DEF CalendarDate, Fields
<1>7. e.year = now.year + year /\ e.month = now.month
  <2>1. 12 * e.year + e.month = 12 * (now.year + year) + now.month
    BY <1>2, <1>4 DEF k
  <2> DEFINE y == now.year + year
             m == now.month
  <2>2. y \in Int /\ m \in 0 .. 11 /\ 12 * e.year + e.month = 12 * y + m
    BY <1>2, <2>1
  <2> HIDE DEF y, m
  <2>3. e.year = y /\ e.month = m
    BY <1>6, <2>2, SameMonth
  <2> QED
    BY <2>3 DEF y, m
<1>8. d = f
  <2>1. f \in Fields /\ f.day \in 1 .. 31 /\ f.day <= DaysIn(f.year, f.month)
    BY <1>5 DEF CalendarDate, Fields
  <2>2. AddDays(f, 0) = [f EXCEPT !.day = f.day + 0]
    BY <1>6, <2>1 DEF AddDays
  <2> QED
    BY <1>3, <2>1, <2>2 DEF d, Fields
<1>9. 12 * f.year + f.month = 12 * (now.year + year) + now.month + month
  BY <1>2, <1>5, <1>6, <1>7
<1>10. \/ f.day = now.day
       \/ f.day < now.day /\ f.day = DaysIn(f.year, f.month)
       \/ now.day = 29 /\ now.month = 1 /\ f.day = 28 /\ year # 0
  <2>1. CASE now.day <= DaysIn(e.year, e.month)
    BY <1>2, <1>4, <1>5, <1>6, <2>1
  <2>2. CASE ~(now.day <= DaysIn(e.year, e.month))
    <3>1. DaysIn(e.year, now.month) < DaysIn(now.year, now.month)
      BY <1>2, <1>6, <1>7, <2>2
    <3>2. /\ now.month = 1 /\ DaysIn(now.year, now.month) = 29
          /\ DaysIn(e.year, now.month) = 28
      BY <1>2, <1>6, <3>1, OnlyFebruaryVaries
    <3>3. year # 0
      BY <1>2, <1>7, <3>1
    <3> QED
      BY <1>2, <1>4, <1>5, <1>6, <1>7, <2>2, <3>2, <3>3
  <2> QED
    BY <2>1, <2>2
<1>11. \A day \in {-28, -1, 1, 28} :
         DayNumber(RollDate(now, year, month, day)) = DayNumber(f) + day
  <2> SUFFICES ASSUME NEW day \in {-28, -1, 1, 28}
               PROVE  DayNumber(AddDays(f, day)) = DayNumber(f) + day
    BY <1>3
  <2>1. day \in -28 .. 28
    OBVIOUS
  <2> QED
    BY <1>5, <2>1, AddDaysCounts
<1> QED
  BY <1>8, <1>9, <1>10, <1>11 DEF d

-----------------------------------------------------------------------------
(* On every day of every year months, the workdays of a week and rolled     *)
(* dates fit together, and on every day but the 31st of a month whose       *)
(* quarter ends on a 30th so do quarters: getMonthStartTime to rollDate.    *)
THEOREM PeriodsFit == Spec => []PeriodsTile
<1>1. TimeInv => PeriodsTile
  BY MonthsOfADate, QuarterOfADate, WeekOfADate, RollOfADate DEF PeriodsTile, TimeInv
<1> QED
  BY <1>1, ClockShowsTimes, PTL

-----------------------------------------------------------------------------
(* The offset of a date from now.  The numbers of seconds are large, so that *)
(* ranges are written as inequalities and the arithmetic is left to SMT.    *)

(* The clock, with its milliseconds.                                        *)
ClockInv == TimeInv /\ now.milli \in 0 .. 999

LEMMA ClockShowsMillis == Spec => []ClockInv
<1> DEFINE Clock(d) == d.milli \in 0 .. 999
<1>1. \A y, m, n : \A t \in Times : Clock(On(y, m, n, t))
  BY DateUtilAssumption DEF On, TimeOfDay
<1>2. Init => Clock(now)
  BY <1>1 DEF Init
<1>3. Clock(now) /\ [Next]_now => Clock(now)'
  BY <1>1 DEF Next, LaterToday, Tomorrow
<1>4. TimeInv /\ Clock(now) => ClockInv
  BY DEF ClockInv
<1> HIDE DEF Clock
<1> QED
  BY <1>2, <1>3, <1>4, ClockShowsTimes, PTL DEF Spec

LEMMA IntHolds ==
  ASSUME NEW days \in Int, -24854 <= days, days <= 24854,
         NEW seconds \in Int, -86400 <= seconds, seconds <= 86400
  PROVE  ToInt(days, seconds) = 86400 * days + seconds
<1> DEFINE q == seconds \div 128
           high == days * 675 + q
<1>1. /\ q \in Int /\ -675 <= q /\ q <= 675 /\ seconds = 128 * q + (seconds % 128)
  BY SMTT(10)
<1>2. 2^24 = 16777216 /\ 2^25 = 33554432
  BY SMTT(10)
<1>3. high \in Int /\ -16777216 <= high /\ high < 16777216
  BY <1>1, SMTT(10)
<1> HIDE DEF high
<1>4. (high + 16777216) % 33554432 = high + 16777216
  BY <1>3, SMTT(10)
<1>5. ToInt(days, seconds) = (((high + 2^24) % 2^25) - 2^24) * 128 + (seconds % 128)
  BY SMTT(10) DEF ToInt, high
<1>6. ToInt(days, seconds) = high * 128 + (seconds % 128)
  BY <1>2, <1>3, <1>4, <1>5, SMTT(10)
<1> QED
  BY <1>1, <1>6, SMTT(10) DEF high

Counts == {n \in Nat : n <= 2147483647}

(* One sign for all units.                                                  *)
Signed(before, n) == IF before THEN n ELSE -n

LEMMA TruncSigned ==
  ASSUME NEW b \in BOOLEAN, NEW n \in Nat
  PROVE  /\ TruncDiv(Signed(b, n), 60) = Signed(b, n \div 60)
         /\ TruncDiv(Signed(b, n), 24) = Signed(b, n \div 24)
         /\ TruncDiv(Signed(b, n), 7) = Signed(b, n \div 7)
         /\ TruncDiv(Signed(b, n), 30) = Signed(b, n \div 30)
         /\ TruncDiv(Signed(b, n), 12) = Signed(b, n \div 12)
BY SMTT(10) DEF TruncDiv, Signed

LEMMA AbsSigned ==
  ASSUME NEW b \in BOOLEAN, NEW n \in Counts
  PROVE  Abs(Signed(b, n)) = n /\ (n > 0 => (Signed(b, n) > 0 <=> b))
BY SMTT(10) DEF Abs, Signed, Counts

(* The offset that the server computes is the distance.                     *)
LEMMA OffsetIsDistance ==
  ASSUME ClockInv, NEW d \in WithinAnInt
  PROVE  /\ Distance(d) \in Counts
         /\ IsBefore(d, now) \in BOOLEAN
         /\ GetOffsetSeconds(d, now) = Signed(IsBefore(d, now), Distance(d))
<1> DEFINE days == DayNumber(now) - DayNumber(d)
           s == Seconds(d)
           t == Seconds(now)
           D == DayNumber(d)
           N == DayNumber(now)
           m == d.milli
           k == now.milli
           B == IsBefore(d, now)
<1>1. d \in Dates /\ -24854 <= days /\ days <= 24854
  BY DateUtilAssumption, SMTT(10) DEF WithinAnInt
<1>2. t \in Int /\ 0 <= t /\ t <= 86399
  BY SecondsOfADay, SMTT(10) DEF ClockInv
<1>3. s \in Int /\ 0 <= s /\ s <= 86399
  <2> DEFINE h == 3600 * d.hour
             n == 60 * d.minute
             c == d.second
  <2>1. h \in Int /\ 0 <= h /\ h <= 82800
    BY <1>1, HoursInSeconds, SMTT(10) DEF Dates
  <2>2. n \in Int /\ 0 <= n /\ n <= 3540
    BY <1>1, MinutesInSeconds, SMTT(10) DEF Dates
  <2>3. c \in Int /\ 0 <= c /\ c <= 59
    BY <1>1, SMTT(10) DEF Dates
  <2> HIDE DEF h, n, c
  <2>4. h + n + c \in Int /\ 0 <= h + n + c /\ h + n + c <= 86399
    BY <2>1, <2>2, <2>3, SMTT(10)
  <2> QED
    BY <2>4, SMTT(10) DEF Seconds, h, n, c
<1>4. m \in 0 .. 999 /\ k \in 0 .. 999
  BY <1>1, SMTT(10) DEF Dates, ClockInv
<1>5. N \in Int /\ D \in Int /\ days = N - D
  <2>1. d \in Fields
    BY <1>1, SMTT(10) DEF Dates, Fields
  <2> QED
    BY <2>1, DayNumberParts, SMTT(10) DEF ClockInv, TimeInv, CalendarDate
<1>6. B <=> D < N \/ (D = N /\ (s < t \/ (s = t /\ m < k)))
  BY SMTT(10) DEF IsBefore
<1>7. B \in BOOLEAN
  BY SMTT(10) DEF IsBefore
<1>8. Distance(d) = IF B THEN 86400 * (N - D) + t - s - (IF k < m THEN 1 ELSE 0)
                    ELSE 86400 * (D - N) + s - t - (IF m < k THEN 1 ELSE 0)
  BY SMTT(10) DEF Distance
<1>9. GetOffsetSeconds(d, now)
        = ToInt(days, t - s + (IF B THEN (IF k < m THEN -1 ELSE 0)
                               ELSE (IF k > m THEN 1 ELSE 0)))
  BY SMTT(10) DEF GetOffsetSeconds
<1> HIDE DEF days, s, t, D, N, m, k, B
<1> DEFINE p == IF B THEN (IF k < m THEN -1 ELSE 0) ELSE (IF k > m THEN 1 ELSE 0)
<1>10. p \in {-1, 0, 1} /\ t - s + p \in Int /\ -86400 <= t - s + p /\ t - s + p <= 86400
  BY <1>2, <1>3, <1>4, SMTT(10)
<1>11. GetOffsetSeconds(d, now) = 86400 * days + (t - s + p)
  <2> HIDE DEF p
  <2>1. ToInt(days, t - s + p) = 86400 * days + (t - s + p)
    BY <1>1, <1>5, <1>10, IntHolds, SMTT(10)
  <2> QED
    BY <1>9, <2>1, SMTT(10) DEF p
<1>12. Distance(d) \in Int /\ GetOffsetSeconds(d, now) = Signed(B, Distance(d))
  BY <1>2, <1>3, <1>4, <1>5, <1>7, <1>8, <1>10, <1>11, SMTT(10) DEF Signed
<1>13. 0 <= Distance(d)
  BY <1>2, <1>3, <1>4, <1>5, <1>6, <1>8, SMTT(10)
<1>14. Distance(d) <= 2147483647
  BY <1>1, <1>2, <1>3, <1>4, <1>5, <1>8, SMTT(10)
<1> QED
  BY <1>7, <1>12, <1>13, <1>14, SMTT(10) DEF B, Counts

LEMMA UnitsDivide ==
  ASSUME NEW n \in Counts
  PROVE  /\ n \div 60 \in Counts
         /\ n \div 3600 \in Counts /\ (n \div 60) \div 60 = n \div 3600
         /\ n \div 86400 \in Counts /\ (n \div 3600) \div 24 = n \div 86400
         /\ n \div 604800 \in Counts /\ (n \div 86400) \div 7 = n \div 604800
         /\ n \div 2592000 \in Counts /\ (n \div 86400) \div 30 = n \div 2592000
         /\ n \div 31104000 \in Counts /\ (n \div 2592000) \div 12 = n \div 31104000
BY SMTT(10) DEF Counts

LEMMA WholeOffsets == ClockInv => OffsetsAreWhole
<1> SUFFICES ASSUME ClockInv, NEW d \in WithinAnInt
             PROVE  LET S(n) == IF IsBefore(d, now) THEN n ELSE -n
                    IN  /\ GetOffsetMinutes(d, now) = S(Distance(d) \div 60)
                        /\ GetOffsetHours(d, now) = S(Distance(d) \div 3600)
                        /\ GetOffsetDays(d, now) = S(Distance(d) \div 86400)
                        /\ GetOffsetWeeks(d, now) = S(Distance(d) \div (7 * 86400))
  BY SMTT(10) DEF OffsetsAreWhole
<1> DEFINE n == Distance(d)
           b == IsBefore(d, now)
<1>1. n \in Counts /\ b \in BOOLEAN /\ GetOffsetSeconds(d, now) = Signed(b, n)
  BY OffsetIsDistance, SMTT(10)
<1>7. /\ n \in Nat /\ n \div 60 \in Nat /\ n \div 3600 \in Nat /\ n \div 86400 \in Nat
  BY <1>1, UnitsDivide, SMTT(10) DEF Counts
<1> HIDE DEF n, b
<1>2. GetOffsetMinutes(d, now) = Signed(b, n \div 60)
  BY <1>1, <1>7, TruncSigned, SMTT(10) DEF GetOffsetMinutes
<1>3. GetOffsetHours(d, now) = Signed(b, n \div 3600)
  <2>1. TruncDiv(Signed(b, n \div 60), 60) = Signed(b, (n \div 60) \div 60)
    BY <1>1, <1>7, TruncSigned, SMTT(10)
  <2> QED
    BY <1>1, <1>2, <2>1, UnitsDivide, SMTT(10) DEF GetOffsetHours
<1>4. GetOffsetDays(d, now) = Signed(b, n \div 86400)
  <2>1. TruncDiv(Signed(b, n \div 3600), 24) = Signed(b, (n \div 3600) \div 24)
    BY <1>1, <1>7, TruncSigned, SMTT(10)
  <2> QED
    BY <1>1, <1>3, <2>1, UnitsDivide, SMTT(10) DEF GetOffsetDays
<1>5. GetOffsetWeeks(d, now) = Signed(b, n \div 604800)
  <2>1. TruncDiv(Signed(b, n \div 86400), 7) = Signed(b, (n \div 86400) \div 7)
    BY <1>1, <1>7, TruncSigned, SMTT(10)
  <2> QED
    BY <1>1, <1>4, <2>1, UnitsDivide, SMTT(10) DEF GetOffsetWeeks
<1>6. 7 * 86400 = 604800
  BY SMTT(10)
<1> QED
  BY <1>2, <1>3, <1>4, <1>5, <1>6, SMTT(10) DEF Signed, n, b

LEMMA UnitsInTurn ==
  ASSUME NEW n \in Counts
  PROVE  LET n1 == n \div 60
             n2 == n \div 3600
             n3 == n \div 86400
             n4 == n \div 604800
             n5 == n \div 2592000
             n6 == n \div 31104000
         IN  /\ n >= 60 <=> n1 >= 1
             /\ n1 >= 60 => n >= 60 /\ n2 >= 1
             /\ n2 >= 60 => n1 >= 60 /\ n3 >= 1
             /\ n3 >= 7 => n2 >= 60 /\ n4 >= 1
             /\ n4 >= 5 => n3 >= 7 /\ n5 >= 1
             /\ n5 >= 12 => n6 >= 1
BY SMTT(10) DEF Counts

(* The description, of the absolute offsets in all units.                   *)
Chosen(desc, b, n, n1, n2, n3, n4, n5, n6) ==
  desc = CASE n < 60 -> Description("second", Signed(b, n))
           [] n >= 60 /\ n1 < 60 -> Description("minute", Signed(b, n1))
           [] n1 >= 60 /\ n2 < 60 -> Description("hour", Signed(b, n2))
           [] n2 >= 60 /\ n3 < 7 -> Description("day", Signed(b, n3))
           [] n3 >= 7 /\ n4 < 5 -> Description("week", Signed(b, n4))
           [] n4 >= 5 /\ n5 < 12 -> Description("month", Signed(b, n5))
           [] n4 >= 5 /\ n5 >= 12 -> Description("year", Signed(b, n6))

LEMMA DescriptionIsChosen ==
  ASSUME ClockInv, NEW d \in WithinAnInt
  PROVE  LET n == Distance(d)
         IN  Chosen(GetTimeOffsetDesc(d), IsBefore(d, now), n, n \div 60, n \div 3600,
                    n \div 86400, n \div 604800, n \div 2592000, n \div 31104000)
<1> DEFINE n == Distance(d)
           b == IsBefore(d, now)
           n1 == n \div 60
           n2 == n \div 3600
           n3 == n \div 86400
           n4 == n \div 604800
           n5 == n \div 2592000
           n6 == n \div 31104000
           seconds == GetOffsetSeconds(d, now)
<1>1. n \in Counts /\ b \in BOOLEAN /\ seconds = Signed(b, n)
  BY OffsetIsDistance
<1>2. /\ n1 \in Counts /\ n2 \in Counts /\ n3 \in Counts
      /\ n4 \in Counts /\ n5 \in Counts /\ n6 \in Counts
      /\ n1 \div 60 = n2 /\ n2 \div 24 = n3 /\ n3 \div 7 = n4 /\ n3 \div 30 = n5
      /\ n5 \div 12 = n6
  BY <1>1, UnitsDivide, SMTT(10)
<1>3. GetTimeOffsetDesc(d) =
        LET minutes == TruncDiv(seconds, 60)
            hours   == TruncDiv(minutes, 60)
            days    == TruncDiv(hours, 24)
            weeks   == TruncDiv(days, 7)
            months  == TruncDiv(days, 30)
        IN  CASE Abs(seconds) < 60 -> Description("second", seconds)
              [] Abs(seconds) >= 60 /\ Abs(minutes) < 60 -> Description("minute", minutes)
              [] Abs(minutes) >= 60 /\ Abs(hours) < 60 -> Description("hour", hours)
              [] Abs(hours) >= 60 /\ Abs(days) < 7 -> Description("day", days)
              [] Abs(days) >= 7 /\ Abs(weeks) < 5 -> Description("week", weeks)
              [] Abs(weeks) >= 5 /\ Abs(months) < 12 -> Description("month", months)
              [] Abs(weeks) >= 5 /\ Abs(months) >= 12 ->
                   Description("year", TruncDiv(months, 12))
  BY SMTT(10) DEF GetTimeOffsetDesc, InMonths
<1> HIDE DEF n, b, seconds, n1, n2, n3, n4, n5, n6
<1>4. /\ TruncDiv(seconds, 60) = Signed(b, n1)
      /\ TruncDiv(Signed(b, n1), 60) = Signed(b, n2)
      /\ TruncDiv(Signed(b, n2), 24) = Signed(b, n3)
      /\ TruncDiv(Signed(b, n3), 7) = Signed(b, n4)
      /\ TruncDiv(Signed(b, n3), 30) = Signed(b, n5)
      /\ TruncDiv(Signed(b, n5), 12) = Signed(b, n6)
  <2>1. n \in Nat /\ n1 \in Nat /\ n2 \in Nat /\ n3 \in Nat /\ n5 \in Nat
    BY <1>1, <1>2, SMTT(10) DEF Counts
  <2>2. n1 = n \div 60
    BY DEF n1
  <2> QED
    BY <1>1, <1>2, <2>1, <2>2, TruncSigned, SMTT(10)
<1>5. /\ Abs(Signed(b, n)) = n /\ Abs(Signed(b, n1)) = n1 /\ Abs(Signed(b, n2)) = n2
      /\ Abs(Signed(b, n3)) = n3 /\ Abs(Signed(b, n4)) = n4 /\ Abs(Signed(b, n5)) = n5
  BY <1>1, <1>2, AbsSigned, SMTT(10)
<1>6. Chosen(GetTimeOffsetDesc(d), b, n, n1, n2, n3, n4, n5, n6)
  BY <1>1, <1>3, <1>4, <1>5, SMTT(10) DEF Chosen
<1> QED
  BY <1>6 DEF n, b, n1, n2, n3, n4, n5, n6

LEMMA DescribedOffset ==
  ASSUME ClockInv, NEW d \in WithinAnInt
  PROVE  LET desc == GetTimeOffsetDesc(d)
             unit == UnitSeconds[desc.unit]
         IN  /\ desc.count = Distance(d) \div unit
             /\ desc.unit # "second" => desc.count > 0
             /\ desc.count > 0 => (desc.ago <=> IsBefore(d, now))
<1> DEFINE n == Distance(d)
           b == IsBefore(d, now)
           desc == GetTimeOffsetDesc(d)
           n1 == n \div 60
           n2 == n \div 3600
           n3 == n \div 86400
           n4 == n \div 604800
           n5 == n \div 2592000
           n6 == n \div 31104000
<1> SUFFICES /\ desc.count = n \div UnitSeconds[desc.unit]
             /\ desc.unit # "second" => desc.count > 0
             /\ desc.count > 0 => (desc.ago <=> b)
  OBVIOUS
<1>1. n \in Counts /\ b \in BOOLEAN
  BY OffsetIsDistance
<1>2. Chosen(desc, b, n, n1, n2, n3, n4, n5, n6)
  BY DescriptionIsChosen
<1>3. /\ n1 \in Counts /\ n2 \in Counts /\ n3 \in Counts
      /\ n4 \in Counts /\ n5 \in Counts /\ n6 \in Counts
  BY <1>1, UnitsDivide, SMTT(10)
<1>4. /\ n >= 60 <=> n1 >= 1
      /\ n1 >= 60 => n >= 60 /\ n2 >= 1
      /\ n2 >= 60 => n1 >= 60 /\ n3 >= 1
      /\ n3 >= 7 => n2 >= 60 /\ n4 >= 1
      /\ n4 >= 5 => n3 >= 7 /\ n5 >= 1
      /\ n5 >= 12 => n6 >= 1
  BY <1>1, UnitsInTurn, SMTT(10)
<1>5. /\ UnitSeconds["second"] = 1 /\ UnitSeconds["minute"] = 60
      /\ UnitSeconds["hour"] = 3600 /\ UnitSeconds["day"] = 86400
      /\ UnitSeconds["week"] = 604800 /\ UnitSeconds["month"] = 2592000
      /\ UnitSeconds["year"] = 31104000
  BY SMTT(10) DEF UnitSeconds
<1> HIDE DEF b, desc
<1>6. /\ n = n \div UnitSeconds["second"] /\ n1 = n \div UnitSeconds["minute"]
      /\ n2 = n \div UnitSeconds["hour"] /\ n3 = n \div UnitSeconds["day"]
      /\ n4 = n \div UnitSeconds["week"] /\ n5 = n \div UnitSeconds["month"]
      /\ n6 = n \div UnitSeconds["year"]
  <2>1. n \in Nat
    BY <1>1, SMTT(10) DEF Counts
  <2> HIDE DEF n
  <2> QED
    BY <1>5, <2>1, SMTT(10)
<1> HIDE DEF n, n1, n2, n3, n4, n5, n6
<1>7. /\ n \in Nat /\ n1 \in Nat /\ n2 \in Nat /\ n3 \in Nat /\ n4 \in Nat
      /\ n5 \in Nat /\ n6 \in Nat
  BY <1>1, <1>3, SMTT(10) DEF Counts
<1>8. ASSUME NEW u, NEW x \in Counts, desc = Description(u, Signed(b, x)),
             x = n \div UnitSeconds[u], u # "second" => x > 0
      PROVE  /\ desc.count = n \div UnitSeconds[desc.unit]
             /\ desc.unit # "second" => desc.count > 0
             /\ desc.count > 0 => (desc.ago <=> b)
  <2>1. desc = [unit |-> u, count |-> Abs(Signed(b, x)), ago |-> Signed(b, x) > 0]
    BY <1>8 DEF Description
  <2>2. Abs(Signed(b, x)) = x /\ (x > 0 => (Signed(b, x) > 0 <=> b))
    BY <1>1, AbsSigned
  <2>3. desc.unit = u /\ desc.count = Abs(Signed(b, x)) /\ desc.ago = (Signed(b, x) > 0)
    BY <2>1
  <2>4. desc.unit = u /\ desc.count = x /\ (x > 0 => (desc.ago <=> b))
    BY <2>2, <2>3, Zenon
  <2> QED
    BY <1>8, <2>4
<1>9. CASE n < 60
  <2>1. desc = Description("second", Signed(b, n))
    BY <1>2, <1>4, <1>7, <1>9, SMTT(10) DEF Chosen
  <2> QED
    BY <1>1, <1>6, <1>8, <2>1
<1>10. CASE n >= 60 /\ n1 < 60
  <2>1. desc = Description("minute", Signed(b, n1)) /\ n1 > 0
    BY <1>2, <1>4, <1>7, <1>10, SMTT(10) DEF Chosen
  <2> QED
    BY <1>3, <1>6, <1>8, <2>1
<1>11. CASE n1 >= 60 /\ n2 < 60
  <2>1. desc = Description("hour", Signed(b, n2)) /\ n2 > 0
    BY <1>2, <1>4, <1>7, <1>11, SMTT(10) DEF Chosen
  <2> QED
    BY <1>3, <1>6, <1>8, <2>1
<1>12. CASE n2 >= 60 /\ n3 < 7
  <2>1. desc = Description("day", Signed(b, n3)) /\ n3 > 0
    BY <1>2, <1>4, <1>7, <1>12, SMTT(10) DEF Chosen
  <2> QED
    BY <1>3, <1>6, <1>8, <2>1
<1>13. CASE n3 >= 7 /\ n4 < 5
  <2>1. desc = Description("week", Signed(b, n4)) /\ n4 > 0
    BY <1>2, <1>4, <1>7, <1>13, SMTT(10) DEF Chosen
  <2> QED
    BY <1>3, <1>6, <1>8, <2>1
<1>14. CASE n4 >= 5 /\ n5 < 12
  <2>1. desc = Description("month", Signed(b, n5)) /\ n5 > 0
    BY <1>2, <1>4, <1>7, <1>14, SMTT(10) DEF Chosen
  <2> QED
    BY <1>3, <1>6, <1>8, <2>1
<1>15. CASE n4 >= 5 /\ n5 >= 12
  <2>1. desc = Description("year", Signed(b, n6)) /\ n6 > 0
    BY <1>2, <1>4, <1>7, <1>15, SMTT(10) DEF Chosen
  <2> QED
    BY <1>3, <1>6, <1>8, <2>1
<1> QED
  BY <1>7, <1>9, <1>10, <1>11, <1>12, <1>13, <1>14, <1>15

(* getTimeOffsetDesc describes the distance of every date from every moment *)
(* that is within an int's range of seconds, but for those of a day to      *)
(* sixty hours: cutting the distance down by one unit after another loses   *)
(* nothing, and the count and the side are right.                          *)
THEOREM OffsetDescribed == Spec => []OffsetIsDescribed
<1>1. ClockInv => OffsetIsDescribed
  BY WholeOffsets, DescribedOffset, SMTT(10) DEF OffsetIsDescribed
<1> QED
  BY <1>1, ClockShowsMillis, PTL
=============================================================================
