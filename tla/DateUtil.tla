------------------------------ MODULE DateUtil ------------------------------
(***************************************************************************)
(* cm.zmkj.fees.utils.Date.DateUtil: the date functions of the fees        *)
(* service, as operators over the fields of a java.util.Calendar.  The     *)
(* functions without a date argument read the clock, which is the state:   *)
(* it runs through every day of the years FirstYear .. LastYear.           *)
(*                                                                         *)
(* A field is set without regard for the others; getTime() resolves a day  *)
(* that the month does not have into the next month (Resolve).  add()      *)
(* instead takes the month's last day.  Months count from 0, days of the   *)
(* week from 1, a Sunday.  There is one time zone, without summer time.    *)
(***************************************************************************)
EXTENDS Integers

CONSTANTS
  FirstYear, LastYear,  \* the bound of the clock
  Times,                \* the times of a day at which the clock is read
  Given,                \* the dates whose distance from now is described
  FirstDays             \* the first day of a week, which the locale decides

SUNDAY   == 1
MONDAY   == 2
FRIDAY   == 6
SATURDAY == 7

TimeOfDay == [hour : 0 .. 23, minute : 0 .. 59, second : 0 .. 59, milli : 0 .. 999]
Dates     == [year : Nat \ {0}, month : 0 .. 11, day : 1 .. 31, hour : 0 .. 23,
              minute : 0 .. 59, second : 0 .. 59, milli : 0 .. 999]

IsLeap(y)       == y % 4 = 0 /\ (y % 100 # 0 \/ y % 400 = 0)
MonthLengths    == <<31, 28, 31, 30, 31, 30, 31, 31, 30, 31, 30, 31>>
DaysBeforeMonth == <<0, 31, 59, 90, 120, 151, 181, 212, 243, 273, 304, 334>>

DaysIn(y, m) == MonthLengths[m + 1] + (IF m = 1 /\ IsLeap(y) THEN 1 ELSE 0)

ASSUME DateUtilAssumption ==
  /\ FirstYear \in Nat \ {0}
  /\ LastYear \in Nat
  /\ Times \subseteq TimeOfDay
  /\ Given \subseteq Dates
  /\ FirstDays \subseteq {SUNDAY, MONDAY, SATURDAY}

VARIABLE now  \* what Calendar.getInstance() returns

On(y, m, d, t) ==
  [year |-> y, month |-> m, day |-> d, hour |-> t.hour, minute |-> t.minute,
   second |-> t.second, milli |-> t.milli]

-----------------------------------------------------------------------------
(* java.util.GregorianCalendar                                              *)

(* Days since the day before the first of January of the year 1, a Monday.  *)
DayNumber(d) ==
  LET y == d.year - 1
  IN  365 * y + y \div 4 - y \div 100 + y \div 400
        + DaysBeforeMonth[d.month + 1]
        + (IF d.month > 1 /\ IsLeap(d.year) THEN 1 ELSE 0) + d.day

WeekDay(d) == (DayNumber(d) % 7) + 1

(* add(MONTH, n): in a shorter month the day is the last one.               *)
AddMonths(d, n) ==
  LET months == 12 * d.year + d.month + n
      y      == months \div 12
      m      == months % 12
  IN  [d EXCEPT !.year = y, !.month = m,
                !.day = IF @ > DaysIn(y, m) THEN DaysIn(y, m) ELSE @]

AddYears(d, n) == AddMonths(d, 12 * n)

(* add(DAY_OF_MONTH, n), for at most the 28 days every month has.           *)
AddDays(d, n) ==
  LET k        == d.day + n
      previous == AddMonths([d EXCEPT !.day = 1], -1)
      next     == AddMonths([d EXCEPT !.day = 1], 1)
  IN  CASE k < 1 ->
             [previous EXCEPT !.day = k + DaysIn(previous.year, previous.month)]
        [] k > DaysIn(d.year, d.month) ->
             [next EXCEPT !.day = k - DaysIn(d.year, d.month)]
        [] OTHER -> [d EXCEPT !.day = k]

(* getTime() after set()s: a day after the end of the month is in the next. *)
Resolve(d) == AddDays([d EXCEPT !.day = 1], d.day - 1)

(* set(DAY_OF_WEEK, w): another day of the week that begins on `first`.     *)
SetWeekDay(d, w, first) ==
  AddDays(d, ((w - first) % 7) - ((WeekDay(d) - first) % 7))

TruncDiv(a, b) == IF a >= 0 THEN a \div b ELSE -((-a) \div b)

(* The int of days * 86400 + seconds, of which 86400 has the factor 128:    *)
(* what is above 32 bits is cut off.                                       *)
ToInt(days, seconds) ==
  LET high == days * 675 + seconds \div 128
  IN  (((high + 2^24) % 2^25) - 2^24) * 128 + (seconds % 128)

(* Math.abs, which leaves the smallest int as it is.                        *)
Abs(n) == IF n >= 0 \/ n = -2147483647 - 1 THEN n ELSE -n

-----------------------------------------------------------------------------
(* Offsets                                                                  *)

Seconds(d) == 3600 * d.hour + 60 * d.minute + d.second

IsBefore(d, e) ==
  \/ DayNumber(d) < DayNumber(e)
  \/ /\ DayNumber(d) = DayNumber(e)
     /\ Seconds(d) < Seconds(e) \/ (Seconds(d) = Seconds(e) /\ d.milli < e.milli)

(* Milliseconds are cut off, towards zero, before the result is an int.     *)
GetOffsetSeconds(d, e) ==
  LET days    == DayNumber(e) - DayNumber(d)
      partial == IF IsBefore(d, e) THEN (IF e.milli < d.milli THEN -1 ELSE 0)
                                   ELSE (IF e.milli > d.milli THEN 1 ELSE 0)
  IN  ToInt(days, Seconds(e) - Seconds(d) + partial)

GetOffsetMinutes(d, e) == TruncDiv(GetOffsetSeconds(d, e), 60)
GetOffsetHours(d, e)   == TruncDiv(GetOffsetMinutes(d, e), 60)

GetOffsetDays(d, e)    == TruncDiv(GetOffsetHours(d, e), 24)
GetOffsetWeeks(d, e)   == TruncDiv(GetOffsetDays(d, e), 7)

Description(unit, n) == [unit |-> unit, count |-> Abs(n), ago |-> n > 0]

(* Faulty variant: a month has four weeks.                                  *)
InMonthsOfWeeks(days) == TruncDiv(TruncDiv(days, 7), 4)

InMonths(days) == TruncDiv(days, 30)

GetTimeOffsetDesc(d) ==
  LET seconds == GetOffsetSeconds(d, now)
      minutes == TruncDiv(seconds, 60)
      hours   == TruncDiv(minutes, 60)
      days    == TruncDiv(hours, 24)
      weeks   == TruncDiv(days, 7)
      months  == InMonths(days)
  IN  CASE Abs(seconds) < 60 -> Description("second", seconds)
        [] Abs(seconds) >= 60 /\ Abs(minutes) < 60 -> Description("minute", minutes)
        [] Abs(minutes) >= 60 /\ Abs(hours) < 60 -> Description("hour", hours)
        [] Abs(hours) >= 60 /\ Abs(days) < 7 -> Description("day", days)
        [] Abs(days) >= 7 /\ Abs(weeks) < 5 -> Description("week", weeks)
        [] Abs(weeks) >= 5 /\ Abs(months) < 12 -> Description("month", months)
        [] Abs(weeks) >= 5 /\ Abs(months) >= 12 ->
             Description("year", TruncDiv(months, 12))

-----------------------------------------------------------------------------
(* Times of a day                                                           *)

(* The parameter minute goes into the seconds and second into the minutes;  *)
(* the milliseconds stay as they are.                                      *)
GetResetTime(d, hour, minute, second) ==
  [d EXCEPT !.hour = hour, !.second = minute, !.minute = second]

GetIntegralStartTime(d) == GetResetTime(d, 0, 0, 0)

GetIntegralEndTime(d) == GetResetTime(d, 23, 59, 59)

-----------------------------------------------------------------------------
(* Months and quarters                                                      *)

RollDate(d, year, month, day) == AddDays(AddMonths(AddYears(d, year), month), day)

GetDayOfMonth(d) == DaysIn(d.year, d.month)

(* The start of this month (k = 0), the last (-1) and the next (1).         *)
GetMonthStartTime(k) == GetIntegralStartTime([AddMonths(now, k) EXCEPT !.day = 1])

(* Faulty variant: the number of days is asked of the present month.        *)
GetMonthEndTimeOfNow(k) ==
  GetIntegralEndTime(Resolve([AddMonths(now, k) EXCEPT !.day = GetDayOfMonth(now)]))

GetMonthEndTime(k) ==
  LET cal == AddMonths(now, k)
  IN  GetIntegralEndTime([cal EXCEPT !.day = GetDayOfMonth(cal)])

QuarterStartMonth(m) == 3 * (m \div 3)

GetQuarterStartTime ==
  GetIntegralStartTime([now EXCEPT !.month = QuarterStartMonth(@), !.day = 1])

(* getTime() resolves the day before the month's last one is asked for.     *)
GetQuarterEndTime ==
  LET cal == Resolve([now EXCEPT !.month = QuarterStartMonth(@) + 2])
  IN  GetIntegralEndTime([cal EXCEPT !.day = GetDayOfMonth(cal)])

-----------------------------------------------------------------------------
(* Workdays                                                                 *)

IsWorkday(d) == WeekDay(d) \notin {SATURDAY, SUNDAY}

GetPrevWorkday ==
  LET yesterday == AddDays(now, -1)
      friday    == IF WeekDay(yesterday) = SUNDAY
                   THEN AddDays(yesterday, -2) ELSE yesterday
  IN  GetIntegralStartTime(IF WeekDay(friday) = SATURDAY
                           THEN AddDays(friday, -1) ELSE friday)

(* Faulty variant: a Saturday is left by one day, and Sundays stay.         *)
NextWorkdayByOne ==
  LET tomorrow == AddDays(now, 1)
  IN  GetIntegralStartTime(IF WeekDay(tomorrow) = SATURDAY
                           THEN AddDays(tomorrow, 1) ELSE tomorrow)

GetNextWorkday ==
  LET tomorrow == AddDays(now, 1)
      monday   == IF WeekDay(tomorrow) = SATURDAY
                  THEN AddDays(tomorrow, 2) ELSE tomorrow
  IN  GetIntegralStartTime(IF WeekDay(monday) = SUNDAY
                           THEN AddDays(monday, 1) ELSE monday)

GetFirstWorkday(first) == GetIntegralStartTime(SetWeekDay(now, MONDAY, first))

GetLastWorkday(first) == GetIntegralStartTime(SetWeekDay(now, FRIDAY, first))

-----------------------------------------------------------------------------
(* The clock                                                                *)

Init == \E t \in Times : now = On(FirstYear, 0, 1, t)

LaterToday ==
  \E t \in Times :
    /\ IsBefore(now, On(now.year, now.month, now.day, t))
    /\ now' = On(now.year, now.month, now.day, t)

Tomorrow ==
  /\ AddDays(now, 1).year <= LastYear
  /\ \E t \in Times :
       LET next == AddDays(now, 1)
       IN  now' = On(next.year, next.month, next.day, t)

Next == LaterToday \/ Tomorrow

Spec == Init /\ [][Next]_now

-----------------------------------------------------------------------------
(* The second after e is s.                                                 *)
IsFollowedBy(e, s) ==
  /\ DayNumber(s) = DayNumber(e) + 1
  /\ <<e.hour, e.minute, e.second>> = <<23, 59, 59>>
  /\ <<s.hour, s.minute, s.second>> = <<0, 0, 0>>
  /\ e.milli = s.milli

(* The last, the present and the next month follow on one another, whatever *)
(* the day is from which they are found, and now is in the present one.    *)
MonthsFollow ==
  /\ \A k \in {-1, 0} : IsFollowedBy(GetMonthEndTime(k), GetMonthStartTime(k + 1))
  /\ \A k \in -1 .. 1 : GetMonthStartTime(k).month = GetMonthEndTime(k).month
  /\ ~IsBefore(now, GetMonthStartTime(0))
  /\ ~IsBefore(GetMonthEndTime(0), now)

(* getQuarterEndTime sets a month that has no 31st while the day is one.    *)
DayIsLost == now.day > DaysIn(now.year, QuarterStartMonth(now.month) + 2)

(* getQuarterEndTime, "the end of the last day of the current quarter": the *)
(* next quarter, three months after getQuarterStartTime, follows on it.     *)
QuarterEndsOnItsLastDay ==
  IsFollowedBy(GetQuarterEndTime, AddMonths(GetQuarterStartTime, 3))

(* It is so, with now in the quarter, on every day but the 31st of a month  *)
(* whose quarter ends on a 30th.                                           *)
QuarterEndsAfterThreeMonths ==
  ~DayIsLost => /\ ~IsBefore(now, GetQuarterStartTime)
                /\ ~IsBefore(GetQuarterEndTime, now)
                /\ QuarterEndsOnItsLastDay

(* The next workday is one, and all days before it are none, so that from   *)
(* it the previous one leads back; the same in the other direction.        *)
WorkdaysAreNeighbours ==
  /\ IsWorkday(GetNextWorkday) /\ IsWorkday(GetPrevWorkday)
  /\ \A n \in 1 .. 6 :
       /\ DayNumber(now) + n < DayNumber(GetNextWorkday) => ~IsWorkday(AddDays(now, n))
       /\ DayNumber(now) - n > DayNumber(GetPrevWorkday) => ~IsWorkday(AddDays(now, -n))
  /\ DayNumber(GetPrevWorkday) < DayNumber(now)
  /\ DayNumber(now) < DayNumber(GetNextWorkday)

(* In every locale the first and the last workday of the week are a Monday  *)
(* and a Friday with now, if it is a workday, between them; on a weekend   *)
(* they are the five days before or after.                                 *)
WeekHasFiveWorkdays ==
  \A first \in FirstDays :
    LET monday == GetFirstWorkday(first)
        friday == GetLastWorkday(first)
    IN  /\ DayNumber(friday) - DayNumber(monday) = 4
        /\ \A n \in 0 .. 4 : IsWorkday(AddDays(monday, n))
        /\ DayNumber(monday) <= DayNumber(now) + 2
        /\ DayNumber(now) <= DayNumber(friday) + 2
        /\ IsWorkday(now) => /\ DayNumber(monday) <= DayNumber(now)
                             /\ DayNumber(now) <= DayNumber(friday)

(* Rolling by years and months reaches the month so many months away, and   *)
(* keeps the day or takes the month's last one (from 29 February, 28 by way*)
(* of a year without that day); days are counted from there.               *)
RollKeepsTheDay ==
  \A year \in -1 .. 1, month \in -13 .. 13 :
    LET d == RollDate(now, year, month, 0)
    IN  /\ 12 * d.year + d.month = 12 * (now.year + year) + now.month + month
        /\ \/ d.day = now.day
           \/ d.day < now.day /\ d.day = DaysIn(d.year, d.month)
           \/ now.day = 29 /\ now.month = 1 /\ d.day = 28 /\ year # 0
        /\ \A day \in {-28, -1, 1, 28} :
             DayNumber(RollDate(now, year, month, day)) = DayNumber(d) + day

(* The periods that the server counts by fit together: on every day months, *)
(* the workdays of a week and dates rolled by any of them, and quarters on  *)
(* the days where DayIsLost does not hold (QuarterEndsOnItsLastDay is about *)
(* the others).                                                            *)
PeriodsTile ==
  /\ MonthsFollow
  /\ QuarterEndsAfterThreeMonths
  /\ WeekHasFiveWorkdays
  /\ RollKeepsTheDay

UnitSeconds ==
  [second |-> 1, minute |-> 60, hour |-> 3600, day |-> 86400, week |-> 7 * 86400,
   month |-> 30 * 86400, year |-> 360 * 86400]

(* The given dates whose seconds from now an int holds.                     *)
WithinAnInt ==
  {d \in Given : LET days == DayNumber(now) - DayNumber(d)
                 IN  -24854 <= days /\ days <= 24854}

(* The whole seconds between d and now.                                     *)
Distance(d) ==
  LET Between(e, l) == 86400 * (DayNumber(l) - DayNumber(e)) + Seconds(l) - Seconds(e)
                         - (IF l.milli < e.milli THEN 1 ELSE 0)
  IN  IF IsBefore(d, now) THEN Between(d, now) ELSE Between(now, d)

(* Dividing by one unit after another loses nothing, in either direction.   *)
OffsetsAreWhole ==
  \A d \in WithinAnInt :
    LET Signed(n) == IF IsBefore(d, now) THEN n ELSE -n
    IN  /\ GetOffsetMinutes(d, now) = Signed(Distance(d) \div 60)
        /\ GetOffsetHours(d, now) = Signed(Distance(d) \div 3600)
        /\ GetOffsetDays(d, now) = Signed(Distance(d) \div 86400)
        /\ GetOffsetWeeks(d, now) = Signed(Distance(d) \div (7 * 86400))

(* From one day to sixty hours: the description goes on counting hours.     *)
InDaysOfHours(d) == Distance(d) \div 3600 \in 24 .. 59

(* The offset is right in every unit.  Its description is the offset        *)
(* rounded down to some unit, never zero of anything but seconds and on the *)
(* right side of now.  Nothing is said of the description of a distance of  *)
(* a day to sixty hours, which DayIsDescribedAsDay is about.               *)
OffsetIsDescribed ==
  /\ OffsetsAreWhole
  /\ \A d \in WithinAnInt :
       LET desc == GetTimeOffsetDesc(d)
           unit == UnitSeconds[desc.unit]
       IN  ~InDaysOfHours(d) => /\ desc.count = Distance(d) \div unit
                                /\ desc.unit # "second" => desc.count > 0
                                /\ desc.count > 0 => (desc.ago <=> IsBefore(d, now))

(* "Such as 3 hours ago, 1 day ago": what is between one day and two away   *)
(* is described as one day.                                                *)
DayIsDescribedAsDay ==
  \A d \in WithinAnInt :
    Distance(d) \div 86400 = 1 =>
      GetTimeOffsetDesc(d).unit = "day" /\ GetTimeOffsetDesc(d).count = 1
=============================================================================
