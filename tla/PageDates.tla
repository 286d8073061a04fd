----------------------------- MODULE PageDates ------------------------------
(***************************************************************************)
(* assets/js/app.js: the date helpers of the administration pages.  They   *)
(* are given a JavaScript Date and move it, so each function here is the   *)
(* Date that it leaves; most of them return that Date's format(), and      *)
(* those that return something else have a second operator for it.  Any    *)
(* day can be passed in: the clock of DateUtil runs through all of them.   *)
(*                                                                         *)
(* setDate and setMonth resolve a day that the month does not have at      *)
(* once, into the month after (or before): unlike add() of a Calendar they *)
(* never take a month's last day instead.                                  *)
(***************************************************************************)
EXTENDS DateUtil

SetDate(d, n)  == AddDays([d EXCEPT !.day = 1], n - 1)
SetMonth(d, m) == Resolve([AddMonths([d EXCEPT !.day = 1], m - d.month)
                             EXCEPT !.day = d.day])

(* "yyyy-MM-dd", with the months counted from 1.                            *)
Format(d) == <<d.year, d.month + 1, d.day>>

(* getDay() counts from 0, a Sunday, which getMyDay calls by its name.      *)
GetDay(d)   == WeekDay(d) - 1
GetMyDay(d) == <<"Sunday", "Monday", "Tuesday", "Wednesday", "Thursday",
                 "Friday", "Saturday">>[GetDay(d) + 1]

GetFirstDayOfWeek(d) ==
  LET weekday == IF GetDay(d) = 0 THEN 7 ELSE GetDay(d)
  IN  SetDate(d, d.day - weekday + 1)

GetFirstDayOfMonth(d) == SetDate(d, 1)

(* Faulty variant: an off-by-one between the third and the fourth quarter.  *)
SeasonOfOctober(d) ==
  SetDate(CASE d.month < 3      -> SetMonth(d, 0)
            [] d.month \in 3 .. 5 -> SetMonth(d, 3)
            [] d.month \in 6 .. 9 -> SetMonth(d, 6)
            [] d.month = 10       -> SetMonth(d, 9)
            [] OTHER              -> d, 1)

(* The last condition is 8 < month && month < 11: December is left out.     *)
GetFirstDayOfSeason(d) ==
  SetDate(CASE d.month < 3       -> SetMonth(d, 0)
            [] d.month \in 3 .. 5  -> SetMonth(d, 3)
            [] d.month \in 6 .. 8  -> SetMonth(d, 6)
            [] d.month \in 9 .. 10 -> SetMonth(d, 9)
            [] OTHER               -> d, 1)

GetFirstDayOfYear(d) == SetMonth(SetDate(d, 1), 0)

(* new Date(year, month, 0).getDate(), the month counted from 1.            *)
DaysOfMonth(year, month) == DaysIn(year, month - 1)

(* Faulty variant: the day is kept, even if the month before is shorter.    *)
SameDayOfPreMonth(t) ==
  IF t[2] = 1 THEN <<t[1] - 1, 12, t[3]>> ELSE <<t[1], t[2] - 1, t[3]>>

(* The parts of a formatted date, split at the dashes.                      *)
GetPreMonth(t) ==
  LET year2  == IF t[2] = 1 THEN t[1] - 1 ELSE t[1]
      month2 == IF t[2] = 1 THEN 12 ELSE t[2] - 1
      days2  == DaysOfMonth(year2, month2)
  IN  <<year2, month2, IF t[3] > days2 THEN days2 ELSE t[3]>>

(* The Date is left at the first of the month after.                        *)
GetfirstDate(d) == SetMonth(SetDate(d, 1), d.month + 1)

(* Faulty variant: the month of January is not turned from 0 into 12.       *)
FirstDateInMonthZero(d) == <<d.year, GetfirstDate(d).month, GetfirstDate(d).day>>

(* The year is read before the month is changed; the month, counted from 0  *)
(* and one too late, is the right one counted from 1 but for December.      *)
FirstDateText(d) ==
  LET month == GetfirstDate(d).month
  IN  <<d.year, IF month = 0 THEN 12 ELSE month, GetfirstDate(d).day>>

GetEndDate(d) == SetDate(SetMonth(d, d.month + 1), 0)

-----------------------------------------------------------------------------
(* getFirstDayOfWeek goes back to a Monday, by less than a week, over the   *)
(* ends of months and years; from that Monday it does not go further, and  *)
(* from the Sunday that ends the week it goes to the same day.             *)
WeekBeginsOnMonday ==
  LET monday == GetFirstDayOfWeek(now)
  IN  /\ GetMyDay(monday) = "Monday"
      /\ DayNumber(now) - DayNumber(monday) \in 0 .. 6
      /\ GetFirstDayOfWeek(monday) = monday
      /\ GetFirstDayOfWeek(AddDays(monday, 6)) = monday

(* The first day of now's quarter (the comment of the function: "the first  *)
(* day of the current quarter").                                           *)
QuarterFirst == <<now.year, 3 * (now.month \div 3) + 1, 1>>

(* December is in no condition, and 31 May is no day of April.              *)
SeasonIsMissed == now.month = 11 \/ <<now.month, now.day>> = <<4, 31>>

(* getFirstDayOfSeason, "gets the first day of the current quarter".        *)
SeasonIsFound == Format(GetFirstDayOfSeason(now)) = QuarterFirst

(* It does so on every day of the other quarters, whatever the months'      *)
(* lengths, of October and of November.                                    *)
SeasonStartsAtItsQuarter == ~SeasonIsMissed => SeasonIsFound

(* The month after has no such day.                                         *)
DayIsMissingNext == now.day > DaysIn(now.year, (now.month + 1) % 12)

MonthOf(t) == 12 * t[1] + t[2]

(* getEndDate, "gets the last day of the month of the date".                *)
EndIsThisMonths ==
  LET end == Format(GetEndDate(now))
  IN  /\ MonthOf(end) = MonthOf(Format(now))
      /\ end[3] = DaysOfMonth(end[1], end[2])

(* The first and the last date of a month, as getfirstDate and getEndDate   *)
(* return them, are its first and last day, over New Year and in leap       *)
(* years: the first on every day, the last on the days that the next month  *)
(* has (EndIsThisMonths is not so on the others).                           *)
MonthHasItsEnds ==
  /\ FirstDateText(now) = <<now.year, now.month + 1, 1>>
  /\ ~DayIsMissingNext => EndIsThisMonths

(* The comments of four functions, each of which says that this holds on    *)
(* every day: no day is there on which none of the four does what its      *)
(* comment says.                                                            *)
SomeDateIsAsDocumented ==
  QuarterEndsOnItsLastDay \/ DayIsDescribedAsDay \/ SeasonIsFound \/ EndIsThisMonths

(* getPreMonth goes back one month as Calendar.add(MONTH, -1) of the server *)
(* does, over New Year and out of every longer month; the first days of a   *)
(* week, a month and a year are those of the server, if its week begins on *)
(* Monday.                                                                  *)
PagesAgreeWithServer ==
  /\ WeekBeginsOnMonday
  /\ GetIntegralStartTime(GetFirstDayOfWeek(now)) = GetFirstWorkday(MONDAY)
  /\ GetPreMonth(Format(now)) = Format(AddMonths(now, -1))
  /\ Format(GetFirstDayOfMonth(now)) = Format(GetMonthStartTime(0))
  /\ GetFirstDayOfYear(now) = GetFirstDayOfSeason(GetFirstDayOfYear(now))
  /\ Format(GetFirstDayOfYear(now)) = <<now.year, 1, 1>>
=============================================================================
