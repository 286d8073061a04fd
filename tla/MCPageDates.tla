----------------------------- MODULE MCPageDates -----------------------------
(* DateUtil and PageDates over nine years with three leap years and 2100,   *)
(* which is none, with dates to describe before, within and after them.     *)
EXTENDS PageDates

AtTime(h, m, s, ms) == [hour |-> h, minute |-> m, second |-> s, milli |-> ms]
Midnight == AtTime(0, 0, 0, 0)

MCTimes == {Midnight, AtTime(12, 34, 56, 7), AtTime(23, 59, 59, 999)}

MCGiven ==
  {On(1970, 0, 1, Midnight),
   On(2030, 5, 15, AtTime(6, 0, 0, 1)),
   On(2096, 1, 29, AtTime(18, 30, 0, 0)),
   On(2096, 4, 30, AtTime(9, 0, 0, 0)),
   On(2099, 11, 31, AtTime(20, 15, 30, 8)),
   On(2100, 1, 28, AtTime(23, 59, 30, 500)),
   On(2100, 5, 30, AtTime(23, 20, 0, 0)),
   On(2104, 11, 31, AtTime(23, 0, 0, 7))}

MCFirstDays == {SUNDAY, MONDAY, SATURDAY}
=============================================================================
