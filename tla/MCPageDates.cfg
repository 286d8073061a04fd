\* Every day of nine years.
CONSTANTS
  FirstYear = 2096
  LastYear = 2104
  Times <- MCTimes
  Given <- MCGiven
  FirstDays <- MCFirstDays
SPECIFICATION Spec
INVARIANTS
  PeriodsTile
  WorkdaysAreNeighbours
  OffsetIsDescribed
  SeasonStartsAtItsQuarter
  MonthHasItsEnds
  PagesAgreeWithServer
\* The clock stops at the end of LastYear.
CHECK_DEADLOCK FALSE
