\* On 31 May four functions contradict their comments.
CONSTANTS
  FirstYear = 2096
  LastYear = 2104
  Times <- MCTimes
  Given <- MCGiven
  FirstDays <- MCFirstDays
SPECIFICATION Spec
INVARIANT SomeDateIsAsDocumented
\* The clock stops at the end of LastYear.
CHECK_DEADLOCK FALSE
