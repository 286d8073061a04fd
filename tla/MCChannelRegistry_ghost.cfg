\* Two lots: a removal that is cut short leaves a dead channel mapped.
CONSTANTS
  c1 = c1
  c2 = c2
  c3 = c3
  lot1 = lot1
  lot2 = lot2
  NULL = NULL
  Channels <- MCChannels
  ParkingIds = {lot1, lot2}
  ParkingIdOf <- TwoLots
SPECIFICATION RegSpec
INVARIANT NoGhostMapping
\* The finitely many connections may all have come and gone.
CHECK_DEADLOCK FALSE
