\* Three connections, two of one lot and one of another, and two calls: any
\* three of these five.
CONSTANTS
  c1 = c1
  c2 = c2
  c3 = c3
  r1 = r1
  r2 = r2
  lot1 = lot1
  lot2 = lot2
  NULL = NULL
  Absent = Absent
  Channels <- MCChannels
  Requests <- MCRequests
  ParkingIds = {lot1, lot2}
  ParkingIdOf <- TwoLots
SPECIFICATION MCSpec
INVARIANTS
  TypeOK
  GroupIsLive
  MappedIsGrouped
  CompletedRemovalIsClean
  OwnAnswer
  NoEntryLeft
PROPERTIES
  ResponseKept
  ImplementsContract
  LotReachable
  AnsweredCallEnds
\* Calls and connections are finitely many: all may be over.
CHECK_DEADLOCK FALSE
