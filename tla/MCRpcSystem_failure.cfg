\* A request whose handler fails on the client is never answered.
CONSTANTS
  c1 = c1
  c2 = c2
  c3 = c3
  r1 = r1
  r2 = r2
  lot1 = lot1
  lot2 = lot2
  NULL = NULL
  Absent = Absent
  Channels = {c1}
  Requests = {r1}
  ParkingIds = {lot1}
  ParkingIdOf <- OneLot
SPECIFICATION Spec
PROPERTY FailureReachesCaller
\* Calls and connections are finitely many: all may be over.
CHECK_DEADLOCK FALSE
