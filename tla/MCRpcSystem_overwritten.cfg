\* A fast response is overwritten by the caller's own put of null.
CONSTANTS
  c1 = c1
  c2 = c2
  c3 = c3
  r1 = r1
  r2 = r2
  lot1 = lot1
  lot2 = lot2
  NULL = NULL
  Absent = Absent
  Channels = {c1, c2}
  Requests = {r1, r2}
  ParkingIds = {lot1}
  ParkingIdOf <- OneLot
SPECIFICATION Spec
PROPERTY ResponseNeverOverwritten
\* Calls and connections are finitely many: all may be over.
CHECK_DEADLOCK FALSE
