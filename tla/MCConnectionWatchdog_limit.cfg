\* After the maximum number of attempts retries go on, at one interval.
CONSTANTS
  c0 = c0
  c1 = c1
  c2 = c2
  NULL = NULL
  First = c0
  Conns <- MCConns
  MAX_ATTEMPTS = 50
SPECIFICATION Spec
PROPERTY LimitedOrLonger
