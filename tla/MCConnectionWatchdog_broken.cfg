\* A listener that is added too late ends the chain of retries.
CONSTANTS
  c0 = c0
  c1 = c1
  c2 = c2
  NULL = NULL
  First = c0
  Conns <- MCConns
  MAX_ATTEMPTS = 50
SPECIFICATION Spec
INVARIANT ChainNeverBreaks
