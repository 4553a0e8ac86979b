SPECIFICATION FairSpec
CONSTANTS
  p1 = p1
  p2 = p2
  k1 = k1
  k2 = k2
  None = None
  Callers = {p1, p2}
  Tokens = {k1}
  MaxRequests = 2
  MaxCrashes = 0
  MaxFaults = 0
PROPERTY DrainEnds
CHECK_DEADLOCK FALSE
