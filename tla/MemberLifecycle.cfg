SPECIFICATION FairSpec
CONSTANTS
  p1 = p1
  p2 = p2
  k1 = k1
  k2 = k2
  None = None
  Callers = {p1, p2}
  Tokens = {k1, k2}
  MaxRequests = 3
  MaxCrashes = 1
  MaxFaults = 1
INVARIANTS
  TypeOK
  ArchivedHasNoAgent
  WorkIsClosed
  CommitsWhatItRead
  AdmissionReopened
PROPERTIES
  ImplementsContract
  CallsReturn
CHECK_DEADLOCK FALSE
