SPECIFICATION FairSpec
CONSTANTS
  l1 = l1
  l2 = l2
  c1 = c1
  None = None
  Retry = Retry
  Lanes = {l1, l2}
  Callers = {c1}
  Generations = {1, 2}
  LiveTokens = {1, 2}
  MaxChanges = 1
  MaxFailures = 2
INVARIANTS
  TypeOK
  ViewNeverStale
PROPERTIES
  ViewConverges
  ProbesAreFresh
