SPECIFICATION FairSpec
CONSTANTS
  c1 = c1
  c2 = c2
  k1 = k1
  k2 = k2
  t1 = t1
  t2 = t2
  None = None
  Callers = {c1, c2}
  Tokens = {k1, k2}
  Delegations = {k2}
  Templates = {t1}
  Persistent = {t1}
  TeamInstances = 2
  TeamConcurrent = 1
  MemberInstances = 2
  MemberConcurrent = 1
  MaxCrashes = 1
  MaxFaults = 0
PROPERTY RetryConverges
