SPECIFICATION Spec
CONSTANTS
  c1 = c1
  c2 = c2
  k1 = k1
  k2 = k2
  t1 = t1
  t2 = t2
  None = None
  Callers = {c1, c2}
  Tokens = {k1, k2}
  Delegations = {k2}
  Templates = {t1, t2}
  Persistent = {t1}
  TeamInstances = 2
  TeamConcurrent = 2
  MemberInstances = 1
  MemberConcurrent = 1
  MaxCrashes = 1
  MaxFaults = 1
SYMMETRY Symmetry
INVARIANTS
  TypeOK
  WithinQuota
  AnswersAreTrue
PROPERTY ImplementsStages
