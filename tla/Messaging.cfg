SPECIFICATION FairSpec
CONSTANTS
  c1 = c1
  c2 = c2
  m1 = m1
  m2 = m2
  t1 = t1
  t2 = t2
  None = None
  Leader = Leader
  Human = Human
  Calls = {c1, c2}
  Members = {m1, m2}
  Routes <- MCRoutes
  Tokens = {t1, t2}
  MaxSends = 2
  MaxChanges = 1
  MaxFailures = 1
INVARIANTS
  TypeOK
  AnsweredIsConfirmed
PROPERTIES
  ImplementsDelivery
  PendingDelivered
