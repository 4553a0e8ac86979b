SPECIFICATION FairSpec
CONSTANTS
  t1 = t1
  t2 = t2
  j1 = j1
  j2 = j2
  o1 = o1
  c1 = c1
  c2 = c2
  k1 = k1
  k2 = k2
  i1 = i1
  s1 = s1
  None = None
  Teams = {t1, t2}
  Ops = {o1}
  Callers = {c1, c2}
  Journals = {j1, j2}
  TeamOf <- TwoTeams
  Serves <- ServesFirst
  Keys = {k1, k2}
  Intents = {i1}
  Children = {s1}
  Expectations <- AnyOrFresh
  MaxCalls = 3
  MaxCrashes = 1
INVARIANTS
  TypeOK
  AppliedAtMostOnce
  CommittedIsApplied
  SequencesUnique
  StampNeverAhead
  AnswersAreDurable
PROPERTIES
  EveryCallReturns
  NeverRolledBack
  ImplementsProtocol
