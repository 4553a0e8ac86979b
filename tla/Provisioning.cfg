SPECIFICATION FairSpec
CONSTANTS
  m1 = m1
  d1 = d1
  d2 = d2
  k1 = k1
  k2 = k2
  s1 = s1
  s2 = s2
  None = None
  Lifecycle = Lifecycle
  Instances = {m1}
  Drivers = {d1, d2}
  Tokens = {k1, k2}
  Children = {s1, s2}
  MaxCrashes = 1
  MaxFaults = 1
  MaxVersion = 2
INVARIANTS
  TypeOK
  CommittedIsWhole
  OneChildPerMember
PROPERTIES
  ImplementsStages
  MemberNeverReset
  RecoveryConverges
