SPECIFICATION Spec
CONSTANTS
  d1 = d1
  e1 = e1
  e2 = e2
  k1 = k1
  Dispatches = {d1}
  Execs = {e1}
  Cases = {k1}
  CaseOf <- MCCaseOf
  Leader = Leader
  Human = Human
  Others = Others
  None = None
  MaxFaults = 0
  MaxCrashes = 0
INVARIANT ZeroEffect
CHECK_DEADLOCK FALSE
