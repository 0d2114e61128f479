SPECIFICATION UpdatesSpec
CONSTANTS
  a = a
  b = b
  r1 = r1
  Packages = {a, b}
  Releases = {r1}
  Keys = {k1, k2, k3}
  Calls = {c1, c2}
  None = None
  Release <- MCRelease
  Version <- MCVersion
  LedgerLimit = 2
  MaxInspections = 2
  MaxCalls = 3
  MaxFaults = 2
INVARIANTS
  UpdatesConsistent
PROPERTIES
  AnswersAreTrue
CHECK_DEADLOCK FALSE
SYMMETRY MCSymmetry
