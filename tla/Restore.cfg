SPECIFICATION FairSpec
CONSTANTS
  Jobs = {j1, j2}
  Patterns <- MCPatterns
  MaxFaults = 2
  Original = Original
  Foreign = Foreign
  Absent = Absent
  NoDirectory = NoDirectory
  NoJob = NoJob
INVARIANTS
  RestoreConsistent
PROPERTIES
  SwitchIsExact
  EventuallyRuns
