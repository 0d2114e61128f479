SPECIFICATION FairSpec
CONSTANTS
  Versions = {1, 2}
  SchemaOf <- MCSchemaOf
  GenerationOf <- MCGenerationOf
  Jobs = {j1, j2, j3}
  MaxFaults = 2
  MaxWrites = 2
  Absent = Absent
  NoJournal = NoJournal
  NoJob = NoJob
INVARIANTS
  TypeOK
  ServesLatest
  EveryCrashPointReconciles
  KeepsTheWayBack
PROPERTIES
  EvidenceIsOnlyMoved
  EventuallyServes
