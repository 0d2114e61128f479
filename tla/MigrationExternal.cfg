SPECIFICATION ExternalSpec
CONSTANTS
  Versions = {1, 2}
  SchemaOf <- MCSchemaOf
  GenerationOf <- MCGenerationOf
  Jobs = {j1, j2, j3, j4}
  MaxFaults = 3
  MaxWrites = 1
  Absent = Absent
  NoJournal = NoJournal
  NoJob = NoJob
SYMMETRY JobSymmetry
PROPERTIES
  ForeignEvidenceIsOnlyMoved
  EvidenceDecides
