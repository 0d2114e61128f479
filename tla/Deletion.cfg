SPECIFICATION DeletionSpec
CONSTANTS
  Documents = {d1, d2}
  Materials = {}
  OperationIds = {d1, d2}
  KeepDaily = 2
  KeepWeekly = 1
  NoBackup = NoBackup
  MaxBackups = 1
  MaxWeeks = 1
  MaxDeletes = 0
  MaxFaults = 1
  MaxCrashes = 1
  Requests = {r1}
  Launcher = launcher
  NoTombstone = NoTombstone
  NoResult = NoResult
  NoGrant = NoGrant
INVARIANTS
  DeletionConsistent
  WorkflowReportsTruth
PROPERTIES
  WorkflowEnds
