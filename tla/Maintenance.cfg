SPECIFICATION MaintenanceSpec
CONSTANTS
  Documents = {d1}
  Materials = {m1}
  OperationIds = {}
  KeepDaily = 1
  KeepWeekly = 1
  NoBackup = NoBackup
  MaxBackups = 2
  MaxWeeks = 2
  MaxDeletes = 1
  MaxFaults = 1
  MaxCrashes = 1
  Keys = {k1, k2}
  GiveUp = 1
  Unused = Unused
  NoCall = NoCall
  MaxGrants = 1
  MaxReplays = 1
INVARIANTS
  MaintenanceConsistent
PROPERTIES
  OnlyOldBackupsVanish
  LockIsReleased
CHECK_DEADLOCK FALSE
