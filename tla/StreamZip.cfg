SPECIFICATION FairSpec
CONSTANTS
  Collectors = {logs, nodes}
  None = None
  N = 2
  Faults = {"walk", "open", "copy", "remove", "race", "shutdown", "crash"}
  MaxAttempts = 2
INVARIANTS
  TypeOK
  SomebodyGoesOn
PROPERTIES
  CreationRunsDown
  ReportedZipIsComplete
  FailedZipIsRemoved
  CreationEnds
CHECK_DEADLOCK FALSE
