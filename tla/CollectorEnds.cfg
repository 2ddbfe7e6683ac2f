SPECIFICATION FairSpec
CONSTANTS
  N = 3
  Kinds = {"append", "yaml"}
  Faults = {"collect", "write", "delete", "finish", "close", "shutdown", "crash", "remove"}
  MaxAttempts = 3
INVARIANTS
  TypeOK
  ReportedSuccessIsComplete
  LeftoversComeFromAbandonedWork
PROPERTIES
  AttemptRunsDown
  AttemptEnds
CHECK_DEADLOCK FALSE
