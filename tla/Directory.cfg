SPECIFICATION FairSpec
CONSTANTS
  NumArchives = 2
  Dotted = {2}
  Loops = {"sync", "gc"}
  MaxFailures = 2
INVARIANTS
  TypeOK
  CleanListIsComplete
  UnmadeIsScheduled
PROPERTIES
  DirectoryKeepsContract
  EveryZipIsMade
  SyncCleansUp
CHECK_DEADLOCK FALSE
