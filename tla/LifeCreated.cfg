SPECIFICATION FairSpec
CONSTANTS
  Archives = {a1, a2}
  None = None
  Collectors = {logs}
  Keep = 1
  Loops = {"sync", "gc"}
  Users = {"change"}
  Faults = {}
  MaxCreated = 2
  MaxChanges = 1
  MaxCrashes = 0
PROPERTIES
  GcKeepsNewest
  EveryArchiveIsCreated
CHECK_DEADLOCK FALSE
