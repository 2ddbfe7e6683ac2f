SPECIFICATION FairSpec
CONSTANTS
  Archives = {a1}
  None = None
  Collectors = {logs}
  Keep = 1
  Loops = {"sync"}
  Users = {}
  Faults = {"crash"}
  MaxCreated = 1
  MaxChanges = 0
  MaxCrashes = 1
PROPERTIES
  EveryArchiveIsCreated
CHECK_DEADLOCK FALSE
