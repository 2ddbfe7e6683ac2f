SPECIFICATION Spec
CONSTANTS
  Archives = {a1}
  None = None
  Collectors = {logs, nodes}
  Keep = 1
  Loops = {}
  Users = {"delete", "foreground", "recreate", "change"}
  Faults = {"collect", "io", "api", "crash"}
  MaxCreated = 2
  MaxChanges = 1
  MaxCrashes = 1
SYMMETRY Symmetry
INVARIANTS
  UnfinishedIsScheduled
  StatusIsTrue
CHECK_DEADLOCK FALSE
