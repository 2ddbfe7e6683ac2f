SPECIFICATION Spec
CONSTANTS
  Archives = {a1, a2}
  None = None
  Collectors = {logs}
  Keep = 1
  Loops = {"sync", "gc"}
  Users = {"delete", "foreground"}
  Faults = {"api"}
  MaxCreated = 2
  MaxChanges = 0
  MaxCrashes = 0
SYMMETRY Symmetry
INVARIANTS
  TypeOK
  OrphanIsBeingCleaned
  LiveDataIsIntact
PROPERTIES
  KeepsArchiveContract
  CollectedStays
CHECK_DEADLOCK FALSE
