SPECIFICATION Spec
CONSTANTS
  N = 3
  Kinds = {"append", "csv", "yaml", "state"}
  Faults = {"write", "delete", "finish", "close", "crash", "remove"}
  MaxAttempts = 3
INVARIANTS
  DoneMeansComplete
  OnlyBlindSendersBlock
PROPERTIES
  FinishedDataIsFrozen
  KeepsContract
CHECK_DEADLOCK FALSE
