SPECIFICATION Spec
CONSTANTS
  N = 2
  Kinds = {"append"}
  Faults = {"collect"}
  MaxAttempts = 3
INVARIANTS
  DoneMeansComplete
CHECK_DEADLOCK FALSE
