SPECIFICATION FairSpec
CONSTANTS
  N = 2
  Kinds = {"csv", "state"}
  Faults = {"write"}
  MaxAttempts = 3
PROPERTIES
  AttemptEnds
CHECK_DEADLOCK FALSE
