SPECIFICATION FairSpec
CONSTANTS
  Lines = {l1, l2, l3, l4, l5}
  NullLines = {l5}
  Limit = 2
  Window = 3
  Start = 0
  End = 4
  Faults = {"query", "parse", "cancel"}
INVARIANTS
  TypeOK
  NothingIsMissed
  OnlyTheLastPageIsLost
  NoLineThreeTimes
PROPERTIES
  SearchEnds
CHECK_DEADLOCK FALSE
