SPECIFICATION FairSpec
CONSTANTS
  Sizes = {1, 2, 3}
  MaxWhole = 5
  Faults = {"query", "type"}
INVARIANTS
  TypeOK
  NoSampleIsMissed
  OnlyBordersTwice
PROPERTIES
  CollectEnds
CHECK_DEADLOCK FALSE
