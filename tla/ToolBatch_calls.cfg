SPECIFICATION FairSpec
CONSTANTS
  CallCount = 2
  Modes = {"parallel", "sequential"}
  MaxUpdates = 1
  MaxCancels = 2
  CanFail = TRUE
  CanLeak = TRUE
INVARIANTS NothingOutlives
PROPERTIES KeepsContract BatchEnds
CHECK_DEADLOCK FALSE
