SPECIFICATION FairSpec
CONSTANTS
  Limit = 2
  Commands <- SomeCommands
INVARIANTS OutputKept NothingLeft
PROPERTIES StopEnds
CHECK_DEADLOCK FALSE
