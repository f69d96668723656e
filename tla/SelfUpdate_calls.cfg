SPECIFICATION FairSpec
CONSTANTS
  Calls = {"c", "d"}
  Signals = {"INT", "TERM"}
  Worlds <- SomeWorlds
INVARIANTS OneInstaller DirectoryRemoved
PROPERTIES UpdatesForward SignalEnds
CHECK_DEADLOCK FALSE
