SPECIFICATION Spec
CONSTANTS
  Processes = {"p", "q", "r"}
  Dirs <- Path
  ParentOf <- Parents
  ChainOf <- Chains
  Attempts = 2
  Worlds <- SomeWorlds
  MaxInputs = 2
  MaxFaults = 1
INVARIANTS TellsTruth ResolvesRight
PROPERTIES KeepsBook
CHECK_DEADLOCK FALSE
