SPECIFICATION StoreSpec
CONSTANTS
  Managers = {m, n}
  Files = {"f", "g"}
  MaxEntries = 3
  MaxLines = 5
  Uses <- MCUses
INVARIANTS BranchReachesRoot OwnEntriesSaved
PROPERTIES LinesStay BranchedKeepsLabels
SYMMETRY ManagerSymmetry
CHECK_DEADLOCK FALSE
