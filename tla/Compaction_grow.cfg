SPECIFICATION BranchSpec
CONSTANTS
  KeepRecent = 2
  Weights <- SmallWeights
  MaxLength = 6
  Notes = {"label", "note"}
  MaxCopies = 1
INVARIANTS HistoryCovered ResultsKeepTheirCall
PROPERTIES BranchKeepsContext
CHECK_DEADLOCK FALSE
