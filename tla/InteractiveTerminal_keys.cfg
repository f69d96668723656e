SPECIFICATION FairSpec
CONSTANTS
  MaxPrompts = 6
  Instances <- Small
INVARIANTS BusyForReason
PROPERTIES SignalEnds
CHECK_DEADLOCK FALSE
