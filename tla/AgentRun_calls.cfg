SPECIFICATION FairSpec
CONSTANTS
  UserMessages = {m1, m2}
  MaxPrompts = 2
  MaxToolTurns = 1
  CallCount = 2
  Instances <- SomeInstances
  None = None
INVARIANTS TranscriptsAgree ToolCallsAnswered
PROPERTIES KeptOnce QueuesDrained AbortEndsRun
