INIT Init
NEXT Next
CONSTANTS
    Prompts = {p1, p2}
    Queued = {q1}
    Opened <- AtItsLimit
    Jobs <- TwoJobs
    Limits <- SmallSessions
INVARIANTS StoreAgrees CompactionAlone EndsProjected QueueShown NobodyStuck
PROPERTY DisposedIsFinal
SYMMETRY EitherPrompt
CHECK_DEADLOCK FALSE
