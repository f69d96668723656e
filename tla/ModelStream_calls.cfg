CONSTANTS
    Clients = {c1, c2}
    MaxCalls = 2
    MaxHits = 1
    Nobody = Nobody
    Payloads <- MCPayloads
    MaxPayloads = 3
    Responses <- MCResponses
SPECIFICATION Spec
INVARIANTS EventsInOrder NothingOutlives DoneIsComplete
PROPERTIES CallsReturn
CHECK_DEADLOCK FALSE
