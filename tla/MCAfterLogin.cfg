SPECIFICATION MainSpec
CONSTANTS
    b1 = b1
    b2 = b2
    b3 = b3
    v1 = v1
    Uuids = {b1, b2, b3}
    Uids = {v1}
    MaxAggregate = 2
    MaxRaw = 2
    MaxItems = 2
    MaxDecode = 1
    MaxNonMatching = 1
    Timeout = 4
    Window = 1
    Retries = 1
INVARIANTS
    WaitsForInit
    ExitTellsAll
    NeverBlamesShutdown
PROPERTIES
    RunEnds
CHECK_DEADLOCK FALSE
