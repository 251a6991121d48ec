CONSTANTS
    d1 = d1
    d2 = d2
    Delivery <- TwoDeliveries
    MaxActive = 1
    Places = {0, 1}
    Retries = 2
    Modes = {"direct", "queued"}
    Faults = {"add", "echo", "query", "insert", "touch", "crash"}
    MaxFaults = 2
    MaxStops = 1
SPECIFICATION FairSpec
INVARIANTS
    SlotsKept
    Accounted
    AnswerIsFinal
PROPERTY
    Concludes
CHECK_DEADLOCK FALSE
