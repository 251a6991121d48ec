CONSTANTS
    b1 = b1
    b2 = b2
    Batch <- TwoBatches
    StopOnError <- FirstBatch
    Items = 3
    SaveEvery = 2
    MaxConcurrent = 1
    Threshold = 1
    Requests = {"cancel", "stop", "delete", "peer"}
    Faults = {"refuse", "fail", "query", "crash", "lapse"}
    MaxRequests = 2
    MaxFaults = 1
SPECIFICATION FairSpec
INVARIANTS
    SlotsReturned
    Accounted
    CancelStops
PROPERTIES
    CancelSticks
    ProcessingEnds
CHECK_DEADLOCK FALSE
