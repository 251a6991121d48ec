CONSTANTS
    i1 = i1
    i2 = i2
    d1 = d1
    d2 = d2
    Sweep = Sweep
    Earlier <- OneEarlier
    Instance <- TwoInstances
    Delivery <- OneDelivery
    MaxTries = 2
    MaxReplays = 2
    SweepSize = 1
    BatchSize = 1
    MaxStalls = 1
    MaxLetters = 8
    Requests = {"redrive", "toggle"}
    Faults = {"reject", "echo", "query", "unsaved", "crash"}
    MaxRequests = 1
    MaxFaults = 2
SPECIFICATION FairSpec
INVARIANT
    Kept
PROPERTIES
    StaysSettled
    Concludes
CHECK_DEADLOCK FALSE
