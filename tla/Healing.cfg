CONSTANTS
    n1 = n1
    n2 = n2
    s1 = s1
    s2 = s2
    NoNode = NoNode
    Node <- TwoNodes
    Session <- OneSession
    MaxConcurrent = 1
    Requests = {}
    Faults = {"lapse", "crash", "drop", "launch", "exhaust", "error"}
    MaxRequests = 0
    MaxFaults = 2
SPECIFICATION FairSpec
PROPERTIES
    OwnedLossHeals
    OrphanAdopted
    IdleClaimLapses
CHECK_DEADLOCK FALSE
