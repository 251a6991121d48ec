CONSTANTS
    n1 = n1
    n2 = n2
    s1 = s1
    s2 = s2
    NoNode = NoNode
    Node <- TwoNodes
    Session <- OneSession
    MaxConcurrent = 1
    Requests = {"start","shutdown","stop","logout","kill","delete"}
    Faults = {"crash", "lapse", "query", "launch", "drop", "exhaust", "error"}
    MaxRequests = 1
    MaxFaults = 1
SPECIFICATION Spec
SYMMETRY TwoAlike
PROPERTY
    LeaseRefined
CHECK_DEADLOCK FALSE
