CONSTANTS
    n1 = n1
    n2 = n2
    s1 = s1
    s2 = s2
    NoNode = NoNode
    Node <- TwoNodes
    Session <- TwoSessions
    MaxConcurrent = 1
    Requests = {}
    Faults = {"crash", "query", "drop"}
    MaxRequests = 0
    MaxFaults = 3
SPECIFICATION Spec
SYMMETRY BothAlike
INVARIANT
    SingleEngine
CHECK_DEADLOCK FALSE
