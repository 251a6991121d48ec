CONSTANTS
    s1 = s1
    s2 = s2
    e1 = e1
    e2 = e2
    e3 = e3
    e4 = e4
    f1 = f1
    f2 = f2
    f3 = f3
    NoSession = NoSession
    NoEngine = NoEngine
    Session <- OneSession
    Engine <- FourEngines
    Flow <- ThreeFlows
    Requests = {"start", "stop", "logout", "kill", "delete"}
    Faults = {"drop", "early", "unlink", "stuck", "error", "reject", "hang", "exhaust", "query", "slow"}
    MaxRequests = 3
    MaxFaults = 2
SPECIFICATION Spec
SYMMETRY Alike
INVARIANTS
    StopSticks
PROPERTIES
    NoRearm
CHECK_DEADLOCK FALSE
