CONSTANTS
    s1 = s1
    s2 = s2
    e1 = e1
    e2 = e2
    e3 = e3
    e4 = e4
    f1 = f1
    f2 = f2
    f3 = f3
    NoSession = NoSession
    NoEngine = NoEngine
    Session <- OneSession
    Engine <- ThreeEngines
    Flow <- TwoFlows
    Requests = {"start"}
    Faults = {"drop", "unlink", "error", "reject", "hang", "exhaust"}
    MaxRequests = 1
    MaxFaults = 5
SPECIFICATION FairSpec
INVARIANT
    SoleEngine
PROPERTIES
    CredentialsSpared
    DeadEngineLeaves
CHECK_DEADLOCK FALSE
