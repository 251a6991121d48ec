CONSTANTS
    m1 = m1
    m2 = m2
    r1 = r1
    r2 = r2
    NoRow = NoRow
    Msg <- OneMessage
    Reactor <- TwoReactors
    Origins = {"api", "bulk", "phone"}
    Payloads = {"url", "bytes"}
    Faults = {"refused", "unsure", "noid", "database", "retire", "crash"}
    MaxEvents = 3
    MaxFaults = 1
SPECIFICATION FairSpec
INVARIANTS
    FailedIsTrue
    OneCopy
    ContentKept
PROPERTIES
    OnlyMergeRegresses
    Resolves
    ReadShown
CHECK_DEADLOCK FALSE
