CONSTANTS
    w1 = w1
    w2 = w2
    w3 = w3
    c1 = c1
    c2 = c2
    old = old
    new = new
    bad = bad
    None = None
    Worker <- Generations
    Call <- Events
    Version <- Packages
    Faulty <- Refused
    Faults = {"crash", "exit", "hang", "throw", "swap"}
    MaxFaults = 2
    MaxOps = 2
SPECIFICATION FairSpec
INVARIANTS
    NothingLeft
    CallsLive
    Synced
PROPERTIES
    NeverVanishes
    EverythingEnds
CHECK_DEADLOCK FALSE
