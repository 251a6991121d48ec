CONSTANTS
    s1 = s1
    s2 = s2
    s3 = s3
    None = None
    Socket <- ThreeSockets
    Faults = {"drop", "twice", "load", "unlink", "refuse", "rm"}
    MaxFaults = 6
SPECIFICATION FairSpec
INVARIANTS
    OneSocket
    StopHolds
    CredentialsKept
    LogoutMeansIt
PROPERTY
    Progress
CHECK_DEADLOCK FALSE
