SPECIFICATION FairSpec
CONSTANTS
    c1 = c1
    c2 = c2
    c3 = c3
    NoCall = NoCall
    Calls = {c1, c2}
    OpOf <- Mixed
    IdModulus = 2
    FirstId = 1
    WriteCapacity = 1
    Bodies = {"status_ok", "malformed"}
    PeerMayRefuse = TRUE
    PeerMayClose = TRUE
    MaxFaults = 2
CHECK_DEADLOCK FALSE
PROPERTIES EveryCallReturns FailureReleases
