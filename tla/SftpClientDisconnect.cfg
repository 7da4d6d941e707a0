SPECIFICATION FairSpec
CONSTANTS
    c1 = c1
    c2 = c2
    c3 = c3
    NoCall = NoCall
    Calls = {c1, c2}
    OpOf <- Mixed
    IdModulus = 3
    FirstId = 1
    WriteCapacity = 2
    Bodies = {"status_ok"}
    PeerMayRefuse = FALSE
    PeerMayClose = TRUE
    MaxFaults = 0
CHECK_DEADLOCK FALSE
PROPERTY DisconnectReleases
