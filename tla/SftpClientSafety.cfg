SPECIFICATION Spec
CONSTANTS
    c1 = c1
    c2 = c2
    c3 = c3
    NoCall = NoCall
    Calls = {c1, c2, c3}
    OpOf <- AllStatus
    IdModulus = 2
    FirstId = 1
    WriteCapacity = 1
    Bodies = {"status_ok"}
    PeerMayRefuse = TRUE
    PeerMayClose = TRUE
    MaxFaults = 1
SYMMETRY Symmetry
CHECK_DEADLOCK FALSE
INVARIANTS TypeOK NoCrossDelivery WaiterIsTracked
