SPECIFICATION FairSpec
CONSTANTS
    t1 = t1
    t2 = t2
    t3 = t3
    t4 = t4
    Nobody = Nobody
    Other = Other
    Tunnels = {t1, t2, t3, t4}
    Ports = {1, 2}
    Paths = {3}
    Bind <- PortsAndPath
    MayTimeOut = TRUE
CHECK_DEADLOCK FALSE
INVARIANTS TypeOK ActiveTunnelWorks NoStrayListener
PROPERTIES RemovalIsOwn StartsAndClosesEnd
