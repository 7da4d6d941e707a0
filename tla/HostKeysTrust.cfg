SPECIFICATION TrustSpec
CONSTANTS
    a = a
    b = b
    NoKey = NoKey
    k1 = k1
    k2 = k2
    c1 = c1
    c2 = c2
    c3 = c3
    Conns = {c1, c2, c3}
    EndpointOf <- Mixed
    AcceptNew = {c1, c2, c3}
    Hosts = {a, b}
    Ports = {22, 2200, 2222}
    HostKeySet = {k1, k2}
    Files <- SomeFiles
    Merged <- OneStore
    Replaced <- OneEndpoint
    MaxRuns = 2
CHECK_DEADLOCK FALSE
INVARIANTS TrustTypeOK AcceptedStaysKnown RevokedStaysRejected
