SPECIFICATION FairSpec
CONSTANTS
    c1 = c1
    c2 = c2
    Nobody = Nobody
    Conns = {c1, c2}
    Origins <- Pairs
    MaxBytes = 1
CHECK_DEADLOCK FALSE
INVARIANTS CopyIsComplete
PROPERTIES CloseIsFinal ConnectionsSettle BytesArrive
