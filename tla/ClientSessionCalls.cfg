SPECIFICATION FairSpec
CONSTANTS
    c1 = c1
    c2 = c2
    c3 = c3
    c4 = c4
    Nobody = Nobody
    CredentialLists <- Lists
    MaxAgentKeys = 2
    MaxPrompts = 1
    Calls = {c1, c2, c3, c4}
    Config <- Mixed
    Limit = 2
    MaxMsgs = 2
CHECK_DEADLOCK FALSE
INVARIANTS TypeOK VerdictIsTrue  StdinOnce ShellIsGranted
PROPERTIES CallsReturn
