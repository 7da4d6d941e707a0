SPECIFICATION FairSpec
CONSTANTS
    ExitStatus = {"0", "1", "TERM"}
    MaxOut = 3
    MaxIn = 2
CHECK_DEADLOCK FALSE
INVARIANTS TypeOK NothingLost StdinComplete
PROPERTIES ImplementsChannel ClientEndsExec
