SPECIFICATION Spec
CONSTANTS
    a = a
    b = b
    c = c
    Chans = {a, b}
    MaxSessions = 1
    Configured <- All
    MaxExecs = 2
CHECK_DEADLOCK FALSE
SYMMETRY Symmetry
INVARIANTS TypeOK NoSlotLeak StdinFollowsExec AuthenticatedFirst
