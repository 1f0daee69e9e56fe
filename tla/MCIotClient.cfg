CONSTANTS
    Callers = {c1, c2}
    MaxAsks = 2
    MaxReboots = 1
SPECIFICATION FairSpec
INVARIANTS TypeOK ActivatedIsStored OnlineOnlyActivated ConnectHasClient
PROPERTIES KeepsSettling
CHECK_DEADLOCK FALSE
