CONSTANTS
    TableSize = 2
    MaxCreds = 2
    MaxAsks = 2
    MaxFaults = 1
    MaxQueue = 2
SPECIFICATION Spec
INVARIANTS TypeOK ManagerAgrees BackoffInTable CredentialsUsed NeverStranded
CHECK_DEADLOCK FALSE
