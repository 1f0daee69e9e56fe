CONSTANTS
    TableSize = 2
    MaxCreds = 2
    MaxAsks = 2
    MaxFaults = 1
    MaxQueue = 2
SPECIFICATION Spec
INVARIANTS CredentialsReconnect
CHECK_DEADLOCK FALSE
