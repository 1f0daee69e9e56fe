CONSTANTS
    Raw <- MCRaw
    Rest <- MCRest
    MaxReads = 7
    MaxCalibrations = 1
SPECIFICATION Spec
INVARIANTS TypeOK FilterMatchesReference StatsConsistent
CHECK_DEADLOCK FALSE
