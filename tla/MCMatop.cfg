CONSTANTS
    Threads = {t1, t2}
    MaxEntries = 2
    MaxPacketId = 6
    MaxRecords = 2
    ReqIds = 2
    MaxFaults = 1
SPECIFICATION FairSpec
INVARIANTS TypeOK ListsAlive AcceptedReachable ReportedOnce AnswersFit FreedReported CrashCauses
PROPERTIES TimeoutsHonest EverySettled
CHECK_DEADLOCK FALSE
