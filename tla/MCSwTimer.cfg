CONSTANTS
    c1 = c1
    c2 = c2
    t1 = t1
    t2 = t2
    Timers = {t1, t2}
    Clients = {c1, c2}
    Owner <- MCOwner
    TimerThread = sys_timer
    Intervals = {0, 1}
    MaxNow = 2
    MaxCalls = 3
    NoTimer = NoTimer
SPECIFICATION FairSpec
INVARIANTS TypeOK ActiveSorted ListsConsistent NoLostWakeup
PROPERTIES ExpiredDispatched
CHECK_DEADLOCK FALSE
