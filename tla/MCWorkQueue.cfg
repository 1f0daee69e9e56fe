CONSTANTS
    Clients = {c1, c2}
    Worker = worker
    Cbs = {f, g}
    Datas = {d}
    NULL = NULL
    QueueLen = 2
    MaxItems = 3
SPECIFICATION FairSpec
INVARIANTS TypeOK NoLostWakeup WorkAccounted CancelledNeverRuns BackInOrder WorkerGoneBeforeFree
PROPERTIES EveryItemHandled DispatchRefined
CHECK_DEADLOCK FALSE
