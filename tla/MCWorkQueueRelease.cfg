CONSTANTS
    Clients = {c1, c2}
    Worker = worker
    Cbs = {f, g}
    Datas = {d}
    NULL = NULL
    QueueLen = 2
    MaxItems = 1
SPECIFICATION Spec
INVARIANT PollReadsLiveThread
CHECK_DEADLOCK FALSE
