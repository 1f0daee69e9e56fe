CONSTANTS
    Callers = {c1, c2}
    MaxAsks = 2
    MaxReboots = 0
SPECIFICATION Spec
INVARIANT ClientNeverNull
CHECK_DEADLOCK FALSE
