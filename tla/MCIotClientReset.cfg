CONSTANTS
    Callers = {c1, c2}
    MaxAsks = 1
    MaxReboots = 0
SPECIFICATION Spec
INVARIANT ResetIsNext
CHECK_DEADLOCK FALSE
