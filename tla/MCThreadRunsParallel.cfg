\* /clear while a turn runs.
CONSTANTS
    Tasks = {a, b}
    Interrupts = {a}
    MaxReruns = 0
    MaxClears = 1
    MayRetry = FALSE
    SendMayFail = FALSE
SPECIFICATION Spec
INVARIANT
    OneRunPerThread
CHECK_DEADLOCK FALSE
