\* A second message for a thread whose first is queued behind the hold.
CONSTANTS
    m1 = m1
    m2 = m2
    m3 = m3
    t1 = t1
    t2 = t2
    Threads = {t1, t2}
    Messages = {m2, m3}
    MaxSlots = 1
    MaxReplays = 2
    MaxRestarts = 2
    MaxReconnects = 0
    MaxReserves = 1
    MaxContinues = 0
    MarkMayFail = FALSE
    ResumeMarkMayFail = FALSE
    Crashes = FALSE
    Overlaps = {}
CONSTANT ThreadOf <- MCThreadOf
SPECIFICATION Spec
INVARIANT
    AcceptedIsSaved
CHECK_DEADLOCK FALSE
