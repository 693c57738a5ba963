\* Queued runs of two threads come back across a clean restart, with failing marks.
\* The runs of a thread, cleared from outside and with failing posts, all end.
\* Two turns deliver two files.
CONSTANTS
    m1 = m1
    m2 = m2
    m3 = m3
    t1 = t1
    t2 = t2
    Threads = {t1, t2}
    Messages = {m1, m2}
    MaxSlots = 1
    MaxReplays = 2
    MaxRestarts = 1
    MaxReconnects = 0
    MaxReserves = 1
    MaxContinues = 1
    MarkMayFail = TRUE
    ResumeMarkMayFail = TRUE
    Crashes = FALSE
    Overlaps = {}
CONSTANT ThreadOf <- MCThreadOf
SPECIFICATION MCSpec
PROPERTIES
    EveryTaskEnds
    QueuedIsRun
    EveryFileSent
CHECK_DEADLOCK FALSE
