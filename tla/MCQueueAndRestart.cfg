\* The slot queue: three runs of two threads, a limit of 1 or 2, one caller lost.
\* Reserved and ordinary restarts: two messages of one thread, with crashes.
CONSTANTS
    r1 = r1
    r2 = r2
    r3 = r3
    t1 = t1
    t2 = t2
    m1 = m1
    m2 = m2
    m3 = m3
    Runs = {r1, r2, r3}
    Threads = {t1, t2}
    MaxLimit = 2
    MaxStrays = 1
    Messages = {m2, m3}
    Seats = 1
    MaxReplays = 2
    MaxRestarts = 2
    MaxReconnects = 1
    MaxReserves = 1
    MaxContinues = 1
    MarkMayFail = TRUE
    ResumeMarkMayFail = FALSE
    Crashes = TRUE
    Overlaps = {"shutdown"}
CONSTANTS
    ThreadOf <- MCThreadOf
    MessageThread <- MCMessageThread
SPECIFICATION AllSpec
INVARIANTS
    WorkConserving
    IdleAtRestart
    RunsOnce
PROPERTIES
    KeepsTheLimit
    ArrivalOrderKept
    WouldWaitIsExact
CHECK_DEADLOCK FALSE
