\* Two threads on two accounts; an answer with tool cards and mid-turn messages; two
\* turns that deliver two files; two waits of one thread
\* (their restarts are MCConversations.cfg's).
CONSTANTS
    dis = dis
    ci = ci
    cd = cd
    t1 = t1
    t2 = t2
    Discord = {dis}
    Console = {}
    Probes = {ci, cd}
    MaxRows = 2
    MaxCrashes = 0
    MaxWaitsPerThread = 1
    MaxActiveWaits = 2
    MaxConsecutiveErrors = 1
    MaxDeliveryFailures = 1
    AccountThreads = {t1, t2}
    Ambient = "a"
    Strategies = {"round_robin", "most_headroom"}
    Assigns = {"session", "turn"}
    Retry = TRUE
    Cooldown = 1
    Resets = {2}
    MaxTime = 1
    MaxTurns = 2
    MaxPoolFailures = 1
    Styles = {FALSE, TRUE}
    Limit = 2
    MaxSaid = 5
    MaxStreamFailures = 1
    Files = {"f1", "f2"}
    Unreadable = {}
    Deliveries = {"c1", "c2"}
    MaxRequests = 3
    MaxFaults = 2
CONSTANTS
    Rules <- MCRules
    Pool <- MCPool
SYMMETRY ThreadSymmetry
SPECIFICATION AllSpec
INVARIANTS
    TypesOK
    CancelledStaysQuiet
    LiveWithinLimits
    ResumesWhole
    AnswerInOrder
    SentOncePerRequest
    RequestsSurvive
PROPERTIES
    RotationTurns
    ShownStays
CHECK_DEADLOCK FALSE
