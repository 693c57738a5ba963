\* The card and the answer of a Teams conversation, two prompts, the status emoji,
\* a recurring task and a one-shot, two upgrades with two sessions.
CONSTANTS
    MaxCard = 3
    MaxText = 2
    MaxFailures = 1
    Questions = {"q1", "q2"}
    SkipPermissions = FALSE
    Emojis = {"thinking", "tool"}
    Finished = "done"
    Tasks = {"report", "wakeup"}
    OneShots = {"wakeup"}
    MaxToggles = 1
    MaxFaults = 1
    Upgrades = {"u1", "u2"}
    Slash = {"u2"}
    Sessions = {"s1", "s2"}
    Gates = {"restart"}
    MaxPolls = 1
    MaxRefusals = 1
    MaxSessions = 2
    MaxStops = 1
SPECIFICATION AllSpec
INVARIANTS
    TypesOK
    FinalIsShown
    OneAnswer
    OneEmoji
    NoDoubleRun
    CutOffIsMarked
PROPERTIES
    CardCatchesUp
    EveryRequestAnswered
    OneShotExecutes
CHECK_DEADLOCK FALSE
