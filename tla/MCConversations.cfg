\* Entries are cleared from outside, turns are retried, posts raise: which entries
\* may outlive their run.
\* One wait of a Discord thread or a console conversation, with a restart.
CONSTANTS
    Tasks = {a, b, c}
    Interrupts = {a}
    MaxReruns = 1
    MaxClears = 2
    MayRetry = TRUE
    SendMayFail = TRUE
    Discord = {dis}
    Console = {con}
    Probes = {q}
    MaxRows = 1
    MaxCrashes = 1
    MaxWaitsPerThread = 1
    MaxActiveWaits = 2
    MaxConsecutiveErrors = 2
    MaxDeliveryFailures = 2
CONSTANTS
    Rules <- DoneValues
SPECIFICATION AllFairSpec
INVARIANTS
    RunIsRegistered
    
    ResumedOnce
    FinishedDiscordWaitHasRun
PROPERTIES
    EveryWaitEnds
CHECK_DEADLOCK FALSE
