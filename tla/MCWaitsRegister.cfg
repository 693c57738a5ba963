\* An agent that registers the probe again while its wait resumes.
CONSTANTS
    c = c
    d = d
    p = p
    q = q
    Discord = {d}
    Console = {}
    Probes = {p, q}
    MaxRows = 2
    MaxCrashes = 1
    MaxWaitsPerThread = 1
    MaxActiveWaits = 2
    MaxConsecutiveErrors = 2
    MaxDeliveryFailures = 2
CONSTANT Rules <- MCRules
SPECIFICATION Spec
INVARIANT
    RegisteredIsWatched
CHECK_DEADLOCK FALSE
