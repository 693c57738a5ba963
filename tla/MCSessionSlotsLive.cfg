\* Liveness: every run is eventually served, with one or two slots.
CONSTANTS
    r1 = r1
    r2 = r2
    r3 = r3
    t1 = t1
    t2 = t2
    Runs = {r1, r2, r3}
    Threads = {t1, t2}
    MaxLimit = 2
    MaxStrays = 1
CONSTANT ThreadOf <- MCThreadOf
SPECIFICATION FairSpec
INVARIANT
    TypeOK
PROPERTIES
    CancelledLeaves
    NormalStarts
