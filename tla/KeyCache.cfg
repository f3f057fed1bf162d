SPECIFICATION FairSpec
CONSTANTS
    Requests = {r1, r2, r3}
    Kids = {k1}
    Ttl = 2
    MissRefresh = 2
    StaleGrace = 2
    Timeout = 1
    MaxTime = 7
    None = None
INVARIANT TypeOK
PROPERTY StalenessBounded
PROPERTY NoNeedlessRefusal
PROPERTY NewKeyFound
PROPERTY TripsSpaced
PROPERTY EveryLookupAnswered
CHECK_DEADLOCK FALSE
