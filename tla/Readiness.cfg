SPECIFICATION ReadyFairSpec
CONSTANTS
    Requests = {r1, r2}
    Kids = {k1}
    Ttl = 1
    MissRefresh = 1
    StaleGrace = 2
    Timeout = 1
    MaxTime = 5
    None = None
PROPERTY DismissedForGood
PROPERTY OutageReadinessBounded
PROPERTY StoreNoticed
