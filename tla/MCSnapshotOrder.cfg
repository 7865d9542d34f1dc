SPECIFICATION StoreSpec
CONSTANTS
    w1 = w1
    e1 = e1
    Writers <- MCWriters
    Evictors <- MCEvictors
    MaxSnapshots = 1
    Base = 2
    Wrap = 4
    MaxNumber = 4
INVARIANTS
    LatestIsNewest
CHECK_DEADLOCK FALSE
