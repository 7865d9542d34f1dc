SPECIFICATION HostSpec
CONSTANTS
    io = io
    w1 = w1
    w2 = w2
    e1 = e1
    e2 = e2
    Wake = Wake
    Shutdown = Shutdown
    Delay <- MCDelay
    Posts <- MCPosts
    Capacity <- Roomy
    Longest = 2
    Writers <- MCWriters
    Evictors <- MCEvictors
    MaxSnapshots = 1
    Base = 2
    Wrap = 4
    MaxNumber = 2
    Tags <- MCTags
    Unknown = 9
    Payloads <- MCPayloads
    MaxUnknown = 2
INVARIANTS
    RunRecordsAgree
    HeapAfterModule
    LatestIsNewest
    ReadsWhatWasWritten
PROPERTIES
    FiresWhenDue
    DueTimerFires
    ShutdownStops
    TimeoutBoundsRun
    EvictsOnlyOld
CHECK_DEADLOCK FALSE
