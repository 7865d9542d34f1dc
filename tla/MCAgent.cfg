SPECIFICATION Spec
CONSTANTS
    c1 = c1
    c2 = c2
    c3 = c3
    NoCall = NoCall
    Shutdown = Shutdown
    Calls <- MCCalls
    Capacity <- MCCapacity
INVARIANTS
    ReportedIsFinal
PROPERTIES
    GracefulStop
    EveryCallReturns
    ShutdownCompletes
CHECK_DEADLOCK FALSE
