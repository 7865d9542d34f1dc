SPECIFICATION EngineSpec
CONSTANTS
    c1 = c1
    c2 = c2
    c3 = c3
    c4 = c4
    r1 = r1
    r2 = r2
    b1 = b1
    b2 = b2
    b3 = b3
    b4 = b4
    None = None
    NoCall = NoCall
    Owners = 3
    MaxClones = 2
    Resolvers <- MCResolvers
    Boxes <- MCBoxes
    Calls <- MCCalls
    Capacity <- MCCapacity
INVARIANTS
    GracefulExit
    NoLostWakeup
    HandlesOwnBoxes
PROPERTIES
    WithdrawnNeverRuns
    EveryCallAnswered
    ImplementsService
    SettledYields
CHECK_DEADLOCK FALSE
