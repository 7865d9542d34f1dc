SPECIFICATION Spec
CONSTANTS
    p1 = p1
    p2 = p2
    p3 = p3
    Promises <- MCPromises
INVARIANTS
    CountersAccount
    IdleTestSound
PROPERTIES
    OutcomeReachesJs
    ImplementsChannel
CHECK_DEADLOCK FALSE
