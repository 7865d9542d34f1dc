SPECIFICATION Spec
CONSTANTS
    p1 = p1
    p2 = p2
    p3 = p3
    Promises <- MCPromises
INVARIANTS
    ReleasedOnJsThread
CHECK_DEADLOCK FALSE
