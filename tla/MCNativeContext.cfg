SPECIFICATION ValuesSpec
CONSTANTS
    b1 = b1
    b2 = b2
    b3 = b3
    b4 = b4
    Boxes <- MCBoxes
    MaxClones <- MCMaxClones
INVARIANTS
    ContextNotNeeded
CHECK_DEADLOCK FALSE
