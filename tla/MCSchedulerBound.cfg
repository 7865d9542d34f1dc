SPECIFICATION Spec
CONSTANTS
    a1 = a1
    a2 = a2
    a3 = a3
    k1 = k1
    k2 = k2
    NoAgent = NoAgent
    Agents <- MCAgents
    Closers <- MCClosers
    Slots <- MCSlots
INVARIANTS
    ConcurrencyBounded
CHECK_DEADLOCK FALSE
