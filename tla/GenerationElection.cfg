SPECIFICATION Spec
CONSTANTS
    kb = kb
    graph = graph
    k1 = k1
    k2 = k2
    g1 = g1
    None = None
    Keys = {kb, graph}
    KbKeys = {kb}
    Shadows = {k1, k2, g1}
    KeyOf <- MCKeyOf
    Generations = {A, B}
    Baseline = A
    MaxEpoch = 4
INVARIANTS
    TypeOK
    ServedIsDeclared
    OutageIsRecoverable
    PriorIsKept
CHECK_DEADLOCK FALSE
