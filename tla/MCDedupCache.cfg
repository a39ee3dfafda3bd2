SPECIFICATION Spec
CONSTANTS
    Keys = {a, b, c}
    Callers = {w1, w2}
    Capacity = 2
    TTL = 2
    MaxTime = 5
SYMMETRY Interchangeable
INVARIANTS
    TypeOK
    Backed
    Bounded
    PromiseKept
PROPERTIES
    ForgetsOnlyWhenFull
    RefinesFilter
