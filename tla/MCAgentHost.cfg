SPECIFICATION Spec
CONSTANTS
    Payloads <- FewPayloads
    MaxSeq = 3
    MaxBuckets = 1
    DedupKeys = {"d1", "d2"}
    DedupCapacity = 2
    Workers = {w1, w2}
    QueueCapacity = 1
SYMMETRY Interchangeable
INVARIANTS
    TypeOK
    IntakeConservation
    DuplicateHasOriginal
    ObservedBeforeShown
    IntakeDrained
PROPERTIES
    ImplementsAggregator
CHECK_DEADLOCK FALSE
