SPECIFICATION Spec
CONSTANTS
    Payloads <- StatePayloads
    MaxSeq = 2
    MaxBuckets = 1
    DedupKeys = {"d1", "d2"}
    DedupCapacity = 2
    Workers = {w1, w2}
    QueueCapacity = 1
INVARIANTS
    NewestStateShownLast
CHECK_DEADLOCK FALSE
