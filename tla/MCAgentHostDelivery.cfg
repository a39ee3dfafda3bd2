SPECIFICATION FairSpec
CONSTANTS
    Payloads <- MixedPayloads
    MaxSeq = 2
    MaxBuckets = 1
    DedupKeys = {"d1", "d2"}
    DedupCapacity = 2
    Workers = {w1, w2}
    QueueCapacity = 1
PROPERTIES
    ImplementsDelivery
    IntakeMoves
    ShutdownReachesFlush
CHECK_DEADLOCK FALSE
