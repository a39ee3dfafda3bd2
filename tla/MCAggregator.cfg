SPECIFICATION AggregatorFairSpec
CONSTANTS
    Payloads <- MixedPayloads
    MaxSeq = 3
    MaxBuckets = 1
INVARIANTS
    AggregatorTypeOK
    Conservation
    AtMostOneToast
    SupersededByNewer
    OneReplaceableValue
    TimerOwnsBucket
    ShutdownEmptiesBuckets
PROPERTIES
    BucketsGetFlushed
    ShutdownEnds
CHECK_DEADLOCK FALSE
