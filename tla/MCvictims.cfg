CONSTANTS
    NumPages = 3
    MaxScans = 1
    Histories = {0, 1, 255}
    NumBuckets = 2
    BucketWidth = 2
    RangeMin = 1
    IntBits = 4
    SizeBits = 2
    Data = {0, 1, 2, 4, 5}
    MaxRecords = 4

SPECIFICATION Spec

INVARIANT ScansImplementPolicies
INVARIANT StubOnlyBreaksTies
INVARIANT HistoTypeOK
INVARIANT BucketsMatchData
INVARIANT AccessorsMatchData

CHECK_DEADLOCK FALSE
