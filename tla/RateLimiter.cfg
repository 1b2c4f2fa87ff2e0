\* Three worker threads, one more key than buckets.
SPECIFICATION Spec
CONSTANTS
    None = None
    Threads = {t1, t2, t3}
    Keys = {k1, k2}
    MaxTokens = 2
    RefillQty = 1
    MaxBuckets = 1
    GroupTokens = 2
    GroupQty = 1
    MaxTicks = 1
    MaxRequests = 5
SYMMETRY Symmetry
INVARIANTS PassedBounded GroupBounded
CHECK_DEADLOCK FALSE
