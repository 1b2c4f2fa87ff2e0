SPECIFICATION FairSpec
CONSTANTS
    Threads = {t1, t2}
    Capacity = 1
    BufferLimit = 1
    StackDepth = 2
    MaxEvents = 2
    MaxFaults = 1
INVARIANTS TypeOK LogAccounted AbortedByAccessOnly
PROPERTIES Drained
CHECK_DEADLOCK FALSE
