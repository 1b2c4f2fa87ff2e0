\* One getter and one putter, two keys in one shard, capacity one.
SPECIFICATION Spec
CONSTANTS
    k1 = k1
    k2 = k2
    p1 = p1
    p2 = p2
    s1 = s1
    None = None
    MetaPath = MetaPath
    Keys = {k1, k2}
    Paths = {p1, p2}
    Shards = {s1}
    Path <- DistinctPath
    Shard <- OneShard
    Getters = {g}
    Putters = {w}
    Capacity = 1
    TTL = 1
    Second = 1
    VHost = FALSE
    MaxTime = 2
    MaxPuts = 2
    MaxCrashes = 1
    MaxFaults = 1
INVARIANTS TypeOK CapacityRespected
PROPERTY KeepsPromise
