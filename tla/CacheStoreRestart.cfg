\* A basic proxy, one key, one restart.
SPECIFICATION Spec
CONSTANTS
    k1 = k1
    k2 = k2
    p1 = p1
    p2 = p2
    s1 = s1
    None = None
    MetaPath = MetaPath
    Keys = {k1}
    Paths = {p1}
    Shards = {s1}
    Path <- OnePath
    Shard <- OneShardOnePath
    Getters = {g}
    Putters = {w}
    Capacity = 1
    TTL = 1
    Second = 2
    VHost = FALSE
    MaxTime = 7
    MaxPuts = 1
    MaxCrashes = 1
    MaxFaults = 0
INVARIANTS HitWithinTTL
