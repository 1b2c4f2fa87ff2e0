\* Two tasks store the same key at the same time.
SPECIFICATION Spec
CONSTANTS
    k1 = k1
    k2 = k2
    p1 = p1
    p2 = p2
    s1 = s1
    None = None
    MetaPath = MetaPath
    Keys = {k1}
    Paths = {p1}
    Shards = {s1}
    Path <- OnePath
    Shard <- OneShardOnePath
    Getters = {g}
    Putters = {v, w}
    Capacity = 1
    TTL = 1
    Second = 1
    VHost = FALSE
    MaxTime = 0
    MaxPuts = 2
    MaxCrashes = 0
    MaxFaults = 0
INVARIANTS HitComplete
