\* A VHost proxy, two tasks that both look up and store, two keys in one shard, as
\* long as the stores stay calm: the behaviours of CalmSpec.
SPECIFICATION Spec
CONSTANTS
    k1 = k1
    k2 = k2
    p1 = p1
    p2 = p2
    s1 = s1
    None = None
    MetaPath = MetaPath
    Keys = {k1, k2}
    Paths = {p1, p2}
    Shards = {s1}
    Path <- DistinctPath
    Shard <- OneShard
    Getters = {a, b}
    Putters = {a, b}
    Capacity = 1
    TTL = 1
    Second = 1
    VHost = TRUE
    MaxTime = 0
    MaxPuts = 2
    MaxCrashes = 1
    MaxFaults = 1
CONSTRAINT Calm
PROPERTY KeepsPromise
