---------------------------- MODULE MCCacheStore ----------------------------
(* Instances of CacheStore for TLC. *)
EXTENDS CacheStore, TLC

CONSTANTS k1, k2, p1, p2, s1

\* No two keys share a CRC32; one shard.
DistinctPath == k1 :> p1 @@ k2 :> p2
OneShard == p1 :> s1 @@ p2 :> s1

\* One key only.
OnePath == k1 :> p1
OneShardOnePath == p1 :> s1
=============================================================================
