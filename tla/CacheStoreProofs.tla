--------------------------- MODULE CacheStoreProofs ---------------------------
(***************************************************************************)
(* Proofs about CacheStore: for any keys, paths, tasks and bounds, the map *)
(* respects its capacity across restarts, a hit carries the headers of its *)
(* key and a body written under the same path, and a hit of a VHost proxy  *)
(* is within its TTL; as long as no two tasks store into one body file at  *)
(* a time and no two keys share a file, the cache implements               *)
(* ResponseCache.                                                          *)
(***************************************************************************)
EXTENDS CacheStore, TLAPS, FiniteSetTheorems, SequenceTheorems

-----------------------------------------------------------------------------
(* Maps.                                                                   *)

\* A part of a good map is a good map: dropping entries (store, clean,
\* load, eviction) cannot exceed the capacity.
LEMMA RestrictGood ==
    ASSUME NEW m, NEW S, EntryMap(m), GoodEntries(m), S \subseteq DOMAIN m
    PROVE  EntryMap(Restrict(m, S)) /\ GoodEntries(Restrict(m, S))
<1>1. /\ DOMAIN Restrict(m, S) = S
      /\ \A k \in S : Restrict(m, S)[k] = m[k]
      /\ Restrict(m, S) = [k \in DOMAIN Restrict(m, S) |-> Restrict(m, S)[k]]
  BY DEF Restrict
<1>2. IsFiniteSet(S) /\ Cardinality(S) <= Cardinality(DOMAIN m)
  BY FS_Subset DEF GoodEntries
<1>3. Cardinality(S) \in Nat /\ Cardinality(DOMAIN m) \in Nat /\ Capacity \in Nat
  BY <1>2, FS_CardinalityType, BoundAssumption DEF GoodEntries
<1>4. Cardinality(S) <= Capacity
  BY <1>2, <1>3 DEF GoodEntries
<1>5. EntryMap(Restrict(m, S))
  BY <1>1 DEF EntryMap
<1>6. GoodEntries(Restrict(m, S))
  BY <1>1, <1>2, <1>4 DEF GoodEntries
<1>7. QED
  BY <1>5, <1>6

\* The empty map of a process that starts is good.
LEMMA EmptyGood == EntryMap(EmptyMap) /\ GoodEntries(EmptyMap)
<1>1. DOMAIN EmptyMap = {} /\ EmptyMap = [k \in DOMAIN EmptyMap |-> EmptyMap[k]]
  BY DEF EmptyMap
<1>2. IsFiniteSet({}) /\ Cardinality({}) = 0
  BY FS_EmptySet
<1>3. QED
  BY <1>1, <1>2, BoundAssumption DEF EntryMap, GoodEntries

\* cache.remove leaves a good map.
LEMMA WithoutGood ==
    ASSUME NEW m, NEW S, EntryMap(m), GoodEntries(m)
    PROVE  EntryMap(Without(m, S)) /\ GoodEntries(Without(m, S))
BY RestrictGood DEF Without

\* as_secs of a time is a number, and stamps in whole seconds are times.
LEMMA SecondsType ==
    /\ \A t \in Int : AsSecs(t) \in Int
    /\ \A t \in Nat : AsSecs(t) * Second \in Nat
<1>1. Second \in Nat /\ Second > 0
  BY BoundAssumption
<1>2. \A t \in Int : AsSecs(t) \in Int
  BY <1>1 DEF AsSecs
<1>3. \A t \in Nat : AsSecs(t) \in Nat
  BY <1>1 DEF AsSecs
<1> QED
  BY <1>1, <1>2, <1>3

\* write_metadata keeps the keys and the responses of the entries.
LEMMA SerializeGood ==
    ASSUME NEW m, EntryMap(m), GoodEntries(m), now \in Nat
    PROVE  EntryMap(Serialize(m)) /\ GoodEntries(Serialize(m))
<1>0. PICK t \in Nat : t = AsSecs(now) * Second
  BY SecondsType
<1>1. /\ DOMAIN Serialize(m) = DOMAIN m
      /\ \A k \in DOMAIN m : Serialize(m)[k] = Metadata(m[k].rsp, t, m[k].born)
      /\ Serialize(m) = [k \in DOMAIN Serialize(m) |-> Serialize(m)[k]]
  BY <1>0 DEF Serialize
<1>2. ASSUME NEW k \in DOMAIN m
      PROVE  /\ Metadata(m[k].rsp, t, m[k].born) \in MetadataSet
             /\ Metadata(m[k].rsp, t, m[k].born).rsp = m[k].rsp
  <2>1. m[k] \in MetadataSet
    BY DEF EntryMap
  <2>2. m[k].rsp \in Nat /\ m[k].born \in Nat
    BY <2>1 DEF MetadataSet
  <2>3. QED
    BY <1>0, <2>2 DEF Metadata, MetadataSet
<1>3. EntryMap(Serialize(m))
  BY <1>1, <1>2 DEF EntryMap
<1>4. GoodEntries(Serialize(m))
  BY <1>1, <1>2 DEF GoodEntries
<1>5. QED
  BY <1>3, <1>4

-----------------------------------------------------------------------------
(* One task changes its record, the disk loses files.                      *)

\* A task that moves to a good record leaves all tasks good.
LEMMA UpdateRequest ==
    ASSUME RequestTypeOK, RequestsOK, NEW w \in Workers, NEW r,
           RequestOK(r), RequestGood(r), req' = [req EXCEPT ![w] = r],
           fetched' = fetched
    PROVE  RequestTypeOK' /\ RequestsOK'
<1>1. req' = [v \in Workers |-> req'[v]]
  BY DEF RequestTypeOK
<1>2. \A v \in Workers : req'[v] = IF v = w THEN r ELSE req[v]
  BY DEF RequestTypeOK
<1>3. \A v \in Workers : RequestOK(req'[v]) /\ RequestGood(req'[v])
  BY <1>2 DEF RequestTypeOK, RequestsOK
<1>4. \A v \in Workers : RequestGood(req[v])'
  BY <1>3 DEF RequestGood, GoodEntries, FetchedFor, FetchedAt, Responses
<1>5. QED
  BY <1>1, <1>3, <1>4 DEF RequestTypeOK, RequestsOK

\* remove_file keeps the disk well-typed and what is left on it good.
LEMMA DiskShrinks ==
    ASSUME DiskTypeOK, DiskOK, NEW S, disk' = Without(disk, S), fetched' = fetched
    PROVE  /\ DiskTypeOK' /\ DiskOK'
           /\ \A f \in DOMAIN disk' : f \in DOMAIN disk /\ disk'[f] = disk[f]
<1>1. \A f \in DOMAIN disk' : f \in DOMAIN disk /\ disk'[f] = disk[f]
  BY DEF Without, Restrict
<1>2. disk' = [f \in DOMAIN disk' |-> disk'[f]]
  BY DEF Without, Restrict
<1>3. DiskTypeOK'
  BY <1>1, <1>2 DEF DiskTypeOK
<1>4. \A f \in DOMAIN disk' : FileGood(f, disk[f])'
  BY <1>1 DEF DiskOK, FileGood, GoodEntries, FetchedFor, FetchedAt, Responses
<1>5. QED
  BY <1>1, <1>3, <1>4 DEF DiskOK

\* HandlesOK survives a step of w that leaves w without a handle.
LEMMA HandlesKept ==
    ASSUME HandlesOK, NEW w,
           \A v \in Workers : v # w => req'[v] = req[v],
           \A f \in DOMAIN disk' : \A v \in disk'[f].open :
              /\ v \in Workers /\ v # w
              /\ \E g \in DOMAIN disk : g[1] = f[1] /\ v \in disk[g].open
    PROVE  HandlesOK'
BY DEF HandlesOK

\* A task that does nothing is good.
LEMMA IdleGood == RequestOK(Idle) /\ RequestGood(Idle)
<1>1. RequestOK(Idle)
  BY EmptyGood DEF RequestOK, Idle, Steps
<1>2. RequestGood(Idle)
  BY EmptyGood DEF RequestGood, Idle
<1>3. QED
  BY <1>1, <1>2

\* A task that goes on with its persistence work, or returns, is good.
LEMMA ContinuedGood ==
    ASSUME NEW r, r.key \in Keys, NEW todo \in Seq({"store", "clean"})
    PROVE  RequestOK(Continued(r, todo)) /\ RequestGood(Continued(r, todo))
<1>1. CASE todo = <<>>
  BY <1>1, IdleGood DEF Continued
<1>2. CASE todo # <<>>
  <2>1. Head(todo) \in {"store", "clean"} /\ Tail(todo) \in Seq({"store", "clean"})
    BY <1>2
  <2> DEFINE c == Continued(r, todo)
  <2>2. c = [pc |-> Head(todo), key |-> r.key, meta |-> None, rsp |-> 0,
             body |-> None, at |-> 0, victim |-> None, entries |-> EmptyMap,
             paths |-> {}, todo |-> Tail(todo)]
    BY <1>2 DEF Continued, Idle
  <2> HIDE DEF c
  <2>3. RequestOK(c)
    BY <2>1, <2>2, EmptyGood DEF RequestOK, Steps
  <2>4. RequestGood(c)
    BY <2>1, <2>2, EmptyGood DEF RequestGood
  <2>5. QED
    BY <2>3, <2>4 DEF c
<1>3. QED
  BY <1>1, <1>2

\* The persistence work after a removal, an insertion and an eviction.
LEMMA TodoLists ==
    /\ <<>> \in Seq({"store", "clean"})
    /\ AfterRemoval \in Seq({"store", "clean"})
    /\ AfterInsert \in Seq({"store", "clean"})
    /\ AfterEviction \in Seq({"store", "clean"})
BY DEF AfterRemoval, AfterInsert, AfterEviction

\* A step of a task without open files that changes its record, at most deletes
\* files, and leaves a good map.
LEMMA CacheStep ==
    ASSUME IInv, NEW w \in Workers, NEW r, RequestOK(r), RequestGood(r),
           req' = [req EXCEPT ![w] = r],
           req[w].pc \notin {"write", "meta_write"},
           NEW S, disk' = Without(disk, S) \/ disk' = disk,
           EntryMap(cache'), GoodEntries(cache'),
           now' = now, phase' = phase, fetched' = fetched,
           crashes' \in Nat, faults' \in Nat
    PROVE  IInv'
<1>1. /\ DiskTypeOK' /\ DiskOK'
      /\ \A f \in DOMAIN disk' : f \in DOMAIN disk /\ disk'[f] = disk[f]
  <2>1. CASE disk' = Without(disk, S)
    BY <2>1, DiskShrinks DEF IInv, TypeOK
  <2>2. CASE disk' = disk
    BY <2>2 DEF IInv, TypeOK, DiskTypeOK, DiskOK, FileGood, GoodEntries, FetchedFor,
                FetchedAt, Responses
  <2>3. QED
    BY <2>1, <2>2
<1>2. RequestTypeOK' /\ RequestsOK'
  BY UpdateRequest DEF IInv, TypeOK
<1>3. \A f \in DOMAIN disk : w \notin disk[f].open /\ disk[f].open \subseteq Workers
  BY DEF IInv, HandlesOK, TypeOK, DiskTypeOK, FileOK
<1>4. \A v \in Workers : v # w => req'[v] = req[v]
  BY DEF IInv, TypeOK, RequestTypeOK
<1>5. HandlesOK'
  <2>1. \A f \in DOMAIN disk' : \A v \in disk'[f].open :
              /\ v \in Workers /\ v # w
              /\ \E g \in DOMAIN disk : g[1] = f[1] /\ v \in disk[g].open
    BY <1>1, <1>3
  <2>2. QED
    BY <2>1, <1>4 DEF IInv, HandlesOK
<1>6. GoodEntries(cache)' /\ EntryMap(cache)'
  BY DEF GoodEntries, EntryMap, FetchedFor, Responses
<1>7. TypeOK'
  BY <1>1, <1>2, <1>6 DEF IInv, TypeOK
<1>8. QED
  BY <1>1, <1>2, <1>5, <1>6, <1>7 DEF IInv

\* The same, for a step that leaves the map alone.
LEMMA RequestStep ==
    ASSUME IInv, NEW w \in Workers, NEW r, RequestOK(r), RequestGood(r),
           req' = [req EXCEPT ![w] = r],
           req[w].pc \notin {"write", "meta_write"},
           NEW S, disk' = Without(disk, S) \/ disk' = disk,
           now' = now, phase' = phase, cache' = cache, fetched' = fetched,
           crashes' \in Nat, faults' \in Nat
    PROVE  IInv'
<1>1. EntryMap(cache') /\ GoodEntries(cache')
  BY DEF IInv, TypeOK
<1>2. QED
  BY <1>1, CacheStep

-----------------------------------------------------------------------------
(* One lemma per operation.                                                *)

\* get_cache copies the metadata of the key it looks up.
LEMMA GetLookupKeeps ==
    ASSUME IInv, NEW w \in Workers, NEW k \in Keys, GetLookup(w, k)
    PROVE  IInv'
<1> DEFINE meta == IF k \in DOMAIN cache THEN cache[k] ELSE None
           pc == IF k \notin DOMAIN cache THEN "absent"
                 ELSE IF Expired(cache[k]) THEN "expired" ELSE "present"
           r == [req[w] EXCEPT !.pc = pc, !.key = k, !.meta = meta, !.at = now]
<1>1. req' = [req EXCEPT ![w] = r] /\ req[w].pc = "idle"
  BY DEF GetLookup, IInv, TypeOK, RequestTypeOK
<1>2. RequestOK(req[w]) /\ RequestGood(req[w]) /\ now \in Nat
  BY DEF IInv, TypeOK, RequestTypeOK, RequestsOK
<1>3. /\ meta \in {None} \cup MetadataSet
      /\ pc \in {"absent", "expired", "present"}
      /\ pc = "present" => k \in DOMAIN cache /\ meta = cache[k]
  BY DEF IInv, TypeOK, EntryMap
<1>4. k \in DOMAIN cache => cache[k] \in MetadataSet /\ FetchedFor(cache[k].rsp, k)
  BY DEF IInv, TypeOK, EntryMap, GoodEntries
<1> HIDE DEF meta, pc
<1>5. RequestOK(r)
  BY <1>2, <1>3 DEF RequestOK, Steps
<1>6. RequestGood(r)
  BY <1>2, <1>3, <1>4 DEF RequestGood, RequestOK
<1>7. QED
  BY <1>1, <1>5, <1>6, RequestStep DEF GetLookup, IInv, TypeOK

\* get_cache drops an expired, missing or corrupted entry.
LEMMA GetRemoveKeeps ==
    ASSUME IInv, NEW w \in Workers, GetRemove(w)
    PROVE  IInv'
<1>1. RequestOK(req[w]) /\ RequestGood(req[w]) /\ req[w].key \in Keys
  BY DEF IInv, TypeOK, RequestTypeOK, RequestsOK, RequestOK, GetRemove
<1>2. EntryMap(cache') /\ GoodEntries(cache')
  BY WithoutGood DEF GetRemove, IInv, TypeOK
<1>3. CASE req[w].pc = "missing"
  <2>1. req' = [req EXCEPT ![w] = Continued(req[w], AfterRemoval)]
    BY <1>3 DEF GetRemove, Continue
  <2>2. RequestOK(Continued(req[w], AfterRemoval))
        /\ RequestGood(Continued(req[w], AfterRemoval))
    BY <1>1, ContinuedGood, TodoLists
  <2>3. QED
    BY <1>2, <1>3, <2>1, <2>2, CacheStep DEF GetRemove, IInv, TypeOK
<1>4. CASE req[w].pc # "missing"
  <2> DEFINE r == [req[w] EXCEPT !.pc = "delete"]
  <2>1. req' = [req EXCEPT ![w] = r]
    BY <1>4 DEF GetRemove, Goto
  <2>2. RequestOK(r)
    BY <1>1 DEF RequestOK, Steps
  <2>3. RequestGood(r)
    BY <1>1 DEF RequestGood, RequestOK
  <2>4. req[w].pc \notin {"write", "meta_write"}
    BY DEF GetRemove
  <2> HIDE DEF r
  <2>5. QED
    BY <1>2, <2>1, <2>2, <2>3, <2>4, CacheStep DEF GetRemove, IInv, TypeOK
<1>5. QED
  BY <1>3, <1>4

\* Deleting a file and going on with the persistence work.
LEMMA DeleteAndContinue ==
    ASSUME IInv, NEW w \in Workers, NEW todo \in Seq({"store", "clean"}), NEW S,
           req[w].pc \notin {"idle", "write", "meta_write"},
           disk' = Without(disk, S) \/ disk' = disk, req' = Continue(w, todo),
           UNCHANGED <<now, phase, cache, fetched>>, crashes' \in Nat, faults' \in Nat
    PROVE  IInv'
<1>1. req[w].key \in Keys
  BY DEF IInv, TypeOK, RequestTypeOK, RequestOK
<1> DEFINE r == Continued(req[w], todo)
<1>2. RequestOK(r) /\ RequestGood(r)
  BY <1>1, ContinuedGood
<1>3. req' = [req EXCEPT ![w] = r]
  BY DEF Continue
<1> HIDE DEF r
<1>4. QED
  BY <1>2, <1>3, RequestStep

\* get_cache deletes the body file of a dropped entry.
LEMMA GetDeleteKeeps ==
    ASSUME IInv, NEW w \in Workers, GetDelete(w)
    PROVE  IInv'
BY DeleteAndContinue, TodoLists DEF GetDelete, IInv, TypeOK

\* get_cache deletes an orphaned body file.
LEMMA GetAbsentKeeps ==
    ASSUME IInv, NEW w \in Workers, GetAbsent(w)
    PROVE  IInv'
<1> DEFINE f == Bin(Path[req[w].key])
<1>1. CASE Exists(f)
  BY <1>1, DeleteAndContinue, TodoLists DEF GetAbsent, IInv, TypeOK
<1>2. CASE ~Exists(f)
  BY <1>2, DeleteAndContinue, TodoLists DEF GetAbsent, IInv, TypeOK
<1>3. QED
  BY <1>1, <1>2

\* The pipeline takes a hit.
LEMMA DeliverKeeps ==
    ASSUME IInv, NEW w \in Workers, Deliver(w)
    PROVE  IInv'
BY DeleteAndContinue, TodoLists DEF Deliver, IInv, TypeOK

\* put_cache deletes the body file of the evicted entry.
LEMMA PutEvictKeeps ==
    ASSUME IInv, NEW w \in Workers, PutEvict(w)
    PROVE  IInv'
BY DeleteAndContinue, TodoLists DEF PutEvict, IInv, TypeOK

\* get_cache reads a body: it was written under the key's path.
LEMMA GetReadKeeps ==
    ASSUME IInv, NEW w \in Workers, GetRead(w)
    PROVE  IInv'
<1>1. RequestOK(req[w]) /\ RequestGood(req[w]) /\ req[w].key \in Keys
  BY DEF IInv, TypeOK, RequestTypeOK, RequestsOK, RequestOK, GetRead
<1>2. ASSUME NEW x \in {"missing", "corrupt"}, req' = Goto(w, x) PROVE IInv'
  <2> DEFINE r == [req[w] EXCEPT !.pc = x]
  <2>1. RequestOK(r)
    BY <1>1 DEF RequestOK, Steps
  <2>2. RequestGood(r)
    BY <1>1 DEF RequestGood, RequestOK
  <2>3. req' = [req EXCEPT ![w] = r]
    BY <1>2 DEF Goto
  <2> HIDE DEF r
  <2>4. QED
    BY <2>1, <2>2, <2>3, RequestStep DEF GetRead, IInv, TypeOK
<1> DEFINE f == Bin(Path[req[w].key])
           b == [state |-> disk[f].state, rsp |-> disk[f].data]
<1>3. ASSUME Exists(f), req' = [req EXCEPT ![w].pc = "hit", ![w].body = b] PROVE IInv'
  <2> DEFINE r == [req[w] EXCEPT !.pc = "hit", !.body = b]
  <2>1. RequestOK(r)
    BY <1>1 DEF RequestOK, Steps
  <2>2. f \in DOMAIN disk /\ f[1] = Path[req[w].key] /\ f[1] # MetaPath
    BY <1>1, <1>3, PathAssumption DEF Exists, Bin
  <2>3. disk[f].state # "empty" => FetchedAt(disk[f].data, Path[req[w].key])
    BY <2>2 DEF IInv, DiskOK, FileGood
  <2>4. RequestGood(r)
    BY <1>1, <2>3 DEF RequestGood, RequestOK, GetRead
  <2>5. req' = [req EXCEPT ![w] = r]
    BY <1>3
  <2> HIDE DEF r
  <2>6. QED
    BY <2>1, <2>4, <2>5, RequestStep DEF GetRead, IInv, TypeOK
<1>4. QED
  BY <1>2, <1>3 DEF GetRead

\* store deletes the bodies of expired entries and copies the others.
LEMMA StoreKeeps ==
    ASSUME IInv, NEW w \in Workers, Store(w)
    PROVE  IInv'
<1> DEFINE stale == {k \in DOMAIN cache : Expired(cache[k])}
           r == [req[w] EXCEPT !.pc = "meta_open", !.entries = Without(cache, stale)]
<1>1. RequestOK(req[w]) /\ RequestGood(req[w]) /\ req[w].key \in Keys
  BY DEF IInv, TypeOK, RequestTypeOK, RequestsOK, RequestOK, Store
<1>2. EntryMap(Without(cache, stale)) /\ GoodEntries(Without(cache, stale))
  BY WithoutGood DEF IInv, TypeOK
<1>3. req' = [req EXCEPT ![w] = r] /\ req[w].pc = "store"
  BY DEF Store
<1>4. disk' = Without(disk, {Bin(Path[k]) : k \in stale})
  BY DEF Store
<1>5. RequestOK(r)
  BY <1>1, <1>2 DEF RequestOK, Steps
<1>6. RequestGood(r)
  BY <1>1, <1>2 DEF RequestGood, RequestOK
<1> HIDE DEF r
<1>7. QED
  BY <1>3, <1>4, <1>5, <1>6, RequestStep DEF Store, IInv, TypeOK

\* clean_stale_metadata_with_key copies the paths of the map.
LEMMA CleanKeeps ==
    ASSUME IInv, NEW w \in Workers, Clean(w)
    PROVE  IInv'
<1>1. RequestOK(req[w]) /\ RequestGood(req[w]) /\ req[w].key \in Keys
      /\ req[w].todo \in Seq({"store", "clean"})
  BY DEF IInv, TypeOK, RequestTypeOK, RequestsOK, RequestOK, Clean
<1>2. CASE Exists(Bin(MetaPath))
  <2> DEFINE valid == {Path[k] : k \in DOMAIN cache}
             r == [req[w] EXCEPT !.pc = "clean_shard", !.paths = valid]
  <2>1. valid \subseteq Paths
    BY PathAssumption DEF IInv, TypeOK, EntryMap
  <2>2. req' = [req EXCEPT ![w] = r]
    BY <1>2 DEF Clean
  <2> HIDE DEF valid
  <2>3. RequestOK(r)
    BY <1>1, <2>1 DEF RequestOK, Steps
  <2>4. RequestGood(r)
    BY <1>1 DEF RequestGood, RequestOK
  <2> HIDE DEF r
  <2>5. QED
    BY <2>2, <2>3, <2>4, RequestStep DEF Clean, IInv, TypeOK
<1>3. CASE ~Exists(Bin(MetaPath))
  BY <1>1, <1>3, DeleteAndContinue DEF Clean, IInv, TypeOK
<1>4. QED
  BY <1>2, <1>3

\* A task that has read the metadata file holds a part of it, or goes on.
LEMMA CleanReads ==
    ASSUME TypeOK, NEW w \in Workers, CleanRead(w)
    PROVE  \/ /\ Bin(MetaPath) \in DOMAIN disk /\ disk[Bin(MetaPath)].state = "whole"
              /\ \E S, r, pc, ps :
                    /\ r = [req[w] EXCEPT !.pc = pc, !.paths = ps,
                                          !.entries = Restrict(disk[Bin(MetaPath)].data, S)]
                    /\ req' = [req EXCEPT ![w] = r]
                    /\ pc \in {"clean_delete", "meta_open"}
                    /\ ps \subseteq Paths
                    /\ S \subseteq DOMAIN disk[Bin(MetaPath)].data
           \/ req' = Continue(w, req[w].todo)
<1> DEFINE s == Shard[Path[req[w].key]]
           f == Bin(MetaPath)
           Kept(k) == \/ Shard[Path[k]] # s
                      \/ ~Expired(disk[f].data[k]) /\ Exists(Bin(Path[k]))
           Readable == Exists(f) /\ disk[f].state = "whole"
           orphans == {p \in Paths : Shard[p] = s /\ p \notin req[w].paths}
           kept == {k \in DOMAIN disk[f].data : Kept(k)}
           pc == IF orphans = {} THEN "meta_open" ELSE "clean_delete"
<1>1. CASE Readable
  <2> DEFINE r == [req[w] EXCEPT !.pc = pc, !.paths = orphans,
                                 !.entries = Restrict(disk[f].data, kept)]
  <2>1. req' = [req EXCEPT ![w] = r]
    BY <1>1 DEF CleanRead
  <2>2. orphans \subseteq Paths /\ kept \subseteq DOMAIN disk[f].data
        /\ pc \in {"clean_delete", "meta_open"}
    OBVIOUS
  <2> HIDE DEF orphans, kept, pc
  <2> QED
    BY <1>1, <2>1, <2>2 DEF Exists
<1>2. CASE ~Readable
  BY <1>2 DEF CleanRead
<1> QED
  BY <1>1, <1>2

\* A task in the scan of a directory changes its place in it only.
LEMMA ScannedRequest ==
    ASSUME TypeOK, NEW w \in Workers, NEW p, req' = Scanned(w, p)
    PROVE  \E r, pc, ps : /\ r = [req[w] EXCEPT !.pc = pc, !.paths = ps]
                          /\ req' = [req EXCEPT ![w] = r]
                          /\ pc \in {req[w].pc, "meta_open"}
                          /\ ps \subseteq req[w].paths
<1> DEFINE pc == IF req[w].paths = {p} THEN "meta_open" ELSE req[w].pc
           ps == req[w].paths \ {p}
           r == [req[w] EXCEPT !.pc = pc, !.paths = ps]
<1>1. req' = [req EXCEPT ![w] = r]
  BY DEF Scanned
<1>2. pc \in {req[w].pc, "meta_open"} /\ ps \subseteq req[w].paths
  OBVIOUS
<1> HIDE DEF pc, ps
<1> QED
  BY <1>1, <1>2

\* clean_stale_metadata_with_key filters the metadata file of one shard.
LEMMA CleanReadKeeps ==
    ASSUME IInv, NEW w \in Workers, CleanRead(w)
    PROVE  IInv'
<1> DEFINE f == Bin(MetaPath)
<1>1. RequestOK(req[w]) /\ RequestGood(req[w]) /\ req[w].key \in Keys
      /\ req[w].todo \in Seq({"store", "clean"})
      /\ req[w].pc = "clean_shard" /\ UNCHANGED <<now, phase, cache, disk, fetched, crashes, faults>>
  BY DEF IInv, TypeOK, RequestTypeOK, RequestsOK, RequestOK, CleanRead
<1>2. ASSUME f \in DOMAIN disk, disk[f].state = "whole", NEW S, NEW r, NEW pc, NEW ps,
             r = [req[w] EXCEPT !.pc = pc, !.paths = ps, !.entries = Restrict(disk[f].data, S)],
             req' = [req EXCEPT ![w] = r], pc \in {"clean_delete", "meta_open"},
             ps \subseteq Paths, S \subseteq DOMAIN disk[f].data
      PROVE  IInv'
  <2>1. f[1] = MetaPath /\ disk[f].state # "empty"
    BY <1>2 DEF Bin
  <2>2. EntryMap(disk[f].data) /\ GoodEntries(disk[f].data)
    BY <1>2, <2>1 DEF IInv, TypeOK, DiskTypeOK, FileOK, DiskOK, FileGood
  <2>3. EntryMap(Restrict(disk[f].data, S)) /\ GoodEntries(Restrict(disk[f].data, S))
    BY <1>2, <2>2, RestrictGood
  <2>4. RequestOK(r)
    BY <1>1, <1>2, <2>3 DEF RequestOK, Steps
  <2>5. RequestGood(r)
    BY <1>1, <1>2, <2>3 DEF RequestGood, RequestOK
  <2> QED
    BY <1>1, <1>2, <2>4, <2>5, RequestStep DEF IInv, TypeOK
<1>3. CASE req' = Continue(w, req[w].todo)
  BY <1>1, <1>3, DeleteAndContinue DEF IInv, TypeOK
<1> QED
  BY <1>2, <1>3, CleanReads DEF IInv

\* A step in the scan of the shard directory, with or without a deletion.
LEMMA ScanKeeps ==
    ASSUME IInv, NEW w \in Workers, req[w].pc = "clean_delete", NEW p, req' = Scanned(w, p),
           NEW S, disk' = Without(disk, S) \/ disk' = disk,
           UNCHANGED <<now, phase, cache, fetched>>, crashes' \in Nat, faults' \in Nat
    PROVE  IInv'
<1>1. RequestOK(req[w]) /\ RequestGood(req[w]) /\ TypeOK
  BY DEF IInv, TypeOK, RequestTypeOK, RequestsOK
<1>2. PICK r, pc, ps : /\ r = [req[w] EXCEPT !.pc = pc, !.paths = ps]
                       /\ req' = [req EXCEPT ![w] = r]
                       /\ pc \in {"clean_delete", "meta_open"}
                       /\ ps \subseteq req[w].paths
  BY <1>1, ScannedRequest
<1>3. RequestOK(r)
  BY <1>1, <1>2 DEF RequestOK, Steps
<1>4. RequestGood(r)
  BY <1>1, <1>2 DEF RequestGood, RequestOK
<1> QED
  BY <1>2, <1>3, <1>4, RequestStep

\* The bodies outside the copy are deleted.
LEMMA CleanDeleteKeeps ==
    ASSUME IInv, NEW w \in Workers, CleanDelete(w)
    PROVE  IInv'
<1>1. PICK p : disk' = Without(disk, {Bin(p)}) /\ req' = Scanned(w, p)
  BY DEF CleanDelete
<1> QED
  BY <1>1, ScanKeeps DEF CleanDelete, IInv, TypeOK

\* put_cache inserts an entry and, when the map is full, evicts one first.
LEMMA PutInsertKeeps ==
    ASSUME IInv, NEW w \in Workers, PutInsert(w)
    PROVE  IInv'
<1> DEFINE k == req[w].key
           meta == Metadata(req[w].rsp, now, now)
<1>1. RequestOK(req[w]) /\ RequestGood(req[w]) /\ k \in Keys /\ req[w].pc = "insert"
      /\ FetchedFor(req[w].rsp, k) /\ req[w].rsp \in Nat
  BY DEF IInv, TypeOK, RequestTypeOK, RequestsOK, RequestOK, RequestGood, PutInsert
<1>2. meta \in MetadataSet /\ meta.rsp = req[w].rsp
  BY <1>1 DEF Metadata, MetadataSet, IInv, TypeOK
<1> HIDE DEF meta
<1>3. ASSUME NEW m, EntryMap(m), GoodEntries(m),
             k \in DOMAIN m \/ Cardinality(DOMAIN m) < Capacity
      PROVE  EntryMap(With(m, k, meta)) /\ GoodEntries(With(m, k, meta))
  <2>1. /\ DOMAIN With(m, k, meta) = DOMAIN m \cup {k}
        /\ With(m, k, meta)[k] = meta
        /\ \A j \in DOMAIN m : j # k => With(m, k, meta)[j] = m[j]
        /\ With(m, k, meta) = [j \in DOMAIN With(m, k, meta) |-> With(m, k, meta)[j]]
    BY DEF With
  <2>2. IsFiniteSet(DOMAIN m) /\ Cardinality(DOMAIN m) \in Nat /\ Capacity \in Nat
    BY <1>3, FS_CardinalityType, BoundAssumption DEF GoodEntries
  <2>3. /\ IsFiniteSet(DOMAIN m \cup {k})
        /\ Cardinality(DOMAIN m \cup {k}) =
              IF k \in DOMAIN m THEN Cardinality(DOMAIN m) ELSE Cardinality(DOMAIN m) + 1
    BY <2>2, FS_AddElement
  <2>4. Cardinality(DOMAIN m \cup {k}) <= Capacity
    BY <1>3, <2>2, <2>3 DEF GoodEntries
  <2>5. EntryMap(With(m, k, meta))
    BY <1>1, <1>2, <1>3, <2>1 DEF EntryMap
  <2>6. GoodEntries(With(m, k, meta))
    BY <1>1, <1>2, <1>3, <2>1, <2>3, <2>4 DEF GoodEntries
  <2>7. QED
    BY <2>5, <2>6
<1>4. EntryMap(cache) /\ GoodEntries(cache)
  BY DEF IInv, TypeOK
<1>5. CASE Full(k)
  <2>1. PICK old \in Oldest :
           /\ cache' = With(Without(cache, {old}), k, meta)
           /\ req' = [req EXCEPT ![w].pc = "evict", ![w].victim = Path[old]]
    BY <1>5 DEF PutInsert, meta
  <2> DEFINE m == Without(cache, {old})
  <2>2. EntryMap(m) /\ GoodEntries(m)
    BY <1>4, WithoutGood
  <2>3. Cardinality(DOMAIN m) < Capacity
    <3>1. DOMAIN m = DOMAIN cache \ {old} /\ old \in DOMAIN cache
      BY DEF Without, Restrict, Oldest
    <3>2. Cardinality(DOMAIN cache \ {old}) = Cardinality(DOMAIN cache) - 1
      BY <1>4, <3>1, FS_RemoveElement DEF GoodEntries
    <3>3. Cardinality(DOMAIN cache) \in Nat /\ Cardinality(DOMAIN cache) <= Capacity
          /\ Capacity \in Nat
      BY <1>4, FS_CardinalityType, BoundAssumption DEF GoodEntries
    <3>4. QED
      BY <3>1, <3>2, <3>3
  <2>4. EntryMap(cache') /\ GoodEntries(cache')
    BY <1>3, <2>1, <2>2, <2>3
  <2> DEFINE r == [req[w] EXCEPT !.pc = "evict", !.victim = Path[old]]
  <2>5. RequestOK(r)
    BY <1>1 DEF RequestOK, Steps
  <2>6. RequestGood(r)
    BY <1>1 DEF RequestGood, RequestOK
  <2>7. req' = [req EXCEPT ![w] = r]
    BY <2>1
  <2> HIDE DEF r, m
  <2>8. QED
    BY <1>1, <2>4, <2>5, <2>6, <2>7, CacheStep DEF PutInsert, IInv, TypeOK
<1>6. CASE ~Full(k)
  <2>1. cache' = With(cache, k, meta) /\ req' = Continue(w, AfterInsert)
    BY <1>6 DEF PutInsert, meta
  <2>2. k \in DOMAIN cache \/ Cardinality(DOMAIN cache) < Capacity
    BY <1>4, <1>6, FS_CardinalityType, BoundAssumption DEF Full, GoodEntries
  <2>3. EntryMap(cache') /\ GoodEntries(cache')
    BY <1>3, <1>4, <2>1, <2>2
  <2> DEFINE r == Continued(req[w], AfterInsert)
  <2>4. RequestOK(r) /\ RequestGood(r)
    BY <1>1, ContinuedGood, TodoLists
  <2>5. req' = [req EXCEPT ![w] = r]
    BY <2>1 DEF Continue
  <2> HIDE DEF r
  <2>6. QED
    BY <1>1, <2>3, <2>4, <2>5, CacheStep DEF PutInsert, IInv, TypeOK
<1>7. QED
  BY <1>5, <1>6

-----------------------------------------------------------------------------
(* Steps that write files.                                                 *)

\* The handles of the other tasks are those they had, those of w fit its step.
LEMMA FileStep ==
    ASSUME IInv, NEW w \in Workers, NEW r, RequestOK(r), RequestGood(r),
           req' = [req EXCEPT ![w] = r],
           DiskTypeOK', DiskOK',
           \A f \in DOMAIN disk' : \A v \in disk'[f].open :
              IF v # w THEN \E g \in DOMAIN disk : g[1] = f[1] /\ v \in disk[g].open
              ELSE IF f[1] = MetaPath THEN r.pc = "meta_write"
              ELSE r.pc = "write" /\ f[1] = Path[r.key],
           now' = now, phase' = phase, cache' = cache, fetched' = fetched,
           crashes' \in Nat, faults' \in Nat
    PROVE  IInv'
<1>1. RequestTypeOK' /\ RequestsOK'
  BY UpdateRequest DEF IInv, TypeOK
<1>2. \A f \in DOMAIN disk' : disk'[f].open \subseteq Workers
  BY DEF DiskTypeOK, FileOK
<1>3. \A v \in Workers : req'[v] = IF v = w THEN r ELSE req[v]
  BY DEF IInv, TypeOK, RequestTypeOK
<1>4. HandlesOK'
  BY <1>2, <1>3 DEF IInv, HandlesOK
<1>5. GoodEntries(cache)' /\ EntryMap(cache)'
  BY DEF IInv, TypeOK, GoodEntries, EntryMap, FetchedFor, Responses
<1>6. TypeOK'
  BY <1>1, <1>5 DEF IInv, TypeOK
<1>7. QED
  BY <1>1, <1>4, <1>5, <1>6 DEF IInv

\* A rename moves a file between two names of the same path.
LEMMA RenamedDisk ==
    ASSUME DiskTypeOK, DiskOK, NEW p \in Paths \cup {MetaPath}, Exists(Tmp(p)),
           disk' = Renamed(p), fetched' = fetched
    PROVE  /\ DiskTypeOK' /\ DiskOK'
           /\ \A f \in DOMAIN disk' :
                 \E g \in DOMAIN disk : g[1] = f[1] /\ disk'[f] = disk[g]
<1>1. Tmp(p) \in DOMAIN disk /\ Tmp(p)[1] = p /\ Bin(p)[1] = p /\ Bin(p) \in Files
  BY DEF Exists, Tmp, Bin, Files
<1>2. /\ DOMAIN disk' = (DOMAIN disk \ {Tmp(p)}) \cup {Bin(p)}
      /\ disk'[Bin(p)] = disk[Tmp(p)]
      /\ \A f \in DOMAIN disk \ {Tmp(p)} : f # Bin(p) => disk'[f] = disk[f]
      /\ disk' = [f \in DOMAIN disk' |-> disk'[f]]
  BY DEF Renamed, With, Without, Restrict
<1>3. \A f \in DOMAIN disk' : \E g \in DOMAIN disk : g[1] = f[1] /\ disk'[f] = disk[g]
  BY <1>1, <1>2
<1>4. \A f \in DOMAIN disk' : FileOK(f, disk'[f])
  BY <1>3 DEF DiskTypeOK, FileOK
<1>5. DiskTypeOK'
  BY <1>1, <1>2, <1>4 DEF DiskTypeOK
<1>6. \A f \in DOMAIN disk' : FileGood(f, disk'[f])
  BY <1>3 DEF DiskOK, FileGood
<1>7. DiskOK'
  BY <1>6 DEF DiskOK, FileGood, GoodEntries, FetchedFor, FetchedAt, Responses
<1>8. QED
  BY <1>3, <1>5, <1>7

\* put_cache publishes the body file.
LEMMA PutRenameKeeps ==
    ASSUME IInv, NEW w \in Workers, PutRename(w)
    PROVE  IInv'
<1> DEFINE p == Path[req[w].key]
<1>1. RequestOK(req[w]) /\ RequestGood(req[w]) /\ req[w].key \in Keys
      /\ FetchedFor(req[w].rsp, req[w].key) /\ p \in Paths
  BY PathAssumption DEF IInv, TypeOK, RequestTypeOK, RequestsOK, RequestOK, RequestGood,
                        PutRename
<1>2. CASE Exists(Tmp(p))
  <2>1. disk' = Renamed(p) /\ req' = Goto(w, "insert")
    BY <1>2 DEF PutRename
  <2>2. /\ DiskTypeOK' /\ DiskOK'
        /\ \A f \in DOMAIN disk' :
              \E g \in DOMAIN disk : g[1] = f[1] /\ disk'[f] = disk[g]
    BY <1>1, <1>2, <2>1, RenamedDisk DEF PutRename, IInv, TypeOK
  <2>3. \A f \in DOMAIN disk : w \notin disk[f].open
    BY DEF IInv, HandlesOK, PutRename
  <2> DEFINE r == [req[w] EXCEPT !.pc = "insert"]
  <2>4. RequestOK(r)
    BY <1>1 DEF RequestOK, Steps
  <2>5. RequestGood(r)
    BY <1>1 DEF RequestGood, RequestOK
  <2>6. req' = [req EXCEPT ![w] = r]
    BY <2>1 DEF Goto
  <2> HIDE DEF r
  <2>7. QED
    BY <2>2, <2>3, <2>4, <2>5, <2>6, FileStep DEF PutRename, IInv, TypeOK
<1>3. CASE ~Exists(Tmp(p))
  BY <1>3, DeleteAndContinue, TodoLists DEF PutRename, IInv, TypeOK
<1>4. QED
  BY <1>2, <1>3

\* write_metadata publishes the metadata file.
LEMMA MetaRenameKeeps ==
    ASSUME IInv, NEW w \in Workers, MetaRename(w)
    PROVE  IInv'
<1>1. req[w].key \in Keys /\ req[w].todo \in Seq({"store", "clean"})
  BY DEF IInv, TypeOK, RequestTypeOK, RequestOK, MetaRename
<1>2. CASE Exists(Tmp(MetaPath))
  <2>1. disk' = Renamed(MetaPath)
    BY <1>2 DEF MetaRename
  <2>2. /\ DiskTypeOK' /\ DiskOK'
        /\ \A f \in DOMAIN disk' :
              \E g \in DOMAIN disk : g[1] = f[1] /\ disk'[f] = disk[g]
    BY <1>2, <2>1, RenamedDisk DEF MetaRename, IInv, TypeOK
  <2>3. \A f \in DOMAIN disk : w \notin disk[f].open
    BY DEF IInv, HandlesOK, MetaRename
  <2> DEFINE r == Continued(req[w], req[w].todo)
  <2>4. RequestOK(r) /\ RequestGood(r)
    BY <1>1, ContinuedGood
  <2>5. req' = [req EXCEPT ![w] = r]
    BY DEF MetaRename, Continue
  <2> HIDE DEF r
  <2>6. QED
    <3>1. \A f \in DOMAIN disk' : \A v \in disk'[f].open :
             v # w /\ \E g \in DOMAIN disk : g[1] = f[1] /\ v \in disk[g].open
      BY <2>2, <2>3
    <3>2. /\ now' = now /\ phase' = phase /\ cache' = cache /\ fetched' = fetched
          /\ crashes' \in Nat /\ faults' \in Nat
      BY DEF MetaRename, IInv, TypeOK
    <3>3. QED
      BY <2>2, <2>4, <2>5, <3>1, <3>2, FileStep
<1>3. CASE ~Exists(Tmp(MetaPath))
  BY <1>1, <1>3, DeleteAndContinue DEF MetaRename, IInv, TypeOK
<1>4. QED
  BY <1>2, <1>3

\* What a writer with fitting data leaves on disk.
LEMMA WrittenDisk ==
    ASSUME DiskTypeOK, DiskOK, NEW w \in Workers, NEW data,
           NEW state \in FileStates,
           \A f \in Handles(w) : FileOK(f, File(state, data, {}))
                                  /\ FileGood(f, File(state, data, {})),
           disk' = Written(w, data, state), fetched' = fetched
    PROVE  /\ DiskTypeOK' /\ DiskOK'
           /\ \A f \in DOMAIN disk' : f \in DOMAIN disk /\ disk'[f].open = disk[f].open \ {w}
<1>1. /\ DOMAIN disk' = DOMAIN disk
      /\ \A f \in DOMAIN disk : disk'[f] =
            IF w \in disk[f].open THEN File(state, data, disk[f].open \ {w}) ELSE disk[f]
      /\ disk' = [f \in DOMAIN disk' |-> disk'[f]]
  BY DEF Written, Handles
<1>2. \A f \in DOMAIN disk : FileOK(f, disk'[f])
  <2> TAKE f \in DOMAIN disk
  <2>1. CASE w \in disk[f].open
    BY <1>1, <2>1 DEF Handles, DiskTypeOK, FileOK, File
  <2>2. CASE w \notin disk[f].open
    BY <1>1, <2>2 DEF DiskTypeOK
  <2>3. QED
    BY <2>1, <2>2
<1>3. \A f \in DOMAIN disk : FileGood(f, disk'[f])
  BY <1>1 DEF Handles, DiskOK, FileGood, File
<1>4. DiskTypeOK'
  BY <1>1, <1>2 DEF DiskTypeOK
<1>5. DiskOK'
  BY <1>1, <1>3 DEF DiskOK, FileGood, GoodEntries, FetchedFor, FetchedAt, Responses
<1>6. \A f \in DOMAIN disk : disk'[f].open = disk[f].open \ {w}
  BY <1>1 DEF File
<1>7. QED
  BY <1>1, <1>4, <1>5, <1>6

\* put_cache writes the body, under whichever name the file now has.
LEMMA PutWriteKeeps ==
    ASSUME IInv, NEW w \in Workers, PutWrite(w)
    PROVE  IInv'
<1>1. RequestOK(req[w]) /\ RequestGood(req[w]) /\ req[w].key \in Keys
      /\ FetchedFor(req[w].rsp, req[w].key) /\ req[w].rsp \in Nat
  BY DEF IInv, TypeOK, RequestTypeOK, RequestsOK, RequestOK, RequestGood, PutWrite
<1>2. PICK state \in {"whole", "mixed"} : disk' = Written(w, req[w].rsp, state)
  BY DEF PutWrite
<1>3. \A f \in Handles(w) : f[1] = Path[req[w].key] /\ f[1] # MetaPath
  BY PathAssumption DEF IInv, HandlesOK, Handles, PutWrite
<1>4. \A f \in Handles(w) : FileOK(f, File(state, req[w].rsp, {}))
  BY <1>1, <1>3 DEF FileOK, File, FileStates
<1>5. \A f \in Handles(w) : FileGood(f, File(state, req[w].rsp, {}))
  BY <1>1, <1>3 DEF FileGood, File, FetchedFor, FetchedAt
<1>6. /\ DiskTypeOK' /\ DiskOK'
      /\ \A f \in DOMAIN disk' : f \in DOMAIN disk /\ disk'[f].open = disk[f].open \ {w}
  BY <1>2, <1>4, <1>5, WrittenDisk DEF PutWrite, IInv, TypeOK, FileStates
<1> DEFINE r == [req[w] EXCEPT !.pc = "rename"]
<1>7. RequestOK(r)
  BY <1>1 DEF RequestOK, Steps
<1>8. RequestGood(r)
  BY <1>1 DEF RequestGood, RequestOK
<1>9. req' = [req EXCEPT ![w] = r]
  BY DEF PutWrite, Goto
<1> HIDE DEF r
<1>10. QED
  BY <1>6, <1>7, <1>8, <1>9, FileStep DEF PutWrite, IInv, TypeOK

\* write_metadata writes the entries it copied.
LEMMA MetaWriteKeeps ==
    ASSUME IInv, NEW w \in Workers, MetaWrite(w)
    PROVE  IInv'
<1>1. RequestOK(req[w]) /\ RequestGood(req[w]) /\ req[w].key \in Keys
      /\ EntryMap(req[w].entries) /\ GoodEntries(req[w].entries)
  BY DEF IInv, TypeOK, RequestTypeOK, RequestsOK, RequestOK, RequestGood, MetaWrite
<1>2. \A f \in Handles(w) : f[1] = MetaPath
  BY DEF IInv, HandlesOK, Handles, MetaWrite
<1>3. \A f \in Handles(w) : FileOK(f, File("whole", req[w].entries, {}))
  BY <1>1, <1>2 DEF FileOK, File, FileStates
<1>4. \A f \in Handles(w) : FileGood(f, File("whole", req[w].entries, {}))
  BY <1>1, <1>2 DEF FileGood, File
<1>5. /\ DiskTypeOK' /\ DiskOK'
      /\ \A f \in DOMAIN disk' : f \in DOMAIN disk /\ disk'[f].open = disk[f].open \ {w}
  BY <1>3, <1>4, WrittenDisk DEF MetaWrite, IInv, TypeOK, FileStates
<1> DEFINE r == [req[w] EXCEPT !.pc = "meta_rename"]
<1>6. RequestOK(r)
  BY <1>1 DEF RequestOK, Steps
<1>7. RequestGood(r)
  BY <1>1 DEF RequestGood, RequestOK
<1>8. req' = [req EXCEPT ![w] = r]
  BY DEF MetaWrite, Goto
<1> HIDE DEF r
<1>9. QED
  BY <1>5, <1>6, <1>7, <1>8, FileStep DEF MetaWrite, IInv, TypeOK

\* Opening a file empties it and adds a handle.
LEMMA OpenedDisk ==
    ASSUME DiskTypeOK, NEW w \in Workers, NEW f \in Files, disk' = Opened(w, f)
    PROVE  /\ DiskTypeOK'
           /\ f \in DOMAIN disk' /\ disk'[f].state = "empty"
           /\ \A v \in disk'[f].open : v = w \/ (f \in DOMAIN disk /\ v \in disk[f].open)
           /\ \A g \in DOMAIN disk' : g # f => g \in DOMAIN disk /\ disk'[g] = disk[g]
<1>1. /\ DOMAIN disk' = DOMAIN disk \cup {f}
      /\ \A g \in DOMAIN disk : g # f => disk'[g] = disk[g]
      /\ disk' = [g \in DOMAIN disk' |-> disk'[g]]
  BY DEF Opened, With
<1>2. disk'[f].state = "empty" /\ DOMAIN disk'[f] = {"state", "data", "open"}
  BY DEF Opened, With, File
<1>3. \A v \in disk'[f].open : v = w \/ (f \in DOMAIN disk /\ v \in disk[f].open)
  <2>1. CASE f \in DOMAIN disk
    <3>1. disk'[f].open = disk[f].open \cup {w}
      BY <2>1 DEF Opened, With, File, Exists
    <3>2. QED
      BY <2>1, <3>1
  <2>2. CASE f \notin DOMAIN disk
    <3>1. disk'[f].open = {w}
      BY <2>2 DEF Opened, With, File, Exists
    <3>2. QED
      BY <3>1
  <2>3. QED
    BY <2>1, <2>2
<1>4. disk'[f].open \subseteq Workers
  BY <1>3 DEF DiskTypeOK, FileOK
<1>5. FileOK(f, disk'[f])
  BY <1>2, <1>4 DEF FileOK, FileStates
<1>6. DiskTypeOK'
  BY <1>1, <1>5 DEF DiskTypeOK
<1>7. QED
  BY <1>1, <1>2, <1>3, <1>6

\* write_metadata serializes the entries and opens its temporary file.
LEMMA MetaOpenKeeps ==
    ASSUME IInv, NEW w \in Workers, MetaOpen(w)
    PROVE  IInv'
<1> DEFINE f == Tmp(MetaPath)
           r == [req[w] EXCEPT !.pc = "meta_write", !.entries = Serialize(req[w].entries)]
<1>1. RequestOK(req[w]) /\ RequestGood(req[w]) /\ req[w].key \in Keys
      /\ EntryMap(req[w].entries) /\ GoodEntries(req[w].entries) /\ now \in Nat
  BY DEF IInv, TypeOK, RequestTypeOK, RequestsOK, RequestOK, RequestGood, MetaOpen
<1>2. EntryMap(Serialize(req[w].entries)) /\ GoodEntries(Serialize(req[w].entries))
  BY <1>1, SerializeGood
<1>3. RequestOK(r)
  BY <1>1, <1>2 DEF RequestOK, Steps
<1>4. RequestGood(r) /\ r.pc = "meta_write"
  BY <1>1, <1>2 DEF RequestGood, RequestOK
<1>5. req' = [req EXCEPT ![w] = r]
  BY DEF MetaOpen
<1>6. f \in Files /\ f[1] = MetaPath
  BY DEF Tmp, Files
<1>7. /\ DiskTypeOK'
      /\ f \in DOMAIN disk' /\ disk'[f].state = "empty"
      /\ \A v \in disk'[f].open : v = w \/ (f \in DOMAIN disk /\ v \in disk[f].open)
      /\ \A g \in DOMAIN disk' : g # f => g \in DOMAIN disk /\ disk'[g] = disk[g]
  <2>1. DiskTypeOK /\ disk' = Opened(w, f)
    BY DEF MetaOpen, IInv, TypeOK
  <2> HIDE DEF f
  <2>2. QED
    BY <1>6, <2>1, OpenedDisk
<1>8. fetched' = fetched
  BY DEF MetaOpen
<1>9. DiskOK'
  BY <1>7, <1>8 DEF IInv, DiskOK, FileGood, GoodEntries, FetchedFor, FetchedAt, Responses
<1>10. \A g \in DOMAIN disk : w \notin disk[g].open
  BY DEF IInv, HandlesOK, MetaOpen
<1> HIDE DEF r, f
<1>11. \A g \in DOMAIN disk' : \A v \in disk'[g].open :
         IF v # w THEN \E h \in DOMAIN disk : h[1] = g[1] /\ v \in disk[h].open
         ELSE g[1] = MetaPath
  BY <1>6, <1>7, <1>10
<1>12. /\ now' = now /\ phase' = phase /\ cache' = cache
       /\ crashes' \in Nat /\ faults' \in Nat
  BY DEF MetaOpen, IInv, TypeOK
<1>13. QED
  BY <1>3, <1>4, <1>5, <1>7, <1>8, <1>9, <1>11, <1>12, FileStep

\* A response that is fetched leaves the earlier ones as they are.
LEMMA PutOpenKeeps ==
    ASSUME IInv, NEW w \in Workers, NEW k \in Keys, PutOpen(w, k)
    PROVE  IInv'
<1> DEFINE f == Tmp(Path[k])
<1>n. PICK n : n = Len(fetched) + 1
  OBVIOUS
<1>r. PICK r : r = [req[w] EXCEPT !.pc = "write", !.key = k, !.rsp = n]
  OBVIOUS
<1>1. fetched \in Seq(Keys) /\ fetched' = Append(fetched, k)
  BY DEF IInv, TypeOK, PutOpen
<1>2. /\ fetched' \in Seq(Keys) /\ n \in Nat
      /\ n \in Responses' /\ fetched'[n] = k
      /\ \A j \in Responses : j \in Responses' /\ fetched'[j] = fetched[j]
  BY <1>n, <1>1 DEF Responses
<1>3. \A j, x : FetchedFor(j, x) => FetchedFor(j, x)'
  BY <1>2 DEF FetchedFor
<1>4. \A j, x : FetchedAt(j, x) => FetchedAt(j, x)'
  BY <1>2 DEF FetchedAt
<1>5. \A m : GoodEntries(m) => GoodEntries(m)'
  BY <1>3 DEF GoodEntries
<1>6. GoodEntries(cache)' /\ EntryMap(cache)'
  BY <1>5 DEF PutOpen, IInv, TypeOK
<1>7. RequestOK(req[w]) /\ RequestGood(req[w]) /\ req[w].pc = "idle"
  BY DEF IInv, TypeOK, RequestTypeOK, RequestsOK, PutOpen
<1>8. RequestOK(r) /\ r.pc = "write" /\ r.key = k /\ r.rsp = n
      /\ r.entries = req[w].entries
  BY <1>r, <1>2, <1>7 DEF RequestOK, Steps
<1>9. req' = [req EXCEPT ![w] = r]
  BY <1>n, <1>r DEF PutOpen
<1>10. \A v \in Workers : req'[v] = IF v = w THEN r ELSE req[v]
  BY <1>9 DEF IInv, TypeOK, RequestTypeOK
<1>11. RequestTypeOK'
  BY <1>8, <1>9, <1>10 DEF IInv, TypeOK, RequestTypeOK
<1>12. RequestsOK'
  <2>1. ASSUME NEW v \in Workers, v # w PROVE RequestGood(req[v])'
    <3>1. RequestGood(req[v]) /\ req'[v] = req[v]
      BY <1>10, <2>1 DEF IInv, RequestsOK
    <3>2. QED
      BY <1>3, <1>4, <1>5, <3>1 DEF RequestGood
  <2>2. RequestGood(req[w])'
    <3>1. req'[w] = r /\ GoodEntries(r.entries)'
      BY <1>5, <1>7, <1>8, <1>10 DEF RequestGood
    <3>2. FetchedFor(r.rsp, r.key)'
      BY <1>2, <1>8 DEF FetchedFor
    <3>3. QED
      BY <1>8, <3>1, <3>2 DEF RequestGood
  <2>3. QED
    BY <2>1, <2>2 DEF RequestsOK
<1>13. f \in Files /\ f[1] = Path[k] /\ f[1] # MetaPath
  BY PathAssumption DEF Tmp, Files
<1>14. /\ DiskTypeOK'
       /\ f \in DOMAIN disk' /\ disk'[f].state = "empty"
       /\ \A v \in disk'[f].open : v = w \/ (f \in DOMAIN disk /\ v \in disk[f].open)
       /\ \A g \in DOMAIN disk' : g # f => g \in DOMAIN disk /\ disk'[g] = disk[g]
  <2>1. DiskTypeOK /\ disk' = Opened(w, f)
    BY DEF PutOpen, IInv, TypeOK
  <2> HIDE DEF f
  <2>2. QED
    BY <1>13, <2>1, OpenedDisk
<1>15. DiskOK'
  BY <1>4, <1>5, <1>14 DEF IInv, DiskOK, FileGood
<1>16. \A g \in DOMAIN disk : w \notin disk[g].open
  BY DEF IInv, HandlesOK, PutOpen
<1>17. \A g \in DOMAIN disk' : disk'[g].open \subseteq Workers
  BY <1>14 DEF DiskTypeOK, FileOK
<1> HIDE DEF f
<1>18. HandlesOK'
  BY <1>8, <1>10, <1>13, <1>14, <1>16, <1>17 DEF IInv, HandlesOK
<1>19. TypeOK'
  BY <1>2, <1>6, <1>11, <1>14 DEF PutOpen, IInv, TypeOK
<1>20. QED
  BY <1>6, <1>12, <1>15, <1>18, <1>19 DEF IInv

-----------------------------------------------------------------------------
(* Start, crash, failing calls, time.                                      *)

\* Steps of the process itself: the tasks stand still and no file is written.
LEMMA ProcessStep ==
    ASSUME IInv, DiskTypeOK', DiskOK', HandlesOK', EntryMap(cache'), GoodEntries(cache'),
           req' = req, fetched' = fetched, now' \in Nat, crashes' \in Nat, faults' \in Nat,
           phase' \in {"starting", "serving"}
    PROVE  IInv'
<1>1. RequestTypeOK' /\ RequestsOK'
  BY DEF IInv, TypeOK, RequestTypeOK, RequestsOK, RequestGood, GoodEntries, FetchedFor,
         FetchedAt, Responses
<1>2. GoodEntries(cache)' /\ EntryMap(cache)'
  BY DEF GoodEntries, EntryMap, FetchedFor, Responses
<1>3. TypeOK'
  BY <1>1, <1>2 DEF IInv, TypeOK
<1>4. QED
  BY <1>1, <1>2, <1>3 DEF IInv

\* Deleting files while the tasks stand still.
LEMMA ProcessDeletes ==
    ASSUME IInv, NEW S, disk' = Without(disk, S), EntryMap(cache'), GoodEntries(cache'),
           req' = req, fetched' = fetched, now' \in Nat, crashes' \in Nat, faults' \in Nat,
           phase' \in {"starting", "serving"}
    PROVE  IInv'
<1>1. /\ DiskTypeOK' /\ DiskOK'
      /\ \A f \in DOMAIN disk' : f \in DOMAIN disk /\ disk'[f] = disk[f]
  BY DiskShrinks DEF IInv, TypeOK
<1>2. HandlesOK'
  BY <1>1 DEF IInv, HandlesOK
<1>3. QED
  BY <1>1, <1>2, ProcessStep

\* load fills the map from the metadata file, with no test of its size.
LEMMA ServeBasicKeeps ==
    ASSUME IInv, ServeBasic
    PROVE  IInv'
<1> DEFINE f == Bin(MetaPath)
<1>0. PICK entries : entries = IF Exists(f) /\ disk[f].state = "whole"
                               THEN disk[f].data ELSE EmptyMap
  OBVIOUS
<1> DEFINE stale == {k \in DOMAIN entries : Expired(entries[k])}
           left == Without(disk, {Bin(Path[k]) : k \in stale})
           alive == {k \in DOMAIN entries \ stale : Bin(Path[k]) \in DOMAIN left}
<1>1. EntryMap(entries) /\ GoodEntries(entries)
  <2>1. CASE Exists(f) /\ disk[f].state = "whole"
    <3>1. f \in DOMAIN disk /\ f[1] = MetaPath /\ disk[f].state # "empty"
      BY <2>1 DEF Exists, Bin
    <3>2. entries = disk[f].data
      BY <1>0, <2>1 DEF Exists
    <3>3. QED
      BY <3>1, <3>2 DEF IInv, TypeOK, DiskTypeOK, FileOK, DiskOK, FileGood
  <2>2. CASE ~(Exists(f) /\ disk[f].state = "whole")
    BY <1>0, <2>2, EmptyGood DEF Exists
  <2>3. QED
    BY <2>1, <2>2
<1>2. cache' = Restrict(entries, alive) /\ disk' = left
  BY <1>0 DEF ServeBasic, Load
<1>3. EntryMap(cache') /\ GoodEntries(cache')
  BY <1>1, <1>2, RestrictGood
<1> HIDE DEF alive, stale
<1>4. QED
  BY <1>2, <1>3, ProcessDeletes DEF ServeBasic, IInv, TypeOK

\* The initial store of a VHost proxy writes an empty metadata file.
LEMMA InitialStoreKeeps ==
    ASSUME IInv, InitialStore
    PROVE  IInv'
<1> DEFINE f == Bin(MetaPath)
<1>1. /\ DOMAIN disk' = DOMAIN disk \cup {f}
      /\ disk'[f] = File("whole", EmptyMap, {})
      /\ \A g \in DOMAIN disk : g # f => disk'[g] = disk[g]
      /\ disk' = [g \in DOMAIN disk' |-> disk'[g]]
  BY DEF InitialStore, With
<1>2. f \in Files /\ f[1] = MetaPath
  BY DEF Bin, Files
<1> HIDE DEF f
<1>3. FileOK(f, disk'[f]) /\ FileGood(f, disk'[f]) /\ disk'[f].open = {}
  BY <1>1, <1>2, EmptyGood DEF FileOK, FileGood, File, FileStates
<1>4. DiskTypeOK'
  BY <1>1, <1>2, <1>3 DEF IInv, TypeOK, DiskTypeOK
<1>5. \A g \in DOMAIN disk' : FileGood(g, disk'[g])
  BY <1>1, <1>3 DEF IInv, DiskOK
<1>6. DiskOK'
  BY <1>5 DEF InitialStore, DiskOK, FileGood, GoodEntries, FetchedFor, FetchedAt, Responses
<1>7. HandlesOK'
  BY <1>1, <1>3 DEF InitialStore, IInv, HandlesOK
<1>8. QED
  BY <1>4, <1>6, <1>7, ProcessStep DEF InitialStore, IInv, TypeOK

\* orphaned_files_cleanup deletes a file.
LEMMA OrphanedFilesCleanupKeeps ==
    ASSUME IInv, OrphanedFilesCleanup
    PROVE  IInv'
<1>1. PICK f \in BodyFiles \cap DOMAIN disk : disk' = Without(disk, {f})
  BY DEF OrphanedFilesCleanup
<1>2. QED
  BY <1>1, ProcessDeletes DEF OrphanedFilesCleanup, IInv, TypeOK

\* Steps that leave the map and the files alone.
LEMMA QuietStep ==
    ASSUME IInv, UNCHANGED <<cache, disk, req, fetched>>, now' \in Nat, crashes' \in Nat,
           faults' \in Nat, phase' \in {"starting", "serving"}
    PROVE  IInv'
<1>1. DiskTypeOK' /\ DiskOK' /\ HandlesOK'
  BY DEF IInv, TypeOK, DiskTypeOK, DiskOK, HandlesOK, FileGood, GoodEntries, FetchedFor,
         FetchedAt, Responses
<1>2. EntryMap(cache') /\ GoodEntries(cache')
  BY DEF IInv, TypeOK
<1>3. QED
  BY <1>1, <1>2, ProcessStep

\* A crash loses the map and the tasks, the files stay.
LEMMA CrashKeeps ==
    ASSUME IInv, Crash
    PROVE  IInv'
<1>1. /\ DOMAIN disk' = DOMAIN disk /\ disk' = [f \in DOMAIN disk' |-> disk'[f]]
      /\ \A f \in DOMAIN disk : disk'[f] = [disk[f] EXCEPT !.open = {}]
  BY DEF Crash
<1>2. \A f \in DOMAIN disk : FileOK(f, disk[f]) /\ FileGood(f, disk[f])
  BY DEF IInv, TypeOK, DiskTypeOK, DiskOK
<1>3. \A f \in DOMAIN disk' : FileOK(f, disk'[f]) /\ disk'[f].open = {}
  BY <1>1, <1>2 DEF FileOK
<1>4. \A f \in DOMAIN disk' : FileGood(f, disk'[f])
  BY <1>1, <1>2 DEF FileGood, FileOK
<1>5. DiskTypeOK' /\ HandlesOK'
  BY <1>1, <1>3 DEF IInv, TypeOK, DiskTypeOK, HandlesOK
<1>6. DiskOK'
  BY <1>4 DEF Crash, DiskOK, FileGood, GoodEntries, FetchedFor, FetchedAt, Responses
<1>7. req' = [w \in Workers |-> req'[w]] /\ \A w \in Workers : req'[w] = Idle
  BY DEF Crash
<1>8. RequestTypeOK'
  BY <1>7, IdleGood DEF RequestTypeOK
<1>9. RequestsOK'
  <2>1. \A w \in Workers : RequestGood(req'[w])
    BY <1>7, IdleGood
  <2>2. QED
    BY <2>1 DEF Crash, RequestsOK, RequestGood, GoodEntries, FetchedFor, FetchedAt, Responses
<1>10. EntryMap(cache') /\ GoodEntries(cache')
  BY EmptyGood DEF Crash
<1>11. GoodEntries(cache)' /\ EntryMap(cache)'
  BY <1>10 DEF Crash, GoodEntries, EntryMap, FetchedFor, Responses
<1>12. TypeOK'
  BY <1>5, <1>8, <1>11 DEF Crash, IInv, TypeOK
<1>13. QED
  BY <1>5, <1>6, <1>9, <1>11, <1>12 DEF IInv

\* A call fails: the task gives up its handles, or a file is deleted, and it goes on.
LEMMA IoErrorKeeps ==
    ASSUME IInv, NEW w \in Workers, IoError(w)
    PROVE  IInv'
<1>1. /\ UNCHANGED <<now, phase, cache, fetched>> /\ crashes' \in Nat /\ faults' \in Nat
      /\ RequestOK(req[w]) /\ RequestGood(req[w])
  BY DEF IoError, IInv, TypeOK, RequestTypeOK, RequestsOK
<1>2. ASSUME NEW todo \in Seq({"store", "clean"}), disk' = Closed(w),
             req' = Continue(w, todo), req[w].pc # "idle"
      PROVE  IInv'
  <2>1. /\ DOMAIN disk' = DOMAIN disk /\ disk' = [f \in DOMAIN disk' |-> disk'[f]]
        /\ \A f \in DOMAIN disk : disk'[f] = [disk[f] EXCEPT !.open = @ \ {w}]
    BY <1>2 DEF Closed
  <2>2. \A f \in DOMAIN disk : FileOK(f, disk[f]) /\ FileGood(f, disk[f])
    BY DEF IInv, TypeOK, DiskTypeOK, DiskOK
  <2>3. \A f \in DOMAIN disk' : FileOK(f, disk'[f]) /\ disk'[f].open = disk[f].open \ {w}
    BY <2>1, <2>2 DEF FileOK
  <2>4. \A f \in DOMAIN disk' : FileGood(f, disk'[f])
    BY <2>1, <2>2 DEF FileGood, FileOK
  <2>5. DiskTypeOK'
    BY <2>1, <2>3 DEF IInv, TypeOK, DiskTypeOK
  <2>6. DiskOK'
    BY <1>1, <2>4 DEF DiskOK, FileGood, GoodEntries, FetchedFor, FetchedAt, Responses
  <2> DEFINE r == Continued(req[w], todo)
  <2>7. RequestOK(r) /\ RequestGood(r)
    BY <1>1, <1>2, ContinuedGood DEF RequestOK
  <2>8. req' = [req EXCEPT ![w] = r]
    BY <1>2 DEF Continue
  <2>9. \A f \in DOMAIN disk' : \A v \in disk'[f].open :
           v # w /\ \E g \in DOMAIN disk : g[1] = f[1] /\ v \in disk[g].open
    BY <2>1, <2>3
  <2> HIDE DEF r
  <2>10. QED
    BY <1>1, <2>5, <2>6, <2>7, <2>8, <2>9, FileStep
<1>3. CASE req[w].pc = "write" /\ disk' = Closed(w) /\ req' = Continue(w, <<>>)
  BY <1>2, <1>3, TodoLists
<1>4. CASE req[w].pc = "rename" /\ disk' = Without(disk, {Tmp(Path[req[w].key])})
           /\ req' = Continue(w, <<>>)
  BY <1>1, <1>4, DeleteAndContinue, TodoLists
<1>5. CASE req[w].pc = "present" /\ disk' = disk /\ req' = Goto(w, "missing")
  <2> DEFINE r == [req[w] EXCEPT !.pc = "missing"]
  <2>1. RequestOK(r)
    BY <1>1, <1>5 DEF RequestOK, Steps
  <2>2. RequestGood(r)
    BY <1>1 DEF RequestGood, RequestOK
  <2>3. req' = [req EXCEPT ![w] = r]
    BY <1>5 DEF Goto
  <2> HIDE DEF r
  <2>4. QED
    BY <1>1, <1>5, <2>1, <2>2, <2>3, RequestStep
<1>6. CASE req[w].pc \in {"delete", "absent"} /\ disk' = disk
           /\ req' = Continue(w, AfterRemoval)
  BY <1>1, <1>6, DeleteAndContinue, TodoLists
<1>7. CASE req[w].pc = "evict" /\ disk' = disk /\ req' = Continue(w, AfterEviction)
  BY <1>1, <1>7, DeleteAndContinue, TodoLists
<1>8. CASE req[w].pc \in {"store", "clean_shard", "meta_open", "meta_write", "meta_rename"}
           /\ disk' = Closed(w) /\ req' = Continue(w, req[w].todo)
  <2>1. req[w].todo \in Seq({"store", "clean"})
    BY <1>1 DEF RequestOK
  <2>2. QED
    BY <1>2, <1>8, <2>1
<1>9. CASE req[w].pc = "clean_delete" /\ disk' = disk
           /\ \E p \in req[w].paths : req' = Scanned(w, p)
  BY <1>1, <1>9, ScanKeeps
<1>10. QED
  BY <1>3, <1>4, <1>5, <1>6, <1>7, <1>8, <1>9 DEF IoError, AfterFailedWrite

-----------------------------------------------------------------------------
(* The theorems.                                                           *)

\* The invariant holds when the process is first started.
LEMMA InitGood == Init => IInv
<1> SUFFICES ASSUME Init PROVE IInv
  OBVIOUS
<1>1. EntryMap(cache) /\ GoodEntries(cache)
  BY EmptyGood DEF Init
<1>2. DOMAIN disk = {} /\ disk = [f \in DOMAIN disk |-> disk[f]]
  BY DEF Init, EmptyMap
<1>3. DiskTypeOK /\ DiskOK /\ HandlesOK
  BY <1>2 DEF DiskTypeOK, DiskOK, HandlesOK
<1>4. RequestTypeOK /\ RequestsOK
  BY IdleGood DEF Init, RequestTypeOK, RequestsOK
<1>5. fetched \in Seq(Keys)
  BY DEF Init
<1>6. TypeOK
  BY <1>1, <1>3, <1>4, <1>5 DEF Init, TypeOK
<1>7. QED
  BY <1>1, <1>3, <1>4, <1>6 DEF IInv

\* Every step of the cache keeps the inductive invariant.
LEMMA NextKeeps == IInv /\ [Next]_vars => IInv'
<1> SUFFICES ASSUME IInv, [Next]_vars PROVE IInv'
  OBVIOUS
<1>1. \A w \in Getters : w \in Workers
  BY DEF Workers
<1>2. \A w \in Putters : w \in Workers
  BY DEF Workers
<1>3. ASSUME NEW w \in Getters, Get(w) PROVE IInv'
  BY <1>1, <1>3, GetLookupKeeps, GetRemoveKeeps, GetDeleteKeeps, GetAbsentKeeps, GetReadKeeps,
     DeliverKeeps DEF Get
<1>4. ASSUME NEW w \in Putters, Put(w) PROVE IInv'
  BY <1>2, <1>4, PutOpenKeeps, PutWriteKeeps, PutRenameKeeps, PutInsertKeeps, PutEvictKeeps
     DEF Put
<1>5. ASSUME NEW w \in Workers, Persist(w) PROVE IInv'
  BY <1>5, StoreKeeps, MetaOpenKeeps, MetaWriteKeeps, MetaRenameKeeps, CleanKeeps,
     CleanReadKeeps, CleanDeleteKeeps DEF Persist
<1>6. ASSUME NEW w \in Workers, IoError(w) PROVE IInv'
  BY <1>6, IoErrorKeeps
<1>7. CASE ServeVHost
  BY <1>7, QuietStep DEF ServeVHost, IInv, TypeOK
<1>8. CASE Tick
  BY <1>8, QuietStep DEF Tick, IInv, TypeOK
<1>9. CASE UNCHANGED vars
  BY <1>9, QuietStep DEF vars, IInv, TypeOK
<1>10. QED
  BY <1>3, <1>4, <1>5, <1>6, <1>7, <1>8, <1>9, ServeBasicKeeps, InitialStoreKeeps,
     OrphanedFilesCleanupKeeps, CrashKeeps DEF Next

-----------------------------------------------------------------------------
(* Times.                                                                  *)

\* Requests after one of them changed.
LEMMA RequestsAfter ==
    ASSUME RequestTypeOK, NEW w \in Workers, NEW r, req' = [req EXCEPT ![w] = r]
    PROVE  \A v \in Workers : req'[v] = IF v = w THEN r ELSE req[v]
  BY DEF RequestTypeOK

\* Where a task is after it returned or went on with its persistence work.
LEMMA ContinuedAt ==
    ASSUME NEW r, r.key \in Keys, NEW todo \in Seq({"store", "clean"})
    PROVE  /\ Continued(r, todo).pc \in {"idle", "store", "clean"}
           /\ Continued(r, todo).entries = EmptyMap
<1>1. CASE todo = <<>>
  BY <1>1 DEF Continued, Idle
<1>2. CASE todo # <<>>
  <2>1. Head(todo) \in {"store", "clean"}
    BY <1>2
  <2> QED
    BY <1>2, <2>1 DEF Continued, Idle
<1> QED
  BY <1>1, <1>2

\* A step of a task that is not at a hit afterwards and at most removes entries.
LEMMA TimesStep ==
    ASSUME TypeOK, TimesKept, NEW w \in Workers, NEW r, req' = [req EXCEPT ![w] = r],
           r.pc \notin {"present", "hit"},
           NEW S, cache' = cache \/ cache' = Without(cache, S)
    PROVE  TimesKept'
<1>1. \A v \in Workers : req'[v] = IF v = w THEN r ELSE req[v]
  BY RequestsAfter DEF TypeOK
<1>2. \A k \in DOMAIN cache' : k \in DOMAIN cache /\ cache'[k] = cache[k]
  BY DEF Without, Restrict
<1> QED
  BY <1>1, <1>2 DEF TimesKept

\* The same, for a task that continues.
LEMMA TimesContinue ==
    ASSUME TypeOK, TimesKept, NEW w \in Workers, req[w].pc # "idle",
           NEW todo \in Seq({"store", "clean"}), req' = Continue(w, todo), cache' = cache
    PROVE  TimesKept'
<1>1. PICK r : r = Continued(req[w], todo)
  OBVIOUS
<1>2. r.pc \notin {"present", "hit"}
  BY <1>1, ContinuedAt DEF TypeOK, RequestTypeOK, RequestOK
<1>3. req' = [req EXCEPT ![w] = r]
  BY <1>1 DEF Continue
<1> QED
  BY <1>2, <1>3, TimesStep

\* The same, for a task that goes to another step of its request.
LEMMA TimesGoto ==
    ASSUME TypeOK, TimesKept, NEW w \in Workers, NEW pc, pc \notin {"present", "hit"},
           req' = Goto(w, pc), NEW S, cache' = cache \/ cache' = Without(cache, S)
    PROVE  TimesKept'
<1>1. PICK r : r = [req[w] EXCEPT !.pc = pc]
  OBVIOUS
<1>2. r.pc = pc
  BY <1>1 DEF TypeOK, RequestTypeOK, RequestOK
<1>3. req' = [req EXCEPT ![w] = r]
  BY <1>1 DEF Goto
<1> QED
  BY <1>2, <1>3, TimesStep

\* get_cache.
LEMMA GetTimes ==
    ASSUME TypeOK, TimesKept, NEW w \in Workers, Get(w)
    PROVE  TimesKept'
<1>1. CASE \E k \in Keys : GetLookup(w, k)
  <2>1. PICK k \in Keys : GetLookup(w, k)
    BY <1>1
  <2>2. PICK r : r = [req[w] EXCEPT
            !.pc = IF k \notin DOMAIN cache THEN "absent"
                   ELSE IF Expired(cache[k]) THEN "expired" ELSE "present",
            !.key = k, !.meta = IF k \in DOMAIN cache THEN cache[k] ELSE None, !.at = now]
    OBVIOUS
  <2>3. req' = [req EXCEPT ![w] = r]
    BY <2>1, <2>2 DEF GetLookup
  <2>4. CASE k \notin DOMAIN cache \/ Expired(cache[k])
    <3>1. r.pc \notin {"present", "hit"}
      BY <2>2, <2>4 DEF TypeOK, RequestTypeOK, RequestOK
    <3>2. cache' = cache
      BY <2>1 DEF GetLookup
    <3> QED
      BY <2>3, <3>1, <3>2, TimesStep
  <2>5. CASE k \in DOMAIN cache /\ ~Expired(cache[k])
    <3>1. r.meta = cache[k] /\ r.at = now
      BY <2>2, <2>5 DEF TypeOK, RequestTypeOK, RequestOK
    <3>2. now \in Nat /\ cache[k].created \in Nat /\ cache[k].born \in Nat /\ TTL \in Nat
      BY <2>5, BoundAssumption DEF TypeOK, EntryMap, MetadataSet
    <3>3. VHost => cache[k].created = cache[k].born
      BY <2>5 DEF TimesKept
    <3>4. VHost => AsSecs(r.at - r.meta.born) <= TTL
      <4>1. AsSecs(now - cache[k].created) \in Int
        BY <3>2, SecondsType
      <4> QED
        BY <2>5, <3>1, <3>2, <3>3, <4>1 DEF Expired
    <3>5. cache' = cache
      BY <2>1 DEF GetLookup
    <3>6. \A v \in Workers : req'[v] = IF v = w THEN r ELSE req[v]
      BY <2>3, RequestsAfter DEF TypeOK
    <3> QED
      BY <3>4, <3>5, <3>6 DEF TimesKept
  <2> QED
    BY <2>4, <2>5
<1>2. CASE GetRemove(w)
  <2>1. CASE req[w].pc = "missing"
    <3>1. PICK r : r = Continued(req[w], AfterRemoval)
      OBVIOUS
    <3>2. r.pc \notin {"present", "hit"}
      BY <2>1, <3>1, ContinuedAt, TodoLists DEF TypeOK, RequestTypeOK, RequestOK
    <3>3. req' = [req EXCEPT ![w] = r]
      BY <1>2, <2>1, <3>1 DEF GetRemove, Continue
    <3>4. cache' = Without(cache, {req[w].key})
      BY <1>2 DEF GetRemove
    <3> QED
      BY <3>2, <3>3, <3>4, TimesStep
  <2>2. CASE req[w].pc # "missing"
    BY <1>2, <2>2, TimesGoto DEF GetRemove
  <2> QED
    BY <2>1, <2>2
<1>3. CASE GetDelete(w)
  BY <1>3, TimesContinue, TodoLists DEF GetDelete
<1>4. CASE GetAbsent(w)
  <2>1. cache' = cache /\ req[w].pc = "absent"
        /\ (req' = Continue(w, AfterRemoval) \/ req' = Continue(w, <<>>))
    BY <1>4 DEF GetAbsent
  <2> QED
    BY <2>1, TimesContinue, TodoLists
<1>5. CASE GetRead(w)
  <2>1. cache' = cache /\ req[w].pc = "present"
    BY <1>5 DEF GetRead
  <2>2. CASE req' = Goto(w, "missing") \/ req' = Goto(w, "corrupt")
    BY <2>1, <2>2, TimesGoto
  <2>3. CASE ~(req' = Goto(w, "missing") \/ req' = Goto(w, "corrupt"))
    <3>1. PICK body : req' = [req EXCEPT ![w].pc = "hit", ![w].body = body]
      BY <1>5, <2>3 DEF GetRead
    <3>2. PICK r : r = [req[w] EXCEPT !.pc = "hit", !.body = body]
      OBVIOUS
    <3>3. r.at = req[w].at /\ r.meta = req[w].meta
      BY <3>2 DEF TypeOK, RequestTypeOK, RequestOK
    <3>4. req' = [req EXCEPT ![w] = r]
      BY <3>1, <3>2
    <3>5. \A v \in Workers : req'[v] = IF v = w THEN r ELSE req[v]
      BY <3>4, RequestsAfter DEF TypeOK
    <3> QED
      BY <2>1, <3>3, <3>5 DEF TimesKept
  <2> QED
    BY <2>2, <2>3
<1>6. CASE Deliver(w)
  BY <1>6, TimesContinue, TodoLists DEF Deliver
<1> QED
  BY <1>1, <1>2, <1>3, <1>4, <1>5, <1>6 DEF Get

\* put_cache.
LEMMA PutTimes ==
    ASSUME TypeOK, TimesKept, NEW w \in Workers, Put(w)
    PROVE  TimesKept'
<1>1. CASE \E k \in Keys : PutOpen(w, k)
  <2>1. PICK k \in Keys : PutOpen(w, k)
    BY <1>1
  <2>2. PICK r : r = [req[w] EXCEPT !.pc = "write", !.key = k, !.rsp = Len(fetched) + 1]
    OBVIOUS
  <2>3. r.pc = "write"
    BY <2>2 DEF TypeOK, RequestTypeOK, RequestOK
  <2>4. req' = [req EXCEPT ![w] = r] /\ cache' = cache
    BY <2>1, <2>2 DEF PutOpen
  <2> QED
    BY <2>3, <2>4, TimesStep
<1>2. CASE PutWrite(w)
  BY <1>2, TimesGoto DEF PutWrite
<1>3. CASE PutRename(w)
  <2>1. cache' = cache /\ req[w].pc = "rename"
        /\ (req' = Goto(w, "insert") \/ req' = Continue(w, <<>>))
    BY <1>3 DEF PutRename
  <2> QED
    BY <2>1, TimesGoto, TimesContinue, TodoLists
<1>4. CASE PutInsert(w)
  <2>1. PICK k \in Keys : k = req[w].key
    BY <1>4 DEF PutInsert, TypeOK, RequestTypeOK, RequestOK
  <2>2. PICK meta : meta = Metadata(req[w].rsp, now, now)
    OBVIOUS
  <2>3. \A j \in DOMAIN cache' : cache'[j] = meta \/ (j \in DOMAIN cache /\ cache'[j] = cache[j])
    <3>1. CASE Full(k)
      <4>1. PICK old \in Oldest : cache' = With(Without(cache, {old}), k, meta)
        BY <1>4, <2>1, <2>2, <3>1 DEF PutInsert
      <4>2. PICK rest : rest = Without(cache, {old})
        OBVIOUS
      <4>3. \A j \in DOMAIN rest : j \in DOMAIN cache /\ rest[j] = cache[j]
        BY <4>2 DEF Without, Restrict
      <4>4. cache' = With(rest, k, meta)
        BY <4>1, <4>2
      <4> QED
        BY <4>3, <4>4 DEF With
    <3>2. CASE ~Full(k)
      <4>1. cache' = With(cache, k, meta)
        BY <1>4, <2>1, <2>2, <3>2 DEF PutInsert
      <4> QED
        BY <4>1 DEF With
    <3> QED
      BY <3>1, <3>2
  <2>4. meta.created = meta.born
    BY <2>2 DEF Metadata
  <2>5. PICK r : /\ req' = [req EXCEPT ![w] = r]
                 /\ r.pc \notin {"present", "hit"}
    <3>1. CASE Full(k)
      <4>1. PICK old \in Oldest : req' = [req EXCEPT ![w].pc = "evict", ![w].victim = Path[old]]
        BY <1>4, <2>1, <3>1 DEF PutInsert
      <4>2. PICK r : r = [req[w] EXCEPT !.pc = "evict", !.victim = Path[old]]
        OBVIOUS
      <4>3. r.pc = "evict"
        BY <4>2 DEF TypeOK, RequestTypeOK, RequestOK
      <4> QED
        BY <4>1, <4>2, <4>3
    <3>2. CASE ~Full(k)
      <4>1. PICK r : r = Continued(req[w], AfterInsert)
        OBVIOUS
      <4>2. r.pc \notin {"present", "hit"}
        BY <2>1, <4>1, ContinuedAt, TodoLists
      <4>3. req' = [req EXCEPT ![w] = r]
        BY <1>4, <2>1, <3>2, <4>1 DEF PutInsert, Continue
      <4> QED
        BY <4>2, <4>3
    <3> QED
      BY <3>1, <3>2
  <2>6. \A v \in Workers : req'[v] = IF v = w THEN r ELSE req[v]
    BY <2>5, RequestsAfter DEF TypeOK
  <2> QED
    BY <2>3, <2>4, <2>5, <2>6 DEF TimesKept
<1>5. CASE PutEvict(w)
  BY <1>5, TimesContinue, TodoLists DEF PutEvict
<1> QED
  BY <1>1, <1>2, <1>3, <1>4, <1>5 DEF Put

\* Persistence and failing calls.
LEMMA PersistTimes ==
    ASSUME TypeOK, TimesKept, NEW w \in Workers, Persist(w) \/ IoError(w)
    PROVE  TimesKept'
<1>0. req[w].todo \in Seq({"store", "clean"}) /\ cache' = cache
  BY DEF TypeOK, RequestTypeOK, RequestOK, Persist, IoError, Store, MetaOpen, MetaWrite,
         MetaRename, Clean, CleanRead, CleanDelete
<1>1. CASE \E S : req' = [req EXCEPT ![w].pc = "meta_open", ![w].entries = S]
  <2>1. PICK S : req' = [req EXCEPT ![w].pc = "meta_open", ![w].entries = S]
    BY <1>1
  <2>2. PICK r : r = [req[w] EXCEPT !.pc = "meta_open", !.entries = S]
    OBVIOUS
  <2>3. r.pc = "meta_open" /\ req' = [req EXCEPT ![w] = r]
    BY <2>1, <2>2 DEF TypeOK, RequestTypeOK, RequestOK
  <2> QED
    BY <1>0, <2>3, TimesStep
<1>2. CASE MetaOpen(w)
  <2>1. PICK r : r = [req[w] EXCEPT !.pc = "meta_write", !.entries = Serialize(@)]
    OBVIOUS
  <2>2. r.pc = "meta_write" /\ req' = [req EXCEPT ![w] = r]
    BY <1>2, <2>1 DEF MetaOpen, TypeOK, RequestTypeOK, RequestOK
  <2> QED
    BY <1>0, <2>2, TimesStep
<1>3. CASE \E S : req' = [req EXCEPT ![w].pc = "clean_shard", ![w].paths = S]
  <2>1. PICK S : req' = [req EXCEPT ![w].pc = "clean_shard", ![w].paths = S]
    BY <1>3
  <2>2. PICK r : r = [req[w] EXCEPT !.pc = "clean_shard", !.paths = S]
    OBVIOUS
  <2>3. r.pc = "clean_shard" /\ req' = [req EXCEPT ![w] = r]
    BY <2>1, <2>2 DEF TypeOK, RequestTypeOK, RequestOK
  <2> QED
    BY <1>0, <2>3, TimesStep
<1>4. CASE req' = Goto(w, "meta_rename") \/ req' = Goto(w, "missing")
  BY <1>0, <1>4, TimesGoto
<1>5. CASE \E todo \in Seq({"store", "clean"}) : req' = Continue(w, todo) /\ req[w].pc # "idle"
  BY <1>0, <1>5, TimesContinue
<1>6. CASE Store(w)
  BY <1>1, <1>6 DEF Store
<1>7. CASE MetaWrite(w)
  BY <1>4, <1>7 DEF MetaWrite
<1>8. CASE MetaRename(w)
  BY <1>0, <1>5, <1>8 DEF MetaRename
<1>9. CASE Clean(w)
  BY <1>0, <1>3, <1>5, <1>9 DEF Clean
<1>10. CASE CleanRead(w)
  <2>1. ASSUME NEW r, NEW S, NEW pc, NEW ps, req' = [req EXCEPT ![w] = r],
               r = [req[w] EXCEPT !.pc = pc, !.paths = ps, !.entries = S],
               pc \in {"clean_delete", "meta_open"}
        PROVE  TimesKept'
    <3>1. r.pc = pc
      BY <2>1 DEF TypeOK, RequestTypeOK, RequestOK
    <3> QED
      BY <1>0, <2>1, <3>1, TimesStep
  <2>2. req[w].pc # "idle"
    BY <1>10 DEF CleanRead
  <2> QED
    BY <1>0, <1>5, <1>10, <2>1, <2>2, CleanReads
<1>12. CASE req[w].pc = "clean_delete" /\ \E p : req' = Scanned(w, p)
  <2>1. PICK r, pc, ps : /\ r = [req[w] EXCEPT !.pc = pc, !.paths = ps]
                         /\ req' = [req EXCEPT ![w] = r]
                         /\ pc \in {"clean_delete", "meta_open"}
    BY <1>12, ScannedRequest
  <2>2. r.pc = pc
    BY <2>1 DEF TypeOK, RequestTypeOK, RequestOK
  <2> QED
    BY <1>0, <2>1, <2>2, TimesStep
<1>13. CASE CleanDelete(w)
  BY <1>12, <1>13 DEF CleanDelete
<1>11. CASE IoError(w)
  <2>1. req[w].pc # "idle"
    BY <1>11 DEF IoError
  <2>2. \/ req' = Goto(w, "missing")
        \/ req' = Continue(w, <<>>) \/ req' = Continue(w, AfterRemoval)
        \/ req' = Continue(w, AfterEviction) \/ req' = Continue(w, req[w].todo)
        \/ req[w].pc = "clean_delete" /\ \E p : req' = Scanned(w, p)
    BY <1>11 DEF IoError, AfterFailedWrite
  <2> QED
    BY <1>0, <1>4, <1>5, <1>12, <2>1, <2>2, TodoLists
<1> QED
  BY <1>2, <1>6, <1>7, <1>8, <1>9, <1>10, <1>11, <1>13 DEF Persist

\* Every step.
LEMMA NextTimes == TypeOK /\ TimesKept /\ [Next]_vars => TimesKept'
<1> SUFFICES ASSUME TypeOK, TimesKept, [Next]_vars PROVE TimesKept'
  OBVIOUS
<1>1. \A w \in Getters \cup Putters : w \in Workers
  BY DEF Workers
<1>2. ASSUME NEW w \in Getters, Get(w) PROVE TimesKept'
  BY <1>1, <1>2, GetTimes
<1>3. ASSUME NEW w \in Putters, Put(w) PROVE TimesKept'
  BY <1>1, <1>3, PutTimes
<1>4. ASSUME NEW w \in Workers, Persist(w) \/ IoError(w) PROVE TimesKept'
  BY <1>4, PersistTimes
<1>5. CASE ServeBasic
  BY <1>5 DEF ServeBasic, TimesKept
<1>6. CASE InitialStore \/ OrphanedFilesCleanup \/ ServeVHost \/ Tick \/ UNCHANGED vars
  <2>1. cache' = cache /\ req' = req
    BY <1>6 DEF InitialStore, OrphanedFilesCleanup, ServeVHost, Tick, vars
  <2> QED
    BY <2>1 DEF TimesKept
<1>7. CASE Crash
  <2>1. cache' = EmptyMap /\ \A w \in Workers : req'[w] = Idle
    BY <1>7 DEF Crash
  <2> QED
    BY <2>1 DEF TimesKept, EmptyMap, Idle
<1> QED
  BY <1>2, <1>3, <1>4, <1>5, <1>6, <1>7 DEF Next

-----------------------------------------------------------------------------
(* Stores that do not overlap on a file: headers and bodies.               *)

\* File f of disk e is, if it exists, the file of disk d.
KeptFile(d, e, f) ==
    f \in DOMAIN e =>
        /\ f \in DOMAIN d
        /\ e[f].state = d[f].state /\ e[f].data = d[f].data /\ e[f].open = d[f].open

\* Bodies and temporary bodies are kept or deleted.
KeptBodies(d, e) == \A p \in Paths : KeptFile(d, e, Bin(p))
KeptTmps(d, e) == \A p \in Paths : KeptFile(d, e, Tmp(p))

\* What is not newer than a body is not newer than what is left of it.
LEMMA NotNewerKept ==
    ASSUME NEW d, NEW e, KeptBodies(d, e), NEW k \in Keys, NEW r, NotNewer(r, k, d)
    PROVE  NotNewer(r, k, e)
<1>1. Path[k] \in Paths
  BY PathAssumption
<1> QED
  BY <1>1 DEF NotNewer, KeptBodies, KeptFile

\* The same of entries.
LEMMA EntriesKept ==
    ASSUME NEW d, NEW e, KeptBodies(d, e), NEW m, DOMAIN m \subseteq Keys, EntriesNotNewer(m, d)
    PROVE  EntriesNotNewer(m, e)
  BY NotNewerKept DEF EntriesNotNewer

\* A part of the entries.
LEMMA EntriesPart ==
    ASSUME NEW d, NEW m, EntriesNotNewer(m, d),
           NEW l, \A k \in DOMAIN l : k \in DOMAIN m /\ l[k].rsp = m[k].rsp
    PROVE  EntriesNotNewer(l, d)
  BY DEF EntriesNotNewer

\* Deleting files keeps the others.
LEMMA ShrinkKept ==
    ASSUME NEW d, NEW S, NEW e, e = d \/ e = Without(d, S)
    PROVE  /\ KeptBodies(d, e) /\ KeptTmps(d, e)
           /\ \A f \in DOMAIN e : f \in DOMAIN d /\ e[f] = d[f]
<1>1. \A f \in DOMAIN e : f \in DOMAIN d /\ e[f] = d[f]
  BY DEF Without, Restrict
<1> QED
  BY <1>1 DEF KeptBodies, KeptTmps, KeptFile

\* A task on another disk that kept, while it stores, its temporary file.
LEMMA RequestKept ==
    ASSUME NEW w, NEW r, RequestOK(r), NEW d, NEW e, NEW g, NEW h, KeptBodies(d, e),
           RequestOrdered(w, r, d, g),
           r.pc \in {"write", "rename", "insert"} =>
              KeptFile(d, e, Tmp(Path[r.key])) /\ Newest(r.rsp, Path[r.key], h)
    PROVE  RequestOrdered(w, r, e, h)
<1>1. EntriesNotNewer(r.entries, e)
  BY EntriesKept DEF RequestOrdered, RequestOK, EntryMap
<1>2. r.pc # "idle" => r.key \in Keys /\ Path[r.key] \in Paths
  BY PathAssumption DEF RequestOK
<1>3. r.pc = "present" => NotNewer(r.meta.rsp, r.key, e)
  BY <1>2, NotNewerKept DEF RequestOrdered
<1>4. r.pc = "insert" => NotNewer(r.rsp, r.key, e)
  BY <1>2, NotNewerKept DEF RequestOrdered, StoreOrdered
<1>5. StoreOrdered(w, r, e, h)
  <2>1. CASE r.pc \notin {"write", "rename", "insert"}
    BY <2>1 DEF StoreOrdered
  <2>2. CASE r.pc \in {"write", "rename", "insert"}
    BY <1>4, <2>2 DEF StoreOrdered, RequestOrdered, KeptFile
  <2> QED
    BY <2>1, <2>2
<1> QED
  BY <1>1, <1>3, <1>5 DEF RequestOrdered

\* What a step of task w must leave to a store of another task: its temporary
\* file, and that no newer response goes to its path.
OthersKept(w) ==
    \A v \in Workers \ {w} :
        Storing(v) => /\ KeptFile(disk, disk', Tmp(Path[req[v].key]))
                      /\ Newest(req[v].rsp, Path[req[v].key], fetched')

\* A step that keeps all temporary files and fetches nothing disturbs no store.
LEMMA QuietOthers ==
    ASSUME TypeOK, InOrder, KeptTmps(disk, disk'), fetched' = fetched, NEW w
    PROVE  OthersKept(w)
<1>1. ASSUME NEW v \in Workers, Storing(v)
      PROVE  /\ KeptFile(disk, disk', Tmp(Path[req[v].key]))
             /\ Newest(req[v].rsp, Path[req[v].key], fetched')
  <2>1. Path[req[v].key] \in Paths
    BY <1>1, PathAssumption DEF TypeOK, RequestTypeOK, RequestOK, Storing
  <2>2. Newest(req[v].rsp, Path[req[v].key], fetched)
    BY <1>1 DEF InOrder, RequestOrdered, StoreOrdered, Storing
  <2> QED
    BY <2>1, <2>2 DEF KeptTmps
<1> QED
  BY <1>1 DEF OthersKept

\* A store disturbs no other: they go to other paths.
LEMMA OtherPaths ==
    ASSUME TypeOK, InOrder, Calm, NEW w \in Workers, Storing(w), fetched' = fetched,
           \A q \in Paths : q # Path[req[w].key] => KeptFile(disk, disk', Tmp(q))
    PROVE  OthersKept(w)
<1>1. ASSUME NEW v \in Workers, v # w, Storing(v)
      PROVE  /\ KeptFile(disk, disk', Tmp(Path[req[v].key]))
             /\ Newest(req[v].rsp, Path[req[v].key], fetched')
  <2>1. Path[req[v].key] \in Paths
    BY <1>1, PathAssumption DEF TypeOK, RequestTypeOK, RequestOK, Storing
  <2>2. Path[req[v].key] # Path[req[w].key]
    BY <1>1 DEF Calm
  <2>3. Newest(req[v].rsp, Path[req[v].key], fetched)
    BY <1>1 DEF InOrder, RequestOrdered, StoreOrdered, Storing
  <2> QED
    BY <2>1, <2>2, <2>3
<1> QED
  BY <1>1 DEF OthersKept

\* A step of task w that keeps the body files and disturbs no other store.
LEMMA OrderStep ==
    ASSUME TypeOK, InOrder, NEW w \in Workers, NEW r, req' = [req EXCEPT ![w] = r],
           KeptBodies(disk, disk'), OthersKept(w),
           EntriesNotNewer(cache', disk'), MetaFilesOK',
           RequestOrdered(w, r, disk', fetched')
    PROVE  InOrder'
<1>1. \A v \in Workers : req'[v] = IF v = w THEN r ELSE req[v]
  BY RequestsAfter DEF TypeOK
<1>2. ASSUME NEW v \in Workers
      PROVE  RequestOrdered(v, req'[v], disk', fetched')
  <2>1. CASE v = w
    BY <1>1, <2>1
  <2>2. CASE v # w
    <3>1. RequestOK(req[v]) /\ RequestOrdered(v, req[v], disk, fetched)
      BY DEF TypeOK, RequestTypeOK, InOrder
    <3>2. req[v].pc \in {"write", "rename", "insert"} =>
             /\ KeptFile(disk, disk', Tmp(Path[req[v].key]))
             /\ Newest(req[v].rsp, Path[req[v].key], fetched')
      BY <2>2 DEF OthersKept, Storing
    <3> QED
      BY <1>1, <2>2, <3>1, <3>2, RequestKept
  <2> QED
    BY <2>1, <2>2
<1>3. BodiesOK'
  BY DEF InOrder, BodiesOK, Exists, KeptBodies, KeptFile
<1> QED
  BY <1>2, <1>3 DEF InOrder

\* A step that at most deletes files.
LEMMA OrderShrinks ==
    ASSUME TypeOK, InOrder, NEW w \in Workers, NEW r, req' = [req EXCEPT ![w] = r],
           NEW S, disk' = disk \/ disk' = Without(disk, S), fetched' = fetched, TypeOK',
           EntriesNotNewer(cache', disk), RequestOrdered(w, r, disk, fetched)
    PROVE  InOrder'
<1>0. DOMAIN cache' \subseteq Keys /\ RequestOK(r)
  <2>1. RequestTypeOK
    BY DEF TypeOK
  <2>2. req'[w] = r
    BY <2>1 DEF RequestTypeOK
  <2> QED
    BY <2>2 DEF TypeOK, EntryMap, RequestTypeOK
<1>1. /\ KeptBodies(disk, disk') /\ KeptTmps(disk, disk')
      /\ \A f \in DOMAIN disk' : f \in DOMAIN disk /\ disk'[f] = disk[f]
  BY ShrinkKept
<1>2. EntriesNotNewer(cache', disk')
  BY <1>0, <1>1, EntriesKept
<1>3. MetaFilesOK'
  <2>1. SUFFICES ASSUME NEW f \in DOMAIN disk', f[1] = MetaPath, disk'[f].state # "empty"
                 PROVE  EntriesNotNewer(disk'[f].data, disk')
    BY DEF MetaFilesOK
  <2>2. f \in DOMAIN disk /\ disk'[f] = disk[f] /\ EntriesNotNewer(disk[f].data, disk)
    BY <1>1, <2>1 DEF InOrder, MetaFilesOK
  <2>3. DOMAIN disk[f].data \subseteq Keys
    BY <2>1, <2>2 DEF TypeOK, DiskTypeOK, FileOK, EntryMap
  <2> QED
    BY <1>1, <2>2, <2>3, EntriesKept
<1>4. RequestOrdered(w, r, disk', fetched')
  <2>1. r.pc \in {"write", "rename", "insert"} =>
           Path[r.key] \in Paths /\ Newest(r.rsp, Path[r.key], fetched)
    BY <1>0, PathAssumption DEF RequestOK, RequestOrdered, StoreOrdered
  <2>2. r.pc \in {"write", "rename", "insert"} =>
           KeptFile(disk, disk', Tmp(Path[r.key])) /\ Newest(r.rsp, Path[r.key], fetched')
    BY <1>1, <2>1 DEF KeptTmps
  <2> QED
    BY <1>0, <1>1, <2>2, RequestKept
<1>5. OthersKept(w)
  BY <1>1, QuietOthers
<1> QED
  BY <1>1, <1>2, <1>3, <1>4, <1>5, OrderStep

\* A task that holds neither an answer nor a store.
LEMMA QuietOrdered ==
    ASSUME NEW w, NEW r, NEW d, NEW h, EntriesNotNewer(r.entries, d),
           r.pc \notin {"present", "write", "rename", "insert"}
    PROVE  RequestOrdered(w, r, d, h)
  BY DEF RequestOrdered, StoreOrdered

\* A step that goes on with the persistence work, or returns.
LEMMA OrderContinue ==
    ASSUME TypeOK, TypeOK', InOrder, NEW w \in Workers, req[w].pc # "idle",
           NEW todo \in Seq({"store", "clean"}), req' = Continue(w, todo),
           NEW S, disk' = disk \/ disk' = Without(disk, S), fetched' = fetched,
           EntriesNotNewer(cache', disk)
    PROVE  InOrder'
<1>1. PICK r : r = Continued(req[w], todo)
  OBVIOUS
<1>2. r.pc \in {"idle", "store", "clean"} /\ r.entries = EmptyMap
  BY <1>1, ContinuedAt DEF TypeOK, RequestTypeOK, RequestOK
<1>3. EntriesNotNewer(r.entries, disk)
  BY <1>2 DEF EntriesNotNewer, EmptyMap
<1>4. RequestOrdered(w, r, disk, fetched)
  BY <1>2, <1>3, QuietOrdered
<1>5. req' = [req EXCEPT ![w] = r]
  BY <1>1 DEF Continue
<1> QED
  BY <1>4, <1>5, OrderShrinks

\* A step to a place where the task holds neither an answer nor a store.
LEMMA OrderGoto ==
    ASSUME TypeOK, TypeOK', InOrder, NEW w \in Workers, NEW r,
           req' = [req EXCEPT ![w] = r], r.entries = req[w].entries,
           r.pc \notin {"present", "write", "rename", "insert"},
           NEW S, disk' = disk \/ disk' = Without(disk, S), fetched' = fetched,
           EntriesNotNewer(cache', disk)
    PROVE  InOrder'
<1>1. EntriesNotNewer(r.entries, disk)
  BY DEF InOrder, RequestOrdered
<1>2. RequestOrdered(w, r, disk, fetched)
  BY <1>1, QuietOrdered
<1> QED
  BY <1>2, OrderShrinks

\* The record of a task that only changes its place.
LEMMA GotoRecord ==
    ASSUME TypeOK, NEW w \in Workers, NEW pc, req' = Goto(w, pc)
    PROVE  \E r : /\ req' = [req EXCEPT ![w] = r]
                  /\ r.pc = pc /\ r.entries = req[w].entries /\ r.key = req[w].key
                  /\ r.rsp = req[w].rsp /\ r.meta = req[w].meta
<1>1. PICK r : r = [req[w] EXCEPT !.pc = pc]
  OBVIOUS
<1>2. /\ r.pc = pc /\ r.entries = req[w].entries /\ r.key = req[w].key
      /\ r.rsp = req[w].rsp /\ r.meta = req[w].meta
  BY <1>1 DEF TypeOK, RequestTypeOK, RequestOK
<1>3. req' = [req EXCEPT ![w] = r]
  BY <1>1 DEF Goto
<1> QED
  BY <1>2, <1>3

\* get_cache.
LEMMA GetOrder ==
    ASSUME TypeOK, TypeOK', InOrder, NEW w \in Workers, Get(w)
    PROVE  InOrder'
<1>0. EntriesNotNewer(cache, disk) /\ <<>> \in Seq({"store", "clean"})
  BY DEF InOrder
<1>1. CASE \E k \in Keys : GetLookup(w, k)
  <2>1. PICK k \in Keys : GetLookup(w, k)
    BY <1>1
  <2>2. PICK r : r = [req[w] EXCEPT
            !.pc = IF k \notin DOMAIN cache THEN "absent"
                   ELSE IF Expired(cache[k]) THEN "expired" ELSE "present",
            !.key = k, !.meta = IF k \in DOMAIN cache THEN cache[k] ELSE None, !.at = now]
    OBVIOUS
  <2>3. req' = [req EXCEPT ![w] = r]
    BY <2>1, <2>2 DEF GetLookup
  <2>4. /\ r.entries = req[w].entries /\ r.key = k
        /\ r.pc \in {"absent", "expired", "present"}
        /\ r.pc = "present" => k \in DOMAIN cache /\ r.meta = cache[k]
    BY <2>2 DEF TypeOK, RequestTypeOK, RequestOK
  <2>5. RequestOrdered(w, r, disk, fetched)
    BY <1>0, <2>4 DEF InOrder, RequestOrdered, StoreOrdered, EntriesNotNewer
  <2>6. disk' = disk /\ fetched' = fetched /\ cache' = cache
    BY <2>1 DEF GetLookup
  <2> QED
    BY <1>0, <2>3, <2>5, <2>6, OrderShrinks
<1>2. CASE GetRemove(w)
  <2>1. cache' = Without(cache, {req[w].key}) /\ disk' = disk /\ fetched' = fetched
        /\ req[w].pc # "idle"
    BY <1>2 DEF GetRemove
  <2>2. EntriesNotNewer(cache', disk)
    <3>1. \A k \in DOMAIN cache' : k \in DOMAIN cache /\ cache'[k].rsp = cache[k].rsp
      BY <2>1 DEF Without, Restrict
    <3> QED
      BY <1>0, <3>1, EntriesPart
  <2>3. CASE req' = Continue(w, AfterRemoval)
    BY <2>1, <2>2, <2>3, OrderContinue, TodoLists
  <2>4. CASE req' = Goto(w, "delete")
    <3>1. PICK r : /\ req' = [req EXCEPT ![w] = r]
                   /\ r.pc = "delete" /\ r.entries = req[w].entries
      BY <2>4, GotoRecord
    <3> QED
      BY <2>1, <2>2, <3>1, OrderGoto
  <2> QED
    BY <1>2, <2>3, <2>4 DEF GetRemove
<1>3. CASE GetDelete(w)
  BY <1>0, <1>3, OrderContinue, TodoLists DEF GetDelete
<1>4. CASE GetAbsent(w)
  <2>1. PICK S : disk' = disk \/ disk' = Without(disk, S)
    BY <1>4 DEF GetAbsent
  <2>2. /\ cache' = cache /\ fetched' = fetched /\ req[w].pc # "idle"
        /\ (req' = Continue(w, AfterRemoval) \/ req' = Continue(w, <<>>))
    BY <1>4 DEF GetAbsent
  <2> QED
    BY <1>0, <2>1, <2>2, OrderContinue, TodoLists
<1>5. CASE GetRead(w)
  <2>1. cache' = cache /\ disk' = disk /\ fetched' = fetched
    BY <1>5 DEF GetRead
  <2>2. CASE req' = Goto(w, "missing") \/ req' = Goto(w, "corrupt")
    <3>1. PICK r : /\ req' = [req EXCEPT ![w] = r]
                   /\ r.pc \in {"missing", "corrupt"} /\ r.entries = req[w].entries
      BY <2>2, GotoRecord
    <3> QED
      BY <1>0, <2>1, <3>1, OrderGoto
  <2>3. CASE ~(req' = Goto(w, "missing") \/ req' = Goto(w, "corrupt"))
    <3>1. PICK body : req' = [req EXCEPT ![w].pc = "hit", ![w].body = body]
      BY <1>5, <2>3 DEF GetRead
    <3>2. PICK r : r = [req[w] EXCEPT !.pc = "hit", !.body = body]
      OBVIOUS
    <3>3. r.pc = "hit" /\ r.entries = req[w].entries
      BY <3>2 DEF TypeOK, RequestTypeOK, RequestOK
    <3>4. req' = [req EXCEPT ![w] = r]
      BY <3>1, <3>2
    <3> QED
      BY <1>0, <2>1, <3>3, <3>4, OrderGoto
  <2> QED
    BY <2>2, <2>3
<1>6. CASE Deliver(w)
  BY <1>0, <1>6, OrderContinue DEF Deliver
<1> QED
  BY <1>1, <1>2, <1>3, <1>4, <1>5, <1>6 DEF Get

\* Metadata files are kept, emptied or deleted.
LEMMA MetaKept ==
    ASSUME TypeOK, InOrder, KeptBodies(disk, disk'),
           \A f \in DOMAIN disk' :
              f[1] = MetaPath /\ disk'[f].state # "empty" =>
                 \E g \in DOMAIN disk : /\ g[1] = MetaPath /\ disk[g].state # "empty"
                                        /\ disk'[f].data = disk[g].data
    PROVE  MetaFilesOK'
<1>1. SUFFICES ASSUME NEW f \in DOMAIN disk', f[1] = MetaPath, disk'[f].state # "empty"
               PROVE  EntriesNotNewer(disk'[f].data, disk')
  BY DEF MetaFilesOK
<1>2. PICK g \in DOMAIN disk : /\ g[1] = MetaPath /\ disk[g].state # "empty"
                               /\ disk'[f].data = disk[g].data
  BY <1>1
<1>3. DOMAIN disk[g].data \subseteq Keys
  BY <1>2 DEF TypeOK, DiskTypeOK, FileOK, EntryMap
<1>4. EntriesNotNewer(disk[g].data, disk)
  BY <1>2 DEF InOrder, MetaFilesOK
<1> QED
  BY <1>2, <1>3, <1>4, EntriesKept

\* put_cache fetches a response and opens its temporary file.
LEMMA PutOpenOrder ==
    ASSUME IInv, Calm', InOrder, NEW w \in Workers, NEW k \in Keys, PutOpen(w, k)
    PROVE  InOrder'
<1>0. TypeOK
  BY DEF IInv
<1>1. PICK f : f = Tmp(Path[k])
  OBVIOUS
<1>2. f \in Files /\ f[1] \in Paths /\ f[1] # MetaPath /\ \A p \in Paths : Bin(p) # f
  BY <1>1, PathAssumption DEF Tmp, Bin, Files
<1>3. disk' = Opened(w, f)
  BY <1>1 DEF PutOpen
<1>4. DiskTypeOK
  BY <1>0 DEF TypeOK
<1>5. /\ disk'[f].state = "empty"
      /\ \A g \in DOMAIN disk' : g # f => g \in DOMAIN disk /\ disk'[g] = disk[g]
  BY <1>2, <1>3, <1>4, OpenedDisk
<1>6. w \in disk'[f].open
  BY <1>3 DEF Opened, With, File
<1>7. KeptBodies(disk, disk')
  BY <1>2, <1>5 DEF KeptBodies, KeptFile
<1>8. MetaFilesOK'
  <2>1. \A g \in DOMAIN disk' : g[1] = MetaPath => g \in DOMAIN disk /\ disk'[g] = disk[g]
    BY <1>2, <1>5
  <2> QED
    BY <1>0, <1>7, <2>1, MetaKept
<1>9. EntriesNotNewer(cache', disk')
  <2>1. EntriesNotNewer(cache, disk) /\ cache' = cache /\ DOMAIN cache \subseteq Keys
    BY <1>0 DEF InOrder, PutOpen, TypeOK, EntryMap
  <2> QED
    BY <1>7, <2>1, EntriesKept
<1>10. PICK r : r = [req[w] EXCEPT !.pc = "write", !.key = k, !.rsp = Len(fetched) + 1]
  OBVIOUS
<1>11. req' = [req EXCEPT ![w] = r]
  BY <1>10 DEF PutOpen
<1>12. r.pc = "write" /\ r.key = k /\ r.rsp = Len(fetched) + 1 /\ r.entries = req[w].entries
  BY <1>0, <1>10 DEF TypeOK, RequestTypeOK, RequestOK
<1>13. EntriesNotNewer(r.entries, disk')
  <2>1. EntriesNotNewer(req[w].entries, disk) /\ DOMAIN req[w].entries \subseteq Keys
    BY <1>0 DEF InOrder, RequestOrdered, TypeOK, RequestTypeOK, RequestOK, EntryMap
  <2> QED
    BY <1>7, <1>12, <2>1, EntriesKept
<1>n. PICK n \in Nat : /\ n = Len(fetched) /\ DOMAIN fetched = 1..n
                      /\ DOMAIN fetched' = 1..(n + 1) /\ fetched'[n + 1] = k
                      /\ \A i \in 1..n : fetched'[i] = fetched[i]
  <2>1. fetched \in Seq(Keys) /\ fetched' = Append(fetched, k)
    BY <1>0 DEF TypeOK, PutOpen
  <2>2. Len(fetched) \in Nat /\ DOMAIN fetched = 1..Len(fetched)
    BY <2>1, LenProperties
  <2>3. /\ Append(fetched, k) \in Seq(Keys)
        /\ Len(Append(fetched, k)) = Len(fetched) + 1
        /\ \A i \in 1..Len(fetched) : Append(fetched, k)[i] = fetched[i]
        /\ Append(fetched, k)[Len(fetched) + 1] = k
    BY <2>1, AppendProperties
  <2>4. DOMAIN Append(fetched, k) = 1..(Len(fetched) + 1)
    BY <2>3, LenProperties
  <2> QED
    BY <2>1, <2>2, <2>3, <2>4
<1>14. Newest(r.rsp, Path[k], fetched')
  BY <1>12, <1>n DEF Newest
<1>15. RequestOrdered(w, r, disk', fetched')
  BY <1>1, <1>5, <1>6, <1>12, <1>13, <1>14 DEF RequestOrdered, StoreOrdered
<1>16. OthersKept(w)
  <2>1. SUFFICES ASSUME NEW v \in Workers, v # w, Storing(v)
                 PROVE  /\ KeptFile(disk, disk', Tmp(Path[req[v].key]))
                        /\ Newest(req[v].rsp, Path[req[v].key], fetched')
    BY DEF OthersKept
  <2>2. req'[v] = req[v] /\ req'[w] = r
    <3>1. RequestTypeOK
      BY <1>0 DEF TypeOK
    <3>2. \A u \in Workers : req'[u] = IF u = w THEN r ELSE req[u]
      BY <1>11, <3>1, RequestsAfter
    <3> QED
      BY <2>1, <3>2
  <2>3. Path[req[v].key] # Path[k]
    BY <1>12, <2>1, <2>2 DEF Calm, Storing
  <2>4. Tmp(Path[req[v].key]) # f
    BY <1>1, <2>3 DEF Tmp
  <2>5. Newest(req[v].rsp, Path[req[v].key], fetched)
    BY <2>1 DEF InOrder, RequestOrdered, StoreOrdered, Storing
  <2>6. \A i \in 1..(n + 1) : i \in 1..n \/ i = n + 1
    OBVIOUS
  <2>7. Newest(req[v].rsp, Path[req[v].key], fetched')
    BY <1>n, <2>3, <2>5, <2>6 DEF Newest
  <2> QED
    BY <1>5, <2>4, <2>7 DEF KeptFile
<1> QED
  BY <1>0, <1>7, <1>8, <1>9, <1>11, <1>15, <1>16, OrderStep

\* The only file put_cache has open is the temporary file of its key.
LEMMA OnlyTmpOpen ==
    ASSUME IInv, InOrder, NEW w \in Workers, req[w].pc = "write",
           NEW f \in Handles(w)
    PROVE  f = Tmp(Path[req[w].key]) /\ f[1] # MetaPath /\ disk[f].state = "empty"
<1>1. f \in DOMAIN disk /\ w \in disk[f].open
  BY DEF Handles
<1>2. req[w].key \in Keys /\ Path[req[w].key] \in Paths
  BY PathAssumption DEF IInv, TypeOK, RequestTypeOK, RequestOK
<1>3. f[1] = Path[req[w].key] /\ f[1] # MetaPath
  BY <1>1, <1>2, PathAssumption DEF IInv, HandlesOK
<1>4. f \in Files
  BY <1>1 DEF IInv, TypeOK, DiskTypeOK
<1>5. f = Tmp(f[1]) \/ f = Bin(f[1])
  BY <1>4 DEF Files, Tmp, Bin
<1>6. f # Bin(f[1])
  BY <1>1, <1>2, <1>3 DEF InOrder, BodiesOK, Exists
<1> QED
  BY <1>1, <1>3, <1>5, <1>6 DEF InOrder, RequestOrdered, StoreOrdered

\* put_cache writes its body, alone.
LEMMA PutWriteOrder ==
    ASSUME IInv, Calm, InOrder, NEW w \in Workers, PutWrite(w)
    PROVE  InOrder'
<1>0. TypeOK /\ req[w].pc = "write"
  BY DEF IInv, PutWrite
<1>1. PICK f : f = Tmp(Path[req[w].key])
  OBVIOUS
<1>2. \A g \in Handles(w) : g = f /\ g[1] # MetaPath /\ disk[g].state = "empty"
  BY <1>0, <1>1, OnlyTmpOpen
<1>3. disk' = Written(w, req[w].rsp, "whole")
  BY <1>2 DEF PutWrite
<1>4. /\ DOMAIN disk' = DOMAIN disk
      /\ \A g \in DOMAIN disk : g # f \/ g[1] = MetaPath => disk'[g] = disk[g]
  BY <1>2, <1>3 DEF Written
<1>5. \A p \in Paths : Bin(p) # f
  BY <1>1 DEF Bin, Tmp
<1>6. KeptBodies(disk, disk')
  BY <1>4, <1>5 DEF KeptBodies, KeptFile
<1>7. MetaFilesOK'
  BY <1>0, <1>4, <1>6, MetaKept
<1>8. EntriesNotNewer(cache', disk')
  <2>1. EntriesNotNewer(cache, disk) /\ cache' = cache /\ DOMAIN cache \subseteq Keys
    BY <1>0 DEF InOrder, PutWrite, TypeOK, EntryMap
  <2> QED
    BY <1>6, <2>1, EntriesKept
<1>9. PICK r : /\ req' = [req EXCEPT ![w] = r]
               /\ r.pc = "rename" /\ r.entries = req[w].entries /\ r.key = req[w].key
               /\ r.rsp = req[w].rsp
  BY <1>0, GotoRecord DEF PutWrite
<1>10. EntriesNotNewer(r.entries, disk')
  <2>1. EntriesNotNewer(req[w].entries, disk) /\ DOMAIN req[w].entries \subseteq Keys
    BY <1>0 DEF InOrder, RequestOrdered, TypeOK, RequestTypeOK, RequestOK, EntryMap
  <2> QED
    BY <1>6, <1>9, <2>1, EntriesKept
<1>11. f \in DOMAIN disk' => disk'[f].state = "whole" /\ disk'[f].data = req[w].rsp
  <2>1. SUFFICES ASSUME f \in DOMAIN disk
                 PROVE  disk'[f].state = "whole" /\ disk'[f].data = req[w].rsp
    BY <1>4
  <2>2. f \in Handles(w)
    BY <1>0, <1>1, <2>1 DEF InOrder, RequestOrdered, StoreOrdered, Handles
  <2> QED
    BY <1>3, <2>1, <2>2 DEF Written, File
<1>12. fetched' = fetched /\ Newest(req[w].rsp, Path[req[w].key], fetched)
  BY <1>0 DEF PutWrite, InOrder, RequestOrdered, StoreOrdered
<1>13. RequestOrdered(w, r, disk', fetched')
  BY <1>1, <1>9, <1>10, <1>11, <1>12 DEF RequestOrdered, StoreOrdered
<1>14. OthersKept(w)
  <2>1. \A q \in Paths : q # Path[req[w].key] => Tmp(q) # f
    BY <1>1 DEF Tmp
  <2>2. \A q \in Paths : q # Path[req[w].key] => KeptFile(disk, disk', Tmp(q))
    BY <1>4, <2>1 DEF KeptFile
  <2> QED
    BY <1>0, <1>12, <2>2, OtherPaths DEF Storing
<1> QED
  BY <1>0, <1>6, <1>7, <1>8, <1>9, <1>13, <1>14, OrderStep

\* put_cache publishes the newest response: nothing is newer.
LEMMA PutRenameOrder ==
    ASSUME IInv, IInv', Calm, InOrder, NEW w \in Workers, PutRename(w)
    PROVE  InOrder'
<1>0. TypeOK /\ req[w].pc = "rename" /\ cache' = cache /\ fetched' = fetched
  BY DEF IInv, PutRename
<1>1. PICK p : p = Path[req[w].key]
  OBVIOUS
<1>2. p \in Paths /\ req[w].key \in Keys
  BY <1>0, <1>1, PathAssumption DEF TypeOK, RequestTypeOK, RequestOK
<1>3. CASE ~Exists(Tmp(p))
  <2>1. disk' = disk /\ req' = Continue(w, <<>>)
    BY <1>1, <1>3 DEF PutRename
  <2>2. EntriesNotNewer(cache', disk) /\ TypeOK' /\ <<>> \in Seq({"store", "clean"})
    BY <1>0 DEF InOrder, IInv
  <2> QED
    BY <1>0, <2>1, <2>2, OrderContinue
<1>4. CASE Exists(Tmp(p))
  <2>1. disk' = Renamed(p) /\ req' = Goto(w, "insert")
    BY <1>1, <1>4 DEF PutRename
  <2>2. /\ DOMAIN disk' = (DOMAIN disk \ {Tmp(p)}) \cup {Bin(p)}
        /\ disk'[Bin(p)] = disk[Tmp(p)]
        /\ \A f \in DOMAIN disk' : f # Bin(p) => f \in DOMAIN disk /\ disk'[f] = disk[f]
    BY <2>1 DEF Renamed, With, Without, Restrict
  <2>3. PICK n \in Nat : n = req[w].rsp /\ Newest(n, p, fetched)
    BY <1>0, <1>1 DEF InOrder, RequestOrdered, StoreOrdered, TypeOK, RequestTypeOK, RequestOK
  <2>4. disk'[Bin(p)].state = "whole" /\ disk'[Bin(p)].data = n
    <3>1. disk[Tmp(p)].state = "whole" /\ disk[Tmp(p)].data = req[w].rsp
      BY <1>0, <1>1, <1>4 DEF InOrder, RequestOrdered, StoreOrdered, Exists
    <3> QED
      BY <2>2, <2>3, <3>1
  <2>5. disk'[Bin(p)].open = {}
    <3>1. SUFFICES ASSUME NEW v, v \in disk[Tmp(p)].open PROVE FALSE
      BY <2>2
    <3>2. Tmp(p) \in DOMAIN disk /\ Tmp(p)[1] = p /\ p # MetaPath
      BY <1>2, <1>4, PathAssumption DEF Exists, Tmp
    <3>3. v \in Workers /\ req[v].pc = "write" /\ Path[req[v].key] = p
      BY <3>1, <3>2 DEF IInv, TypeOK, DiskTypeOK, FileOK, HandlesOK
    <3> QED
      BY <1>0, <1>1, <3>3 DEF Calm, Storing
  <2>6. ASSUME NEW k \in Keys, NEW x, FetchedFor(x, k), NotNewer(x, k, disk)
        PROVE  NotNewer(x, k, disk')
    <3>1. x \in DOMAIN fetched /\ fetched[x] = k
      BY <2>6 DEF FetchedFor, Responses
    <3>2. CASE Path[k] = p
      BY <2>3, <2>4, <3>1, <3>2 DEF NotNewer, Newest
    <3>3. CASE Path[k] # p
      <4>1. Bin(Path[k]) # Bin(p)
        BY <3>3 DEF Bin
      <4> QED
        BY <2>2, <2>6, <4>1 DEF NotNewer
    <3> QED
      BY <3>2, <3>3
  <2>7. ASSUME NEW m, EntryMap(m), GoodEntries(m), EntriesNotNewer(m, disk)
        PROVE  EntriesNotNewer(m, disk')
    BY <2>6, <2>7 DEF EntriesNotNewer, EntryMap, GoodEntries
  <2>8. BodiesOK'
    <3>1. SUFFICES ASSUME NEW q \in Paths, Bin(q) \in DOMAIN disk'
                   PROVE  disk'[Bin(q)].state = "whole" /\ disk'[Bin(q)].open = {}
      BY DEF BodiesOK, Exists
    <3>2. CASE Bin(q) = Bin(p)
      BY <2>4, <2>5, <3>2
    <3>3. CASE Bin(q) # Bin(p)
      BY <2>2, <3>1, <3>3 DEF InOrder, BodiesOK, Exists
    <3> QED
      BY <3>2, <3>3
  <2>9. EntriesNotNewer(cache', disk')
    BY <1>0, <2>7 DEF InOrder, IInv, TypeOK
  <2>10. MetaFilesOK'
    <3>1. SUFFICES ASSUME NEW f \in DOMAIN disk', f[1] = MetaPath, disk'[f].state # "empty"
                   PROVE  EntriesNotNewer(disk'[f].data, disk')
      BY DEF MetaFilesOK
    <3>2. f # Bin(p)
      BY <1>2, <3>1, PathAssumption DEF Bin
    <3>3. f \in DOMAIN disk /\ disk'[f] = disk[f]
      BY <2>2, <3>2
    <3>4. EntryMap(disk[f].data) /\ GoodEntries(disk[f].data)
      BY <3>1, <3>3 DEF IInv, TypeOK, DiskTypeOK, FileOK, DiskOK, FileGood
    <3>5. EntriesNotNewer(disk[f].data, disk)
      BY <3>1, <3>3 DEF InOrder, MetaFilesOK
    <3> QED
      BY <2>7, <3>3, <3>4, <3>5
  <2>11. ASSUME NEW v \in Workers
         PROVE  RequestOrdered(v, req'[v], disk', fetched')
    <3>1. /\ RequestOK(req[v]) /\ RequestGood(req[v])
          /\ RequestOrdered(v, req[v], disk, fetched)
      BY DEF IInv, TypeOK, RequestTypeOK, RequestsOK, InOrder
    <3>2. EntriesNotNewer(req[v].entries, disk')
      BY <2>7, <3>1 DEF RequestOrdered, RequestOK, RequestGood
    <3>3. CASE v = w
      <4>1. PICK r : /\ req' = [req EXCEPT ![w] = r]
                     /\ r.pc = "insert" /\ r.entries = req[w].entries
                     /\ r.key = req[w].key /\ r.rsp = req[w].rsp
        BY <1>0, <2>1, GotoRecord
      <4>2. req'[v] = r
        BY <1>0, <3>3, <4>1 DEF TypeOK, RequestTypeOK
      <4>3. NotNewer(r.rsp, r.key, disk')
        BY <1>1, <2>3, <2>4, <4>1 DEF NotNewer
      <4> QED
        BY <1>0, <1>1, <2>3, <3>2, <3>3, <4>1, <4>2, <4>3 DEF RequestOrdered, StoreOrdered
    <3>4. CASE v # w
      <4>1. req'[v] = req[v]
        BY <1>0, <2>1, <3>4 DEF Goto, TypeOK, RequestTypeOK
      <4>2. req[v].pc = "present" => NotNewer(req[v].meta.rsp, req[v].key, disk')
        BY <2>6, <3>1 DEF RequestOrdered, RequestGood, RequestOK
      <4>3. StoreOrdered(v, req[v], disk', fetched')
        <5>1. CASE ~Storing(v)
          BY <5>1 DEF StoreOrdered, Storing
        <5>2. CASE Storing(v)
          <6>1. Path[req[v].key] # p
            BY <1>0, <1>1, <3>4, <5>2 DEF Calm, Storing
          <6>2. /\ Tmp(Path[req[v].key]) # Bin(p)
                /\ req[v].pc = "insert" => NotNewer(req[v].rsp, req[v].key, disk')
            <7>1. Bin(Path[req[v].key]) # Bin(p) /\ Tmp(Path[req[v].key]) # Bin(p)
              BY <6>1 DEF Bin, Tmp
            <7> QED
              BY <2>2, <3>1, <7>1 DEF RequestOrdered, StoreOrdered, NotNewer
          <6>3. StoreOrdered(v, req[v], disk, fetched)
            BY <3>1 DEF RequestOrdered
          <6> QED
            BY <1>0, <2>2, <5>2, <6>2, <6>3 DEF StoreOrdered
        <5> QED
          BY <5>1, <5>2
      <4> QED
        BY <3>2, <4>1, <4>2, <4>3 DEF RequestOrdered
    <3> QED
      BY <3>3, <3>4
  <2> QED
    BY <2>8, <2>9, <2>10, <2>11 DEF InOrder
<1> QED
  BY <1>3, <1>4

\* put_cache enters the response whose body it has published.
LEMMA PutInsertOrder ==
    ASSUME TypeOK, TypeOK', InOrder, NEW w \in Workers, PutInsert(w)
    PROVE  InOrder'
<1>1. PICK k, meta : k = req[w].key /\ meta = Metadata(req[w].rsp, now, now)
  OBVIOUS
<1>2. req[w].pc = "insert" /\ disk' = disk /\ fetched' = fetched
  BY DEF PutInsert
<1>3. NotNewer(meta.rsp, k, disk)
  BY <1>1, <1>2 DEF InOrder, RequestOrdered, StoreOrdered, Metadata
<1>4. /\ DOMAIN cache' \subseteq DOMAIN cache \cup {k}
      /\ \A j \in DOMAIN cache' : cache'[j] = IF j = k THEN meta ELSE cache[j]
  <2>1. \/ cache' = With(cache, k, meta)
        \/ \E old : cache' = With(Without(cache, {old}), k, meta)
    BY <1>1 DEF PutInsert
  <2>2. CASE cache' = With(cache, k, meta)
    BY <2>2 DEF With
  <2>3. CASE \E old : cache' = With(Without(cache, {old}), k, meta)
    BY <2>3 DEF With, Without, Restrict
  <2> QED
    BY <2>1, <2>2, <2>3
<1>5. EntriesNotNewer(cache', disk)
  BY <1>3, <1>4 DEF InOrder, EntriesNotNewer
<1>6. CASE req' = Continue(w, AfterInsert)
  BY <1>2, <1>5, <1>6, OrderContinue, TodoLists
<1>7. CASE \E old : req' = [req EXCEPT ![w].pc = "evict", ![w].victim = Path[old]]
  <2>1. PICK old : req' = [req EXCEPT ![w].pc = "evict", ![w].victim = Path[old]]
    BY <1>7
  <2>2. PICK r : r = [req[w] EXCEPT !.pc = "evict", !.victim = Path[old]]
    OBVIOUS
  <2>3. r.pc = "evict" /\ r.entries = req[w].entries
    BY <2>2 DEF TypeOK, RequestTypeOK, RequestOK
  <2>4. req' = [req EXCEPT ![w] = r]
    BY <2>1, <2>2
  <2> QED
    BY <1>2, <1>5, <2>3, <2>4, OrderGoto
<1> QED
  BY <1>6, <1>7 DEF PutInsert

\* put_cache.
LEMMA PutOrder ==
    ASSUME IInv, IInv', Calm, Calm', InOrder, NEW w \in Workers, Put(w)
    PROVE  InOrder'
<1>1. TypeOK /\ TypeOK' /\ EntriesNotNewer(cache, disk)
  BY DEF IInv, InOrder
<1>2. CASE PutEvict(w)
  <2>1. /\ req[w].pc # "idle" /\ req' = Continue(w, AfterEviction)
        /\ disk' = Without(disk, {Bin(req[w].victim)})
        /\ cache' = cache /\ fetched' = fetched
    BY <1>2 DEF PutEvict
  <2> QED
    BY <1>1, <2>1, OrderContinue, TodoLists
<1> QED
  BY <1>1, <1>2, PutOpenOrder, PutWriteOrder, PutRenameOrder, PutInsertOrder DEF Put

\* A task that returned or went on with its persistence work.
LEMMA ContinuedOrdered ==
    ASSUME TypeOK, NEW w \in Workers, req[w].pc # "idle", NEW todo \in Seq({"store", "clean"}),
           NEW d, NEW h
    PROVE  RequestOrdered(w, Continued(req[w], todo), d, h)
<1>1. PICK r : r = Continued(req[w], todo)
  OBVIOUS
<1>2. r.pc \in {"idle", "store", "clean"} /\ r.entries = EmptyMap
  BY <1>1, ContinuedAt DEF TypeOK, RequestTypeOK, RequestOK
<1>3. EntriesNotNewer(r.entries, d)
  BY <1>2 DEF EntriesNotNewer, EmptyMap
<1>4. RequestOrdered(w, r, d, h)
  BY <1>2, <1>3, QuietOrdered
<1> QED
  BY <1>1, <1>4

\* A step that copies entries, from the map or from the metadata file.
LEMMA OrderCopies ==
    ASSUME TypeOK, TypeOK', InOrder, NEW w \in Workers, NEW m, NEW l,
           EntriesNotNewer(m, disk), \A k \in DOMAIN l : k \in DOMAIN m /\ l[k].rsp = m[k].rsp,
           req' = [req EXCEPT ![w].pc = "meta_open", ![w].entries = l],
           NEW S, disk' = disk \/ disk' = Without(disk, S),
           fetched' = fetched, cache' = cache
    PROVE  InOrder'
<1>1. PICK r : r = [req[w] EXCEPT !.pc = "meta_open", !.entries = l]
  OBVIOUS
<1>2. r.pc = "meta_open" /\ r.entries = l
  BY <1>1 DEF TypeOK, RequestTypeOK, RequestOK
<1>3. req' = [req EXCEPT ![w] = r]
  BY <1>1
<1>4. EntriesNotNewer(l, disk)
  BY EntriesPart
<1>5. RequestOrdered(w, r, disk, fetched)
  BY <1>2, <1>4, QuietOrdered
<1>6. EntriesNotNewer(cache', disk)
  BY DEF InOrder
<1> QED
  BY <1>3, <1>5, <1>6, OrderShrinks

\* A step that changes nothing but metadata files.
LEMMA OrderMeta ==
    ASSUME TypeOK, InOrder, NEW w \in Workers, NEW r, req' = [req EXCEPT ![w] = r],
           KeptBodies(disk, disk'), KeptTmps(disk, disk'), fetched' = fetched, cache' = cache,
           MetaFilesOK', RequestOrdered(w, r, disk', fetched')
    PROVE  InOrder'
<1>1. EntriesNotNewer(cache, disk) /\ DOMAIN cache \subseteq Keys
  BY DEF InOrder, TypeOK, EntryMap
<1>2. EntriesNotNewer(cache', disk')
  BY <1>1, EntriesKept
<1> QED
  BY <1>2, OrderStep, QuietOthers

\* The names of the metadata file are not names of body files.
LEMMA MetaNames ==
    /\ \A p \in Paths : /\ Bin(p) # Bin(MetaPath) /\ Bin(p) # Tmp(MetaPath)
                        /\ Tmp(p) # Bin(MetaPath) /\ Tmp(p) # Tmp(MetaPath)
                        /\ Bin(p)[1] # MetaPath /\ Tmp(p)[1] # MetaPath
    /\ Bin(MetaPath)[1] = MetaPath /\ Tmp(MetaPath)[1] = MetaPath
  BY PathAssumption DEF Bin, Tmp

\* write_metadata serializes its entries and opens its temporary file.
LEMMA MetaOpenOrder ==
    ASSUME IInv, InOrder, NEW w \in Workers, MetaOpen(w)
    PROVE  InOrder'
<1>0. TypeOK /\ DiskTypeOK /\ cache' = cache /\ fetched' = fetched
  BY DEF IInv, TypeOK, MetaOpen
<1>1. PICK f : f = Tmp(MetaPath)
  OBVIOUS
<1>2. f \in Files /\ disk' = Opened(w, f)
  BY <1>1 DEF MetaOpen, Files, Tmp
<1>3. /\ disk'[f].state = "empty"
      /\ \A g \in DOMAIN disk' : g # f => g \in DOMAIN disk /\ disk'[g] = disk[g]
  BY <1>0, <1>2, OpenedDisk
<1>4. KeptBodies(disk, disk') /\ KeptTmps(disk, disk')
  BY <1>1, <1>3, MetaNames DEF KeptBodies, KeptTmps, KeptFile
<1>5. MetaFilesOK'
  BY <1>0, <1>3, <1>4, MetaKept
<1>6. PICK r : r = [req[w] EXCEPT !.pc = "meta_write", !.entries = Serialize(req[w].entries)]
  OBVIOUS
<1>7. r.pc = "meta_write" /\ r.entries = Serialize(req[w].entries)
  BY <1>0, <1>6 DEF TypeOK, RequestTypeOK, RequestOK
<1>8. req' = [req EXCEPT ![w] = r]
  BY <1>6 DEF MetaOpen
<1>9. EntriesNotNewer(req[w].entries, disk) /\ DOMAIN req[w].entries \subseteq Keys
  BY <1>0 DEF InOrder, RequestOrdered, TypeOK, RequestTypeOK, RequestOK, EntryMap
<1>10. /\ DOMAIN r.entries \subseteq Keys
       /\ \A k \in DOMAIN r.entries :
             k \in DOMAIN req[w].entries /\ r.entries[k].rsp = req[w].entries[k].rsp
  BY <1>7, <1>9 DEF Serialize, Metadata
<1>11. EntriesNotNewer(r.entries, disk)
  BY <1>9, <1>10, EntriesPart
<1>12. EntriesNotNewer(r.entries, disk')
  BY <1>4, <1>10, <1>11, EntriesKept
<1>13. RequestOrdered(w, r, disk', fetched')
  BY <1>7, <1>12, QuietOrdered
<1> QED
  BY <1>0, <1>4, <1>5, <1>8, <1>13, OrderMeta

\* write_metadata writes its entries.
LEMMA MetaWriteOrder ==
    ASSUME IInv, InOrder, NEW w \in Workers, MetaWrite(w)
    PROVE  InOrder'
<1>0. TypeOK /\ req[w].pc = "meta_write" /\ cache' = cache /\ fetched' = fetched
  BY DEF IInv, MetaWrite
<1>1. disk' = Written(w, req[w].entries, "whole")
  BY DEF MetaWrite
<1>2. \A f \in Handles(w) : f[1] = MetaPath
  BY <1>0 DEF IInv, HandlesOK, Handles
<1>3. /\ DOMAIN disk' = DOMAIN disk
      /\ \A f \in DOMAIN disk : f \in Handles(w) => disk'[f].data = req[w].entries
      /\ \A f \in DOMAIN disk : f \notin Handles(w) => disk'[f] = disk[f]
  BY <1>1 DEF Written, File
<1>4. KeptBodies(disk, disk') /\ KeptTmps(disk, disk')
  BY <1>2, <1>3, MetaNames DEF KeptBodies, KeptTmps, KeptFile
<1>5. EntriesNotNewer(req[w].entries, disk) /\ DOMAIN req[w].entries \subseteq Keys
  BY <1>0 DEF InOrder, RequestOrdered, TypeOK, RequestTypeOK, RequestOK, EntryMap
<1>6. EntriesNotNewer(req[w].entries, disk')
  BY <1>4, <1>5, EntriesKept
<1>7. MetaFilesOK'
  <2>1. SUFFICES ASSUME NEW f \in DOMAIN disk', f[1] = MetaPath, disk'[f].state # "empty"
                 PROVE  EntriesNotNewer(disk'[f].data, disk')
    BY DEF MetaFilesOK
  <2>2. CASE f \in Handles(w)
    BY <1>3, <1>6, <2>2
  <2>3. CASE f \notin Handles(w)
    <3>1. f \in DOMAIN disk /\ disk'[f] = disk[f]
      BY <1>3, <2>3
    <3>2. DOMAIN disk[f].data \subseteq Keys /\ EntriesNotNewer(disk[f].data, disk)
      BY <1>0, <2>1, <3>1 DEF TypeOK, DiskTypeOK, FileOK, EntryMap, InOrder, MetaFilesOK
    <3> QED
      BY <1>4, <3>1, <3>2, EntriesKept
  <2> QED
    BY <2>2, <2>3
<1>8. PICK r : /\ req' = [req EXCEPT ![w] = r]
               /\ r.pc = "meta_rename" /\ r.entries = req[w].entries
  BY <1>0, GotoRecord DEF MetaWrite
<1>9. RequestOrdered(w, r, disk', fetched')
  BY <1>6, <1>8, QuietOrdered
<1> QED
  BY <1>0, <1>4, <1>7, <1>8, <1>9, OrderMeta

\* write_metadata publishes its file, if nobody else did.
LEMMA MetaRenameOrder ==
    ASSUME IInv, InOrder, NEW w \in Workers, MetaRename(w)
    PROVE  InOrder'
<1>0. /\ TypeOK /\ req[w].pc # "idle" /\ cache' = cache /\ fetched' = fetched
      /\ req[w].todo \in Seq({"store", "clean"})
  BY DEF IInv, TypeOK, RequestTypeOK, RequestOK, MetaRename
<1>1. \A f \in DOMAIN disk' :
         /\ f # Bin(MetaPath) => f \in DOMAIN disk /\ disk'[f] = disk[f]
         /\ f = Bin(MetaPath) =>
               \E g \in {Bin(MetaPath), Tmp(MetaPath)} : g \in DOMAIN disk /\ disk'[f] = disk[g]
  <2>1. CASE Exists(Tmp(MetaPath))
    <3>1. disk' = Renamed(MetaPath) /\ Tmp(MetaPath) \in DOMAIN disk
      BY <2>1 DEF MetaRename, Exists
    <3> QED
      BY <3>1 DEF Renamed, With, Without, Restrict
  <2>2. CASE ~Exists(Tmp(MetaPath))
    BY <2>2 DEF MetaRename
  <2> QED
    BY <2>1, <2>2
<1>2. KeptBodies(disk, disk') /\ KeptTmps(disk, disk')
  BY <1>1, MetaNames DEF KeptBodies, KeptTmps, KeptFile
<1>3. \A f \in DOMAIN disk' : f[1] = MetaPath =>
         \E g \in DOMAIN disk : g[1] = MetaPath /\ disk'[f] = disk[g]
  BY <1>1, MetaNames
<1>4. MetaFilesOK'
  BY <1>0, <1>2, <1>3, MetaKept
<1>5. PICK r : r = Continued(req[w], req[w].todo)
  OBVIOUS
<1>6. req' = [req EXCEPT ![w] = r]
  BY <1>5 DEF MetaRename, Continue
<1>7. RequestOrdered(w, r, disk', fetched')
  BY <1>0, <1>5, ContinuedOrdered
<1> QED
  BY <1>0, <1>2, <1>4, <1>6, <1>7, OrderMeta

\* A step in the scan of the shard directory.
LEMMA ScanOrder ==
    ASSUME TypeOK, TypeOK', InOrder, NEW w \in Workers, req[w].pc = "clean_delete",
           NEW p, req' = Scanned(w, p), NEW S, disk' = disk \/ disk' = Without(disk, S),
           fetched' = fetched, cache' = cache
    PROVE  InOrder'
<1>1. PICK r, pc, ps : /\ r = [req[w] EXCEPT !.pc = pc, !.paths = ps]
                       /\ req' = [req EXCEPT ![w] = r]
                       /\ pc \in {"clean_delete", "meta_open"}
  BY ScannedRequest
<1>2. r.pc = pc /\ r.entries = req[w].entries
  BY <1>1 DEF TypeOK, RequestTypeOK, RequestOK
<1>3. EntriesNotNewer(cache', disk)
  BY DEF InOrder
<1> QED
  BY <1>1, <1>2, <1>3, OrderGoto

\* Persistence, as a whole.
LEMMA PersistOrder ==
    ASSUME IInv, IInv', InOrder, NEW w \in Workers, Persist(w)
    PROVE  InOrder'
<1>0. /\ TypeOK /\ TypeOK' /\ EntriesNotNewer(cache, disk)
      /\ req[w].todo \in Seq({"store", "clean"})
  BY DEF IInv, InOrder, TypeOK, RequestTypeOK, RequestOK
<1>1. CASE Store(w)
  <2>1. PICK stale : /\ disk' = Without(disk, {Bin(Path[k]) : k \in stale})
                     /\ req' = [req EXCEPT ![w].pc = "meta_open",
                                           ![w].entries = Without(cache, stale)]
    BY <1>1 DEF Store
  <2>2. cache' = cache /\ fetched' = fetched
    BY <1>1 DEF Store
  <2>3. PICK l : l = Without(cache, stale)
    OBVIOUS
  <2>4. \A k \in DOMAIN l : k \in DOMAIN cache /\ l[k].rsp = cache[k].rsp
    BY <2>3 DEF Without, Restrict
  <2>5. req' = [req EXCEPT ![w].pc = "meta_open", ![w].entries = l]
    BY <2>1, <2>3
  <2>6. PICK S : disk' = Without(disk, S)
    BY <2>1
  <2> QED
    BY <1>0, <2>2, <2>4, <2>5, <2>6, OrderCopies
<1>2. CASE Clean(w)
  <2>1. /\ disk' = disk /\ cache' = cache /\ fetched' = fetched /\ req[w].pc # "idle"
    BY <1>2 DEF Clean
  <2>2. CASE req' = Continue(w, req[w].todo)
    BY <1>0, <2>1, <2>2, OrderContinue
  <2>3. CASE \E V : req' = [req EXCEPT ![w].pc = "clean_shard", ![w].paths = V]
    <3>1. PICK V : req' = [req EXCEPT ![w].pc = "clean_shard", ![w].paths = V]
      BY <2>3
    <3>2. PICK r : r = [req[w] EXCEPT !.pc = "clean_shard", !.paths = V]
      OBVIOUS
    <3>3. r.pc = "clean_shard" /\ r.entries = req[w].entries
      BY <1>0, <3>2 DEF TypeOK, RequestTypeOK, RequestOK
    <3>4. req' = [req EXCEPT ![w] = r]
      BY <3>1, <3>2
    <3> QED
      BY <1>0, <2>1, <3>3, <3>4, OrderGoto
  <2> QED
    BY <1>2, <2>2, <2>3 DEF Clean
<1>3. CASE CleanRead(w)
  <2>1. /\ cache' = cache /\ disk' = disk /\ fetched' = fetched /\ req[w].pc # "idle"
    BY <1>3 DEF CleanRead
  <2>2. CASE req' = Continue(w, req[w].todo)
    BY <1>0, <2>1, <2>2, OrderContinue
  <2>3. PICK f : f = Bin(MetaPath)
    OBVIOUS
  <2>4. ASSUME f \in DOMAIN disk, disk[f].state = "whole", NEW S, NEW r, NEW pc, NEW ps,
               r = [req[w] EXCEPT !.pc = pc, !.paths = ps, !.entries = Restrict(disk[f].data, S)],
               req' = [req EXCEPT ![w] = r], pc \in {"clean_delete", "meta_open"},
               S \subseteq DOMAIN disk[f].data
        PROVE  InOrder'
    <3>1. EntriesNotNewer(disk[f].data, disk)
      BY <2>3, <2>4, MetaNames DEF InOrder, MetaFilesOK
    <3>2. PICK l : l = Restrict(disk[f].data, S)
      OBVIOUS
    <3>3. \A k \in DOMAIN l : k \in DOMAIN disk[f].data /\ l[k].rsp = disk[f].data[k].rsp
      BY <2>4, <3>2 DEF Restrict
    <3>4. EntriesNotNewer(l, disk)
      BY <3>1, <3>3, EntriesPart
    <3>5. r.pc = pc /\ r.entries = l
      BY <1>0, <2>4, <3>2 DEF TypeOK, RequestTypeOK, RequestOK
    <3>6. RequestOrdered(w, r, disk, fetched)
      BY <2>4, <3>4, <3>5, QuietOrdered
    <3> QED
      BY <1>0, <2>1, <2>4, <3>6, OrderShrinks
  <2> QED
    BY <1>0, <1>3, <2>2, <2>3, <2>4, CleanReads
<1>4. CASE CleanDelete(w)
  <2>1. PICK p : disk' = Without(disk, {Bin(p)}) /\ req' = Scanned(w, p)
    BY <1>4 DEF CleanDelete
  <2>2. cache' = cache /\ fetched' = fetched /\ req[w].pc = "clean_delete"
    BY <1>4 DEF CleanDelete
  <2> QED
    BY <1>0, <2>1, <2>2, ScanOrder
<1> QED
  BY <1>1, <1>2, <1>3, <1>4, MetaOpenOrder, MetaWriteOrder, MetaRenameOrder DEF Persist

\* Closing the handles of a task, or of all, changes no body.
LEMMA ClosedKept ==
    ASSUME IInv, InOrder, NEW C,
           disk' = [f \in DOMAIN disk |-> [disk[f] EXCEPT !.open = @ \ C]]
    PROVE  /\ KeptBodies(disk, disk') /\ MetaFilesOK'
           /\ (\A w \in C \cap Workers : req[w].pc # "write") => KeptTmps(disk, disk')
<1>1. /\ DOMAIN disk' = DOMAIN disk
      /\ \A f \in DOMAIN disk : /\ disk'[f].state = disk[f].state
                                /\ disk'[f].data = disk[f].data
                                /\ disk'[f].open = disk[f].open \ C
  BY DEF IInv, TypeOK, DiskTypeOK, FileOK
<1>2. KeptBodies(disk, disk')
  BY <1>1 DEF KeptBodies, KeptFile, InOrder, BodiesOK, Exists
<1>3. MetaFilesOK'
  BY <1>1, <1>2, MetaKept DEF IInv
<1>4. ASSUME \A w \in C \cap Workers : req[w].pc # "write"
      PROVE  KeptTmps(disk, disk')
  <2>1. SUFFICES ASSUME NEW p \in Paths, Tmp(p) \in DOMAIN disk
                 PROVE  disk[Tmp(p)].open \ C = disk[Tmp(p)].open
    BY <1>1 DEF KeptTmps, KeptFile
  <2>2. \A v \in disk[Tmp(p)].open : v \in Workers /\ req[v].pc = "write"
    BY <2>1, MetaNames DEF IInv, TypeOK, DiskTypeOK, FileOK, HandlesOK
  <2> QED
    BY <1>4, <2>2
<1> QED
  BY <1>2, <1>3, <1>4

\* Failing calls.
LEMMA IoErrorOrder ==
    ASSUME IInv, IInv', Calm, InOrder, NEW w \in Workers, IoError(w)
    PROVE  InOrder'
<1>0. /\ TypeOK /\ TypeOK' /\ EntriesNotNewer(cache, disk)
      /\ DOMAIN cache \subseteq Keys
      /\ req[w].todo \in Seq({"store", "clean"})
      /\ cache' = cache /\ fetched' = fetched /\ req[w].pc # "idle"
  BY DEF IInv, InOrder, TypeOK, EntryMap, RequestTypeOK, RequestOK, IoError
<1>1. ASSUME NEW todo \in Seq({"store", "clean"}), req' = Continue(w, todo),
             disk' = Closed(w)
      PROVE  InOrder'
  <2>1. disk' = [f \in DOMAIN disk |-> [disk[f] EXCEPT !.open = @ \ {w}]]
    BY <1>1 DEF Closed
  <2>2. /\ KeptBodies(disk, disk') /\ MetaFilesOK'
        /\ (\A v \in {w} \cap Workers : req[v].pc # "write") => KeptTmps(disk, disk')
    BY <2>1, ClosedKept
  <2>3. OthersKept(w)
    <3>1. CASE req[w].pc = "write"
      <4>1. \A q \in Paths : q # Path[req[w].key] => KeptFile(disk, disk', Tmp(q))
        <5>1. SUFFICES ASSUME NEW q \in Paths, q # Path[req[w].key], Tmp(q) \in DOMAIN disk
                       PROVE  KeptFile(disk, disk', Tmp(q))
          BY <2>1 DEF KeptFile
        <5>2. w \notin disk[Tmp(q)].open
          BY <5>1, MetaNames DEF IInv, HandlesOK, Tmp
        <5>3. FileOK(Tmp(q), disk[Tmp(q)])
          BY <1>0, <5>1 DEF TypeOK, DiskTypeOK
        <5>4. PICK g : g = Tmp(q)
          OBVIOUS
        <5>5. disk'[g] = [disk[g] EXCEPT !.open = disk[g].open \ {w}]
          BY <2>1, <5>1, <5>4
        <5>6. /\ disk'[g].state = disk[g].state /\ disk'[g].data = disk[g].data
              /\ disk'[g].open = disk[g].open \ {w}
          BY <5>3, <5>4, <5>5 DEF FileOK
        <5>7. disk[g].open \ {w} = disk[g].open
          BY <5>2, <5>4
        <5> QED
          BY <5>1, <5>4, <5>6, <5>7 DEF KeptFile
      <4> QED
        BY <1>0, <3>1, <4>1, OtherPaths DEF Storing
    <3>2. CASE req[w].pc # "write"
      BY <1>0, <2>2, <3>2, QuietOthers
    <3> QED
      BY <3>1, <3>2
  <2>4. EntriesNotNewer(cache', disk')
    BY <1>0, <2>2, EntriesKept
  <2>5. PICK r : r = Continued(req[w], todo)
    OBVIOUS
  <2>6. req' = [req EXCEPT ![w] = r]
    BY <1>1, <2>5 DEF Continue
  <2>7. RequestOrdered(w, r, disk', fetched')
    BY <1>0, <2>5, ContinuedOrdered
  <2> QED
    BY <1>0, <2>2, <2>3, <2>4, <2>6, <2>7, OrderStep
<1>2. ASSUME NEW todo \in Seq({"store", "clean"}), req' = Continue(w, todo),
             NEW S, disk' = disk \/ disk' = Without(disk, S)
      PROVE  InOrder'
  BY <1>0, <1>2, OrderContinue
<1>3. CASE disk' = disk /\ req' = Goto(w, "missing")
  <2>1. PICK r : /\ req' = [req EXCEPT ![w] = r]
                 /\ r.pc = "missing" /\ r.entries = req[w].entries
    BY <1>0, <1>3, GotoRecord
  <2> QED
    BY <1>0, <1>3, <2>1, OrderGoto
<1>4. <<>> \in Seq({"store", "clean"})
  OBVIOUS
<1>5. \/ \E todo \in Seq({"store", "clean"}) : req' = Continue(w, todo) /\ disk' = Closed(w)
      \/ \E todo \in Seq({"store", "clean"}) :
            req' = Continue(w, todo) /\ \E S : disk' = disk \/ disk' = Without(disk, S)
      \/ disk' = disk /\ req' = Goto(w, "missing")
      \/ req[w].pc = "clean_delete" /\ disk' = disk /\ \E p : req' = Scanned(w, p)
  BY <1>0, <1>4, TodoLists DEF IoError, AfterFailedWrite
<1>6. CASE req[w].pc = "clean_delete" /\ disk' = disk /\ \E p : req' = Scanned(w, p)
  BY <1>0, <1>6, ScanOrder
<1> QED
  BY <1>1, <1>2, <1>3, <1>5, <1>6

\* A step of the process that leaves the tasks alone.
LEMMA ProcessOrder ==
    ASSUME TypeOK, InOrder, req' = req, fetched' = fetched,
           KeptBodies(disk, disk'), KeptTmps(disk, disk'),
           EntriesNotNewer(cache', disk'), MetaFilesOK'
    PROVE  InOrder'
<1>1. ASSUME NEW v \in Workers
      PROVE  RequestOrdered(v, req'[v], disk', fetched')
  <2>1. RequestOK(req[v]) /\ RequestOrdered(v, req[v], disk, fetched)
    BY DEF TypeOK, RequestTypeOK, InOrder
  <2>2. req[v].pc \in {"write", "rename", "insert"} =>
           /\ KeptFile(disk, disk', Tmp(Path[req[v].key]))
           /\ Newest(req[v].rsp, Path[req[v].key], fetched')
    <3>1. req[v].pc \in {"write", "rename", "insert"} => Path[req[v].key] \in Paths
      BY <2>1, PathAssumption DEF RequestOK
    <3> QED
      BY <2>1, <3>1 DEF KeptTmps, RequestOrdered, StoreOrdered
  <2> QED
    BY <2>1, <2>2, RequestKept
<1>2. BodiesOK'
  BY DEF InOrder, BodiesOK, Exists, KeptBodies, KeptFile
<1> QED
  BY <1>1, <1>2 DEF InOrder

\* One that at most deletes files, too.
LEMMA ProcessShrinks ==
    ASSUME TypeOK, InOrder, req' = req, fetched' = fetched,
           NEW S, disk' = disk \/ disk' = Without(disk, S),
           EntriesNotNewer(cache', disk), DOMAIN cache' \subseteq Keys
    PROVE  InOrder'
<1>1. /\ KeptBodies(disk, disk') /\ KeptTmps(disk, disk')
      /\ \A f \in DOMAIN disk' : f \in DOMAIN disk /\ disk'[f] = disk[f]
  BY ShrinkKept
<1>2. EntriesNotNewer(cache', disk')
  BY <1>1, EntriesKept
<1>3. MetaFilesOK'
  BY <1>1, MetaKept
<1> QED
  BY <1>1, <1>2, <1>3, ProcessOrder

\* load.
LEMMA ServeBasicOrder ==
    ASSUME TypeOK, TypeOK', InOrder, ServeBasic
    PROVE  InOrder'
<1>1. req' = req /\ fetched' = fetched /\ DOMAIN cache' \subseteq Keys
  BY DEF ServeBasic, TypeOK, EntryMap
<1>2. PICK S : disk' = Without(disk, S)
  BY DEF ServeBasic, Load
<1>3. PICK f : f = Bin(MetaPath)
  OBVIOUS
<1>4. CASE Exists(f) /\ disk[f].state = "whole"
  <2>1. PICK m : m = disk[f].data
    OBVIOUS
  <2>2. EntriesNotNewer(m, disk)
    BY <1>3, <1>4, <2>1, MetaNames DEF InOrder, MetaFilesOK, Exists
  <2>3. \A k \in DOMAIN cache' : k \in DOMAIN m /\ cache'[k].rsp = m[k].rsp
    BY <1>3, <1>4, <2>1 DEF ServeBasic, Load, Restrict
  <2>4. EntriesNotNewer(cache', disk)
    BY <2>2, <2>3, EntriesPart
  <2> QED
    BY <1>1, <1>2, <2>4, ProcessShrinks
<1>5. CASE ~(Exists(f) /\ disk[f].state = "whole")
  <2>1. DOMAIN cache' \subseteq DOMAIN EmptyMap
    BY <1>3, <1>5 DEF ServeBasic, Load, Restrict
  <2>2. EntriesNotNewer(cache', disk)
    BY <2>1 DEF EntriesNotNewer, EmptyMap
  <2> QED
    BY <1>1, <1>2, <2>2, ProcessShrinks
<1> QED
  BY <1>4, <1>5

\* The initial store of a VHost proxy.
LEMMA InitialStoreOrder ==
    ASSUME TypeOK, InOrder, InitialStore
    PROVE  InOrder'
<1>1. req' = req /\ fetched' = fetched /\ cache' = cache
      /\ EntriesNotNewer(cache, disk) /\ DOMAIN cache \subseteq Keys
  BY DEF InitialStore, InOrder, TypeOK, EntryMap
<1>2. PICK f : f = Bin(MetaPath)
  OBVIOUS
<1>3. /\ disk'[f].data = EmptyMap
      /\ \A g \in DOMAIN disk' : g # f => g \in DOMAIN disk /\ disk'[g] = disk[g]
  BY <1>2 DEF InitialStore, With, File
<1>4. KeptBodies(disk, disk') /\ KeptTmps(disk, disk')
  BY <1>2, <1>3, MetaNames DEF KeptBodies, KeptTmps, KeptFile
<1>5. EntriesNotNewer(cache', disk')
  BY <1>1, <1>4, EntriesKept
<1>6. MetaFilesOK'
  <2>1. SUFFICES ASSUME NEW g \in DOMAIN disk', g[1] = MetaPath, disk'[g].state # "empty"
                 PROVE  EntriesNotNewer(disk'[g].data, disk')
    BY DEF MetaFilesOK
  <2>2. CASE g = f
    BY <1>3, <2>2 DEF EntriesNotNewer, EmptyMap
  <2>3. CASE g # f
    <3>1. g \in DOMAIN disk /\ disk'[g] = disk[g]
      BY <1>3, <2>3
    <3>2. DOMAIN disk[g].data \subseteq Keys /\ EntriesNotNewer(disk[g].data, disk)
      BY <2>1, <3>1 DEF TypeOK, DiskTypeOK, FileOK, EntryMap, InOrder, MetaFilesOK
    <3> QED
      BY <1>4, <3>1, <3>2, EntriesKept
  <2> QED
    BY <2>2, <2>3
<1> QED
  BY <1>1, <1>4, <1>5, <1>6, ProcessOrder

\* A crash forgets tasks and handles.
LEMMA CrashOrder ==
    ASSUME IInv, InOrder, Crash
    PROVE  InOrder'
<1>1. cache' = EmptyMap /\ \A w \in Workers : req'[w] = Idle
  BY DEF Crash
<1>2. disk' = [f \in DOMAIN disk |-> [disk[f] EXCEPT !.open = @ \ Workers]]
  <2>1. \A f \in DOMAIN disk : disk[f].open \ Workers = {}
    BY DEF IInv, TypeOK, DiskTypeOK, FileOK
  <2> QED
    BY <2>1 DEF Crash
<1>3. KeptBodies(disk, disk') /\ MetaFilesOK'
  BY <1>2, ClosedKept
<1>4. BodiesOK'
  BY <1>3 DEF InOrder, BodiesOK, Exists, KeptBodies, KeptFile
<1>5. EntriesNotNewer(cache', disk')
  BY <1>1 DEF EntriesNotNewer, EmptyMap
<1>6. Idle.pc = "idle" /\ EntriesNotNewer(Idle.entries, disk')
  BY DEF Idle, EntriesNotNewer, EmptyMap
<1>7. \A w \in Workers : RequestOrdered(w, req'[w], disk', fetched')
  BY <1>1, <1>6, QuietOrdered
<1> QED
  BY <1>3, <1>4, <1>5, <1>7 DEF InOrder

\* From calm to calm, no step shows an entry newer than its body.
LEMMA NextOrder == IInv /\ IInv' /\ Calm /\ Calm' /\ InOrder /\ [Next]_vars => InOrder'
<1> SUFFICES ASSUME IInv, IInv', Calm, Calm', InOrder, [Next]_vars PROVE InOrder'
  OBVIOUS
<1>0. /\ TypeOK /\ TypeOK' /\ EntriesNotNewer(cache, disk) /\ DOMAIN cache \subseteq Keys
      /\ \A w \in Getters \cup Putters : w \in Workers
  BY DEF IInv, InOrder, TypeOK, EntryMap, Workers
<1>1. ASSUME NEW w \in Getters, Get(w) PROVE InOrder'
  BY <1>0, <1>1, GetOrder
<1>2. ASSUME NEW w \in Putters, Put(w) PROVE InOrder'
  BY <1>0, <1>2, PutOrder
<1>3. ASSUME NEW w \in Workers, Persist(w) \/ IoError(w) PROVE InOrder'
  BY <1>3, PersistOrder, IoErrorOrder
<1>4. CASE OrphanedFilesCleanup \/ ServeVHost \/ Tick \/ UNCHANGED vars
  <2>1. /\ req' = req /\ fetched' = fetched /\ cache' = cache
        /\ \E S : disk' = disk \/ disk' = Without(disk, S)
    BY <1>4 DEF OrphanedFilesCleanup, ServeVHost, Tick, vars
  <2> QED
    BY <1>0, <2>1, ProcessShrinks
<1> QED
  BY <1>0, <1>1, <1>2, <1>3, <1>4, ServeBasicOrder, InitialStoreOrder, CrashOrder DEF Next

-----------------------------------------------------------------------------
(* The promise of ResponseCache.                                           *)

\* No task comes by a hit.
NoNewHit == \A v \in Workers : req'[v] = req[v] \/ req'[v].pc # "hit"

\* A step of one task that ends elsewhere.
LEMMA MovedElsewhere ==
    ASSUME TypeOK, NEW w \in Workers, NEW r, req' = [req EXCEPT ![w] = r], r.pc # "hit"
    PROVE  NoNewHit
  BY RequestsAfter DEF TypeOK, NoNewHit

\* A task that goes on or returns.
LEMMA ContinuesElsewhere ==
    ASSUME TypeOK, NEW w \in Workers, req[w].pc # "idle", NEW todo \in Seq({"store", "clean"}),
           req' = Continue(w, todo)
    PROVE  NoNewHit
<1>1. PICK r : r = Continued(req[w], todo)
  OBVIOUS
<1>2. r.pc # "hit"
  BY <1>1, ContinuedAt DEF TypeOK, RequestTypeOK, RequestOK
<1>3. req' = [req EXCEPT ![w] = r]
  BY <1>1 DEF Continue
<1> QED
  BY <1>2, <1>3, MovedElsewhere

\* A task that changes its place.
LEMMA GoesElsewhere ==
    ASSUME TypeOK, NEW w \in Workers, NEW pc, pc # "hit", req' = Goto(w, pc)
    PROVE  NoNewHit
<1>1. PICK r : req' = [req EXCEPT ![w] = r] /\ r.pc = pc
  BY GotoRecord
<1> QED
  BY <1>1, MovedElsewhere

\* Then at most some hits are taken.
LEMMA ForgetStep ==
    ASSUME NoNewHit, fetched' = fetched
    PROVE  Promise!Forget
<1>1. \A v \in Workers : Shown(v)' = Shown(v) \/ Shown(v)' = None
  BY DEF NoNewHit, Shown
<1>2. PICK S \in SUBSET Workers : \A v \in Workers : v \in S <=> Shown(v)' = None
  <2>1. {v \in Workers : Shown(v)' = None} \in SUBSET Workers
    OBVIOUS
  <2> QED
    BY <2>1
<1>3. [w \in Workers |-> Shown(w)]' =
        [w \in Workers |-> IF w \in S THEN None ELSE [v \in Workers |-> Shown(v)][w]]
  BY <1>1, <1>2
<1> QED
  BY <1>3 DEF Promise!Forget

\* put_cache fetches.
LEMMA FetchStep ==
    ASSUME TypeOK, NEW w \in Workers, NEW k \in Keys, PutOpen(w, k)
    PROVE  Promise!Fetch(k)
<1>1. PICK r : r = [req[w] EXCEPT !.pc = "write", !.key = k, !.rsp = Len(fetched) + 1]
  OBVIOUS
<1>2. r.pc = "write" /\ req' = [req EXCEPT ![w] = r]
  BY <1>1 DEF PutOpen, TypeOK, RequestTypeOK, RequestOK
<1>3. \A v \in Workers : req'[v] = IF v = w THEN r ELSE req[v]
  BY <1>2, RequestsAfter DEF TypeOK
<1>4. \A v \in Workers : Shown(v)' = Shown(v)
  BY <1>2, <1>3 DEF Shown, PutOpen
<1>5. [v \in Workers |-> Shown(v)]' = [v \in Workers |-> Shown(v)]
  BY <1>4
<1>6. fetched' = Append(fetched, k)
  BY DEF PutOpen
<1> QED
  BY <1>5, <1>6 DEF Promise!Fetch

\* get_cache reads a body: a hit with headers and a body of the key, the body
\* complete and not older.
LEMMA HitStep ==
    ASSUME IInv, Calm, InOrder, NEW w \in Workers, req[w].pc = "present",
           NEW f, f = Bin(Path[req[w].key]), Exists(f), fetched' = fetched,
           req' = [req EXCEPT ![w].pc = "hit",
                              ![w].body = [state |-> disk[f].state, rsp |-> disk[f].data]]
    PROVE  \E k \in Keys, h, b \in DOMAIN fetched : Promise!Hit(w, k, h, b)
<1>0. TypeOK
  BY DEF IInv
<1>1. PICK k, h, b : k = req[w].key /\ h = req[w].meta.rsp /\ b = disk[f].data
  OBVIOUS
<1>2. k \in Keys /\ Path[k] \in Paths /\ f[1] = Path[k] /\ f[1] # MetaPath
  BY <1>0, <1>1, PathAssumption DEF TypeOK, RequestTypeOK, RequestOK, Bin
<1>3. h \in DOMAIN fetched /\ fetched[h] = k
  BY <1>1 DEF IInv, RequestsOK, RequestGood, FetchedFor, Responses
<1>4. disk[f].state = "whole"
  BY <1>1, <1>2 DEF InOrder, BodiesOK, Exists
<1>5. b \in DOMAIN fetched /\ Path[fetched[b]] = Path[k]
  BY <1>1, <1>2, <1>4 DEF IInv, DiskOK, FileGood, FetchedAt, Responses, Exists
<1>6. fetched[b] = k
  BY <1>3, <1>5 DEF Calm, Responses
<1>7. h <= b
  BY <1>1 DEF InOrder, RequestOrdered, NotNewer, Exists
<1>8. PICK r : r = [req[w] EXCEPT !.pc = "hit",
                                  !.body = [state |-> disk[f].state, rsp |-> disk[f].data]]
  OBVIOUS
<1>9. r.pc = "hit" /\ r.key = k /\ r.meta.rsp = h /\ r.body.rsp = b /\ r.body.state = "whole"
  BY <1>0, <1>1, <1>4, <1>8 DEF TypeOK, RequestTypeOK, RequestOK
<1>10. req' = [req EXCEPT ![w] = r]
  BY <1>8
<1>11. \A v \in Workers : req'[v] = IF v = w THEN r ELSE req[v]
  BY <1>0, <1>10, RequestsAfter DEF TypeOK
<1>12. PICK a : a = [key |-> k, headers |-> h, body |-> b, complete |-> TRUE]
  OBVIOUS
<1>13. Shown(w)' = a
  <2>1. Shown(w)' = [key |-> k, headers |-> h, body |-> b, complete |-> r.body.state = "whole"]
    BY <1>9, <1>11 DEF Shown
  <2>2. (r.body.state = "whole") = TRUE
    BY <1>9
  <2> QED
    BY <1>12, <2>1, <2>2
<1>14. \A v \in Workers : v # w => Shown(v)' = Shown(v)
  BY <1>11 DEF Shown
<1>15. Shown(w) = None
  BY DEF Shown
<1>16. [v \in Workers |-> Shown(v)]' = [[v \in Workers |-> Shown(v)] EXCEPT ![w] = a]
  BY <1>13, <1>14
<1>17. Promise!Hit(w, k, h, b)
  BY <1>3, <1>6, <1>7, <1>12, <1>15, <1>16 DEF Promise!Hit
<1> QED
  BY <1>2, <1>3, <1>5, <1>17

\* get_cache.
LEMMA GetRefines ==
    ASSUME IInv, Calm, InOrder, NEW w \in Workers, Get(w)
    PROVE  Promise!Next
<1>0. TypeOK /\ fetched' = fetched /\ <<>> \in Seq({"store", "clean"})
  <2>1. fetched' = fetched
    BY DEF Get, GetLookup, GetRemove, GetDelete, GetAbsent, GetRead, Deliver
  <2> QED
    BY <2>1 DEF IInv
<1>1. CASE NoNewHit
  BY <1>0, <1>1, ForgetStep DEF Promise!Next
<1>2. CASE \E k \in Keys : GetLookup(w, k)
  <2>1. PICK k \in Keys : GetLookup(w, k)
    BY <1>2
  <2>2. PICK r : r = [req[w] EXCEPT
            !.pc = IF k \notin DOMAIN cache THEN "absent"
                   ELSE IF Expired(cache[k]) THEN "expired" ELSE "present",
            !.key = k, !.meta = IF k \in DOMAIN cache THEN cache[k] ELSE None, !.at = now]
    OBVIOUS
  <2>3. req' = [req EXCEPT ![w] = r]
    BY <2>1, <2>2 DEF GetLookup
  <2>4. r.pc # "hit"
    BY <1>0, <2>2 DEF TypeOK, RequestTypeOK, RequestOK
  <2> QED
    BY <1>0, <1>1, <2>3, <2>4, MovedElsewhere
<1>3. CASE GetRemove(w) \/ GetDelete(w) \/ GetAbsent(w) \/ Deliver(w)
  <2>1. /\ req[w].pc # "idle"
        /\ \/ req' = Continue(w, AfterRemoval) \/ req' = Continue(w, <<>>)
           \/ req' = Goto(w, "delete")
    BY <1>3 DEF GetRemove, GetDelete, GetAbsent, Deliver
  <2> QED
    BY <1>0, <1>1, <2>1, ContinuesElsewhere, GoesElsewhere, TodoLists
<1>4. CASE GetRead(w)
  <2>1. PICK f : f = Bin(Path[req[w].key])
    OBVIOUS
  <2>2. CASE req' = Goto(w, "missing") \/ req' = Goto(w, "corrupt")
    BY <1>0, <1>1, <2>2, GoesElsewhere
  <2>3. CASE /\ Exists(f)
             /\ req' = [req EXCEPT ![w].pc = "hit",
                              ![w].body = [state |-> disk[f].state, rsp |-> disk[f].data]]
    <3>1. req[w].pc = "present"
      BY <1>4 DEF GetRead
    <3>2. \E k \in Keys, h, b \in DOMAIN fetched : Promise!Hit(w, k, h, b)
      BY <1>0, <2>1, <2>3, <3>1, HitStep
    <3> QED
      BY <3>2 DEF Promise!Next
  <2> QED
    BY <1>4, <2>1, <2>2, <2>3 DEF GetRead
<1> QED
  BY <1>2, <1>3, <1>4 DEF Get

\* put_cache.
LEMMA PutRefines ==
    ASSUME TypeOK, NEW w \in Workers, Put(w)
    PROVE  Promise!Next
<1>1. CASE \E k \in Keys : PutOpen(w, k)
  BY <1>1, FetchStep DEF Promise!Next
<1>2. CASE PutWrite(w) \/ PutRename(w) \/ PutInsert(w) \/ PutEvict(w)
  <2>1. /\ req[w].pc # "idle" /\ fetched' = fetched
        /\ <<>> \in Seq({"store", "clean"})
    BY <1>2 DEF PutWrite, PutRename, PutInsert, PutEvict
  <2>2. \/ req' = Goto(w, "rename") \/ req' = Goto(w, "insert")
        \/ req' = Continue(w, <<>>) \/ req' = Continue(w, AfterInsert)
        \/ req' = Continue(w, AfterEviction)
        \/ \E old : req' = [req EXCEPT ![w].pc = "evict", ![w].victim = Path[old]]
    BY <1>2 DEF PutWrite, PutRename, PutInsert, PutEvict
  <2>3. CASE \E old : req' = [req EXCEPT ![w].pc = "evict", ![w].victim = Path[old]]
    <3>1. PICK old : req' = [req EXCEPT ![w].pc = "evict", ![w].victim = Path[old]]
      BY <2>3
    <3>2. PICK r : r = [req[w] EXCEPT !.pc = "evict", !.victim = Path[old]]
      OBVIOUS
    <3>3. r.pc # "hit" /\ req' = [req EXCEPT ![w] = r]
      BY <3>1, <3>2 DEF TypeOK, RequestTypeOK, RequestOK
    <3> QED
      BY <2>1, <3>3, MovedElsewhere, ForgetStep DEF Promise!Next
  <2>4. CASE req' = Goto(w, "rename") \/ req' = Goto(w, "insert")
    BY <2>1, <2>4, GoesElsewhere, ForgetStep DEF Promise!Next
  <2>5. CASE \/ req' = Continue(w, <<>>) \/ req' = Continue(w, AfterInsert)
             \/ req' = Continue(w, AfterEviction)
    <3>1. NoNewHit
      BY <2>1, <2>5, ContinuesElsewhere, TodoLists
    <3> QED
      BY <2>1, <3>1, ForgetStep DEF Promise!Next
  <2> QED
    BY <2>2, <2>3, <2>4, <2>5
<1> QED
  BY <1>1, <1>2 DEF Put

\* Persistence and failing calls.
LEMMA PersistRefines ==
    ASSUME TypeOK, NEW w \in Workers, Persist(w) \/ IoError(w)
    PROVE  Promise!Next
<1>0. /\ req[w].todo \in Seq({"store", "clean"}) /\ <<>> \in Seq({"store", "clean"})
      /\ fetched' = fetched /\ req[w].pc # "idle"
  BY DEF TypeOK, RequestTypeOK, RequestOK, Persist, IoError, Store, MetaOpen, MetaWrite,
         MetaRename, Clean, CleanRead, CleanDelete
<1>1. CASE NoNewHit
  BY <1>0, <1>1, ForgetStep DEF Promise!Next
<1>2. \/ \E todo \in Seq({"store", "clean"}) : req' = Continue(w, todo)
      \/ \E pc \in {"missing", "meta_rename"} : req' = Goto(w, pc)
      \/ \E l : \E pc \in {"meta_open", "meta_write"} :
            req' = [req EXCEPT ![w].pc = pc, ![w].entries = l]
      \/ \E V : req' = [req EXCEPT ![w].pc = "clean_shard", ![w].paths = V]
      \/ NoNewHit
  <2>0. ASSUME NEW p, req' = Scanned(w, p), req[w].pc = "clean_delete"
        PROVE  NoNewHit
    <3>1. PICK r, pc, ps : /\ r = [req[w] EXCEPT !.pc = pc, !.paths = ps]
                           /\ req' = [req EXCEPT ![w] = r]
                           /\ pc \in {"clean_delete", "meta_open"}
      BY <2>0, ScannedRequest
    <3>2. r.pc = pc
      BY <3>1 DEF TypeOK, RequestTypeOK, RequestOK
    <3> QED
      BY <3>1, <3>2, MovedElsewhere
  <2>1. CASE IoError(w)
    <3>1. \/ \E todo \in Seq({"store", "clean"}) : req' = Continue(w, todo)
          \/ req' = Goto(w, "missing")
          \/ req[w].pc = "clean_delete" /\ \E p : req' = Scanned(w, p)
      BY <1>0, <2>1, TodoLists DEF IoError, AfterFailedWrite
    <3> QED
      BY <2>0, <3>1
  <2>2. CASE Store(w)
    BY <2>2 DEF Store
  <2>3. CASE MetaOpen(w)
    BY <2>3 DEF MetaOpen
  <2>4. CASE MetaWrite(w)
    BY <2>4 DEF MetaWrite
  <2>5. CASE MetaRename(w)
    BY <1>0, <2>5 DEF MetaRename
  <2>6. CASE Clean(w)
    BY <1>0, <2>6 DEF Clean
  <2>7. CASE CleanRead(w)
    <3>1. ASSUME NEW r, NEW S, NEW pc, NEW ps, req' = [req EXCEPT ![w] = r],
                 r = [req[w] EXCEPT !.pc = pc, !.paths = ps, !.entries = S],
                 pc \in {"clean_delete", "meta_open"}
          PROVE  NoNewHit
      <4>1. r.pc = pc
        BY <3>1 DEF TypeOK, RequestTypeOK, RequestOK
      <4> QED
        BY <3>1, <4>1, MovedElsewhere
    <3> QED
      BY <1>0, <2>7, <3>1, CleanReads
  <2>8. CASE CleanDelete(w)
    <3>1. req[w].pc = "clean_delete" /\ \E p : req' = Scanned(w, p)
      BY <2>8 DEF CleanDelete
    <3> QED
      BY <2>0, <3>1
  <2> QED
    BY <2>1, <2>2, <2>3, <2>4, <2>5, <2>6, <2>7, <2>8 DEF Persist
<1>3. CASE \E todo \in Seq({"store", "clean"}) : req' = Continue(w, todo)
  BY <1>0, <1>1, <1>3, ContinuesElsewhere
<1>4. CASE \E pc \in {"missing", "meta_rename"} : req' = Goto(w, pc)
  BY <1>1, <1>4, GoesElsewhere
<1>5. CASE \E l : \E pc \in {"meta_open", "meta_write"} :
              req' = [req EXCEPT ![w].pc = pc, ![w].entries = l]
  <2>1. PICK l, pc : /\ pc \in {"meta_open", "meta_write"}
                     /\ req' = [req EXCEPT ![w].pc = pc, ![w].entries = l]
    BY <1>5
  <2>2. PICK r : r = [req[w] EXCEPT !.pc = pc, !.entries = l]
    OBVIOUS
  <2>3. r.pc # "hit" /\ req' = [req EXCEPT ![w] = r]
    BY <2>1, <2>2 DEF TypeOK, RequestTypeOK, RequestOK
  <2> QED
    BY <1>1, <2>3, MovedElsewhere
<1>6. CASE \E V : req' = [req EXCEPT ![w].pc = "clean_shard", ![w].paths = V]
  <2>1. PICK V : req' = [req EXCEPT ![w].pc = "clean_shard", ![w].paths = V]
    BY <1>6
  <2>2. PICK r : r = [req[w] EXCEPT !.pc = "clean_shard", !.paths = V]
    OBVIOUS
  <2>3. r.pc # "hit" /\ req' = [req EXCEPT ![w] = r]
    BY <2>1, <2>2 DEF TypeOK, RequestTypeOK, RequestOK
  <2> QED
    BY <1>1, <2>3, MovedElsewhere
<1> QED
  BY <1>1, <1>2, <1>3, <1>4, <1>5, <1>6

\* Every step is a step of ResponseCache, or leaves what it sees unchanged.
LEMMA StepRefines ==
    IInv /\ Calm /\ InOrder /\ [Next]_vars =>
        [Promise!Next]_<<fetched, [w \in Workers |-> Shown(w)]>>
<1> SUFFICES ASSUME IInv, Calm, InOrder, [Next]_vars
             PROVE  Promise!Next \/ UNCHANGED <<fetched, [w \in Workers |-> Shown(w)]>>
  OBVIOUS
<1>0. TypeOK /\ \A w \in Getters \cup Putters : w \in Workers
  BY DEF IInv, Workers
<1>1. ASSUME NEW w \in Getters, Get(w) PROVE Promise!Next
  BY <1>0, <1>1, GetRefines
<1>2. ASSUME NEW w \in Putters, Put(w) PROVE Promise!Next
  BY <1>0, <1>2, PutRefines
<1>3. ASSUME NEW w \in Workers, Persist(w) \/ IoError(w) PROVE Promise!Next
  BY <1>0, <1>3, PersistRefines
<1>4. CASE \/ ServeBasic \/ InitialStore \/ OrphanedFilesCleanup \/ ServeVHost \/ Tick
           \/ UNCHANGED vars
  <2>1. req' = req /\ fetched' = fetched
    BY <1>4 DEF ServeBasic, InitialStore, OrphanedFilesCleanup, ServeVHost, Tick, vars
  <2>2. NoNewHit
    BY <2>1 DEF NoNewHit
  <2> QED
    BY <2>1, <2>2, ForgetStep DEF Promise!Next
<1>5. CASE Crash
  <2>1. fetched' = fetched /\ \A w \in Workers : req'[w] = Idle
    BY <1>5 DEF Crash
  <2>2. NoNewHit
    BY <2>1 DEF NoNewHit, Idle
  <2> QED
    BY <2>1, <2>2, ForgetStep DEF Promise!Next
<1> QED
  BY <1>1, <1>2, <1>3, <1>4, <1>5 DEF Next

\* The inductive invariant holds in every reachable state of the cache.
THEOREM Invariance == Spec => []IInv
BY InitGood, NextKeeps, PTL DEF Spec

\* Type correctness of the map, the files and the tasks.
THEOREM TypeCorrect == Spec => []TypeOK
<1>1. IInv => TypeOK
  BY DEF IInv
<1>2. QED
  BY <1>1, Invariance, PTL

\* Whatever tasks interleave, fail or crash, the map that put_cache fills and
\* load refills never holds more than Capacity entries.
THEOREM CapacityTheorem == Spec => []CapacityRespected
<1>1. IInv => CapacityRespected
  BY DEF IInv, GoodEntries, CapacityRespected
<1>2. QED
  BY <1>1, Invariance, PTL

\* Whatever tasks interleave, fail or crash, get_cache answers with headers
\* fetched for the key and a body stored under the key's path.
THEOREM HitTheorem == Spec => []HitFromSamePath
<1>1. IInv => HitFromSamePath
  BY DEF IInv, RequestsOK, RequestGood, Hits, HitFromSamePath
<1>2. QED
  BY <1>1, Invariance, PTL

\* When a VHost proxy answers from the cache, no more than cache_ttl whole
\* seconds have passed since the response was stored, whatever is written to
\* and read from the metadata file.  A basic proxy breaks this after a restart.
THEOREM FreshTheorem == Spec => [](VHost => HitWithinTTL)
<1>1. Init => TimesKept
  BY DEF Init, TimesKept, EmptyMap, Idle
<1>2. TimesKept => (VHost => HitWithinTTL)
  BY DEF TimesKept, HitWithinTTL, Hits
<1>3. QED
  BY <1>1, <1>2, NextTimes, TypeCorrect, PTL DEF Spec

\* As long as no two tasks store into one body file at a time and no two keys
\* share one, the cache keeps the promise of ResponseCache, for any number of
\* concurrent lookups and stores, crashes and failing calls: a hit is complete,
\* headers and body are of the key, and the body is not older than the headers.
THEOREM PromiseKept == CalmSpec => KeepsPromise
<1>1. Init => InOrder
  <2>1. Init => /\ disk = EmptyMap /\ cache = EmptyMap
                /\ \A w \in Workers : req[w] = Idle
    BY DEF Init
  <2>2. Idle.pc = "idle" /\ Idle.entries = EmptyMap
    BY DEF Idle
  <2>3. \A d : EntriesNotNewer(EmptyMap, d)
    BY DEF EntriesNotNewer, EmptyMap
  <2>4. \A d, h : \A w \in Workers : RequestOrdered(w, Idle, d, h)
    BY <2>2, <2>3, QuietOrdered
  <2>5. DOMAIN EmptyMap = {}
    BY DEF EmptyMap
  <2> QED
    BY <2>1, <2>3, <2>4, <2>5 DEF InOrder, BodiesOK, MetaFilesOK, Exists
<1>2. Init => Promise!Init
  <2>1. Init => \A w \in Workers : Shown(w) = None
    BY DEF Init, Shown, Idle
  <2> QED
    BY <2>1 DEF Init, Promise!Init
<1>3. Init => Calm
  <2>1. Init => /\ \A w \in Workers : req[w] = Idle
                /\ fetched = <<>>
    BY DEF Init
  <2>2. DOMAIN <<>> = {}
    OBVIOUS
  <2> QED
    BY <2>1, <2>2 DEF Calm, Storing, Idle, Responses
<1>4. Calm /\ [Next /\ Calm']_vars => Calm'
  <2>1. Calm /\ UNCHANGED vars => Calm'
    BY DEF Calm, Storing, Responses, vars
  <2> QED
    BY <2>1
<1>5. [Next /\ Calm']_vars => [Next]_vars
  OBVIOUS
<1> QED
  BY <1>1, <1>2, <1>3, <1>4, <1>5, InitGood, NextKeeps, NextOrder, StepRefines, PTL
     DEF CalmSpec, KeepsPromise, Promise!Spec
=============================================================================
