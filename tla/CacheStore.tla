----------------------------- MODULE CacheStore -----------------------------
(***************************************************************************)
(* The response cache of a proxy service: SccMemoryCache (the metadata     *)
(* map and the body files), CachePersistence (the metadata file) and the   *)
(* requests that look up and store responses concurrently                  *)
(* (proxy/cache/service.rs, proxy/cache/persistence.rs, main.rs).          *)
(*                                                                         *)
(* Every await point or file-system call between two critical sections of  *)
(* the cache mutex is a step of its own.  A response is the number of its  *)
(* upstream fetch: fetched[n] is the cache key response n was fetched for. *)
(* Files are inodes: two tasks that open the same temporary name share     *)
(* one, and a rename moves it together with the handles open on it.        *)
(***************************************************************************)
EXTENDS Naturals, Sequences, FiniteSets, Functions

CONSTANTS
    Keys,        \* cache keys: lower-case host, method and URI
    Paths,       \* CRC32 values of keys, each the name of one body file
    Path,        \* get_cache_file_path: Keys -> Paths
    Shards,      \* shard directories
    Shard,       \* calculate_shard_id: Paths -> Shards
    MetaPath,    \* cache-metadata.bin, in a directory of its own
    Getters,     \* tasks that run get_cache
    Putters,     \* tasks that run put_cache
    Capacity,    \* entries the in-memory map may hold (8192)
    TTL,         \* cache_ttl, in seconds
    Second,      \* clock ticks in a second
    VHost,       \* TRUE: cache of a VHost proxy; FALSE: of a basic proxy
    None,        \* no value
    MaxTime,     \* bound: clock ticks
    MaxPuts,     \* bound: responses fetched from upstream
    MaxCrashes,  \* bound: crashes and restarts of the process
    MaxFaults    \* bound: failing file-system calls

ASSUME PathAssumption ==
    /\ Path \in [Keys -> Paths]
    /\ Shard \in [Paths -> Shards]
    /\ MetaPath \notin Paths

ASSUME BoundAssumption ==
    /\ Capacity \in Nat \ {0}
    /\ TTL \in Nat \ {0}
    /\ Second \in Nat \ {0}
    /\ VHost \in BOOLEAN
    /\ MaxTime \in Nat /\ MaxPuts \in Nat
    /\ MaxCrashes \in Nat /\ MaxFaults \in Nat

ASSUME NoneAssumption == None \notin Paths

Workers == Getters \cup Putters

VARIABLES
    now,       \* Instant::now() / SystemTime::now(), in ticks
    phase,     \* "starting": services are being built; "serving"
    cache,     \* the Mutex<HashMap<String, CacheMetadata>>
    disk,      \* existing files: <<path, extension>> -> file
    req,       \* what each task is doing
    fetched,   \* history: the key of every response fetched so far
    crashes,   \* restarts so far
    faults     \* failed file-system calls so far

vars == <<now, phase, cache, disk, req, fetched, crashes, faults>>

-----------------------------------------------------------------------------
(* Data.                                                                   *)

Responses == DOMAIN fetched

\* CacheMetadata.  headers and status are those of response rsp; born is a
\* history field: when the response was stored, never changed afterwards.
Metadata(rsp, created, born) == [rsp |-> rsp, created |-> created, born |-> born]

\* A file: "empty" (created or truncated, not written yet), "whole", or
\* "mixed" (one writer's bytes over a longer text of another's); the tasks
\* that have it open for writing; the response or the entries it holds.
File(state, data, open) == [state |-> state, data |-> data, open |-> open]

Bin(p) == <<p, "bin">>
\* Mutant: write in place.
Tmp_InPlace(p) == <<p, "bin">>
Tmp(p) == <<p, "tmp">>
BodyFiles == Paths \X {"bin", "tmp"}
Files == (Paths \cup {MetaPath}) \X {"bin", "tmp"}

Exists(f) == f \in DOMAIN disk

\* Duration::as_secs drops what is less than a second.
AsSecs(ticks) == ticks \div Second

\* is_entry_expired, and the same test in get_cache: an entry is fresh until
\* TTL + 1 seconds have passed.
Expired(meta) == AsSecs(now - meta.created) > TTL

\* serialize_instant: a created_at that lies in the past is at distance 0
\* from now (checked_duration_since is None), so what is written is the
\* second of the write.
Serialize(entries) ==
    [k \in DOMAIN entries |->
        Metadata(entries[k].rsp, AsSecs(now) * Second, entries[k].born)]

EmptyMap == [x \in {} |-> None]
Without(f, S) == Restrict(f, DOMAIN f \ S)
With(f, x, v) == [y \in DOMAIN f \cup {x} |-> IF y = x THEN v ELSE f[y]]

\* tokio::fs::write opens its file with O_CREAT and O_TRUNC ...
Opened(w, f) ==
    With(disk, f, File("empty", None, IF Exists(f) THEN disk[f].open \cup {w} ELSE {w}))

\* ... and writes to the inode it opened, under whichever name it now has.
Handles(w) == {f \in DOMAIN disk : w \in disk[f].open}

Written(w, data, state) ==
    [f \in DOMAIN disk |->
        IF f \in Handles(w) THEN File(state, data, disk[f].open \ {w}) ELSE disk[f]]

Renamed(p) == With(Without(disk, {Tmp(p)}), Bin(p), disk[Tmp(p)])

Closed(w) == [f \in DOMAIN disk |-> [disk[f] EXCEPT !.open = @ \ {w}]]

-----------------------------------------------------------------------------
(* A task.  todo lists what is left of the persistence work a request does *)
(* before it returns: "store" (store_immediate) and "clean"                *)
(* (clean_stale_metadata_with_key).                                        *)

Idle == [pc |-> "idle", key |-> None, meta |-> None, rsp |-> 0, body |-> None,
         at |-> 0, victim |-> None, entries |-> EmptyMap, paths |-> {}, todo |-> <<>>]

Goto(w, pc) == [req EXCEPT ![w].pc = pc]

\* Start the next piece of persistence work, or return.
Continued(r, todo) ==
    IF todo = <<>> THEN Idle
    ELSE [Idle EXCEPT !.pc = Head(todo), !.todo = Tail(todo), !.key = r.key]

Continue(w, todo) == [req EXCEPT ![w] = Continued(req[w], todo)]

AfterRemoval == <<"store", "clean">>       \* handle_persistence_after_removal
AfterInsert == <<"store">>
AfterEviction == AfterRemoval \o AfterInsert

-----------------------------------------------------------------------------
(* get_cache.                                                              *)

GetLookup(w, k) ==
    /\ phase = "serving"
    /\ req[w].pc = "idle"
    /\ LET meta == IF k \in DOMAIN cache THEN cache[k] ELSE None
           pc == IF k \notin DOMAIN cache THEN "absent"
                 ELSE IF Expired(cache[k]) THEN "expired" ELSE "present"
       IN  req' = [req EXCEPT ![w] = [@ EXCEPT !.pc = pc, !.key = k,
                                               !.meta = meta, !.at = now]]
    /\ UNCHANGED <<now, phase, cache, disk, fetched, crashes, faults>>

\* Mutant: the file is deleted under a name computed after the key is dropped.
GetRemove_ForgetsKey(w) ==
    /\ req[w].pc \in {"expired", "missing", "corrupt"}
    /\ cache' = Without(cache, {req[w].key})
    /\ req' = [req EXCEPT ![w].pc = "delete", ![w].key = None]
    /\ UNCHANGED <<now, phase, disk, fetched, crashes, faults>>

\* The key is removed without looking at the entry again.
GetRemove(w) ==
    /\ req[w].pc \in {"expired", "missing", "corrupt"}
    /\ cache' = Without(cache, {req[w].key})
    /\ req' = IF req[w].pc = "missing" THEN Continue(w, AfterRemoval)
              ELSE Goto(w, "delete")
    /\ UNCHANGED <<now, phase, disk, fetched, crashes, faults>>

\* The body file of an expired or corrupted entry.
GetDelete(w) ==
    /\ req[w].pc = "delete"
    /\ disk' = Without(disk, {Bin(Path[req[w].key])})
    /\ req' = Continue(w, AfterRemoval)
    /\ UNCHANGED <<now, phase, cache, fetched, crashes, faults>>

\* No entry: a body file under the key's name is taken for an orphan.
GetAbsent(w) ==
    /\ req[w].pc = "absent"
    /\ LET f == Bin(Path[req[w].key])
       IN  IF Exists(f)
           THEN disk' = Without(disk, {f}) /\ req' = Continue(w, AfterRemoval)
           ELSE disk' = disk /\ req' = Continue(w, <<>>)
    /\ UNCHANGED <<now, phase, cache, fetched, crashes, faults>>

\* The body is read after the metadata was copied.  A body that mixes two
\* writes is noticed only when it carries a gzip or zstd magic number.
GetRead(w) ==
    /\ req[w].pc = "present"
    /\ LET f == Bin(Path[req[w].key])
       IN  \/ ~Exists(f) /\ req' = Goto(w, "missing")
           \/ /\ Exists(f)
              /\ req' = [req EXCEPT ![w].pc = "hit",
                                    ![w].body = [state |-> disk[f].state,
                                                 rsp |-> disk[f].data]]
           \/ /\ Exists(f) /\ disk[f].state = "mixed"
              /\ req' = Goto(w, "corrupt")
    /\ UNCHANGED <<now, phase, cache, disk, fetched, crashes, faults>>

\* The request pipeline takes the answer.
Deliver(w) ==
    /\ req[w].pc = "hit"
    /\ req' = Continue(w, <<>>)
    /\ UNCHANGED <<now, phase, cache, disk, fetched, crashes, faults>>

-----------------------------------------------------------------------------
(* put_cache.  Responses over max_file_size and no-store responses return  *)
(* before they touch anything.                                             *)

PutOpen(w, k) ==
    /\ phase = "serving"
    /\ req[w].pc = "idle"
    /\ Len(fetched) < MaxPuts
    /\ fetched' = Append(fetched, k)
    /\ disk' = Opened(w, Tmp(Path[k]))
    /\ req' = [req EXCEPT ![w] = [@ EXCEPT !.pc = "write", !.key = k,
                                           !.rsp = Len(fetched) + 1]]
    /\ UNCHANGED <<now, phase, cache, crashes, faults>>

PutWrite(w) ==
    /\ req[w].pc = "write"
    /\ \E state \in IF \E f \in Handles(w) : disk[f].state # "empty"
                    THEN {"whole", "mixed"} ELSE {"whole"} :
          disk' = Written(w, req[w].rsp, state)
    /\ req' = Goto(w, "rename")
    /\ UNCHANGED <<now, phase, cache, fetched, crashes, faults>>

\* When the temporary file is gone, the rename fails and put_cache returns.
PutRename(w) ==
    /\ req[w].pc = "rename"
    /\ LET p == Path[req[w].key]
       IN  IF Exists(Tmp(p))
           THEN disk' = Renamed(p) /\ req' = Goto(w, "insert")
           ELSE disk' = disk /\ req' = Continue(w, <<>>)
    /\ UNCHANGED <<now, phase, cache, fetched, crashes, faults>>

\* min_by_key(created_at): one of the oldest, in the map's iteration order.
Oldest == {k \in DOMAIN cache :
              \A j \in DOMAIN cache : cache[k].created <= cache[j].created}

\* Mutant: one entry too many.
Full_OffByOne(k) == Cardinality(DOMAIN cache) > Capacity /\ k \notin DOMAIN cache

Full(k) == Cardinality(DOMAIN cache) >= Capacity /\ k \notin DOMAIN cache

PutInsert(w) ==
    /\ req[w].pc = "insert"
    /\ LET k == req[w].key
           meta == Metadata(req[w].rsp, now, now)
       IN  IF Full(k)
           THEN \E old \in Oldest :
                   /\ cache' = With(Without(cache, {old}), k, meta)
                   /\ req' = [req EXCEPT ![w].pc = "evict", ![w].victim = Path[old]]
           ELSE /\ cache' = With(cache, k, meta)
                /\ req' = Continue(w, AfterInsert)
    /\ UNCHANGED <<now, phase, disk, fetched, crashes, faults>>

PutEvict(w) ==
    /\ req[w].pc = "evict"
    /\ disk' = Without(disk, {Bin(req[w].victim)})
    /\ req' = Continue(w, AfterEviction)
    /\ UNCHANGED <<now, phase, cache, fetched, crashes, faults>>

-----------------------------------------------------------------------------
(* CachePersistence, run by the request that changed the cache.            *)

\* store: under the mutex, the body files of expired entries are deleted
\* (the entries stay) and the others are copied.
Store(w) ==
    /\ req[w].pc = "store"
    /\ LET stale == {k \in DOMAIN cache : Expired(cache[k])}
       IN  /\ disk' = Without(disk, {Bin(Path[k]) : k \in stale})
           /\ req' = [req EXCEPT ![w].pc = "meta_open",
                                 ![w].entries = Without(cache, stale)]
    /\ UNCHANGED <<now, phase, cache, fetched, crashes, faults>>

\* write_metadata: entries are serialized, then written and renamed.
MetaOpen(w) ==
    /\ req[w].pc = "meta_open"
    /\ disk' = Opened(w, Tmp(MetaPath))
    /\ req' = [req EXCEPT ![w].pc = "meta_write", ![w].entries = Serialize(@)]
    /\ UNCHANGED <<now, phase, cache, fetched, crashes, faults>>

\* bincode ignores what is left of a longer text behind the last write.
MetaWrite(w) ==
    /\ req[w].pc = "meta_write"
    /\ disk' = Written(w, req[w].entries, "whole")
    /\ req' = Goto(w, "meta_rename")
    /\ UNCHANGED <<now, phase, cache, fetched, crashes, faults>>

MetaRename(w) ==
    /\ req[w].pc = "meta_rename"
    /\ disk' = IF Exists(Tmp(MetaPath)) THEN Renamed(MetaPath) ELSE disk
    /\ req' = Continue(w, req[w].todo)
    /\ UNCHANGED <<now, phase, cache, fetched, crashes, faults>>

\* clean_stale_metadata_with_key: the body paths of the map are copied ...
Clean(w) ==
    /\ req[w].pc = "clean"
    /\ req' = IF Exists(Bin(MetaPath))
              THEN [req EXCEPT ![w].pc = "clean_shard",
                               ![w].paths = {Path[k] : k \in DOMAIN cache}]
              ELSE Continue(w, req[w].todo)
    /\ UNCHANGED <<now, phase, cache, disk, fetched, crashes, faults>>

\* ... then the file is read, and the entries of the key's shard are kept when
\* they are fresh and have a body ...
CleanRead(w) ==
    /\ req[w].pc = "clean_shard"
    /\ LET s == Shard[Path[req[w].key]]
           f == Bin(MetaPath)
           Kept(k) == \/ Shard[Path[k]] # s
                      \/ ~Expired(disk[f].data[k]) /\ Exists(Bin(Path[k]))
           Readable == Exists(f) /\ disk[f].state = "whole"
           orphans == {p \in Paths : Shard[p] = s /\ p \notin req[w].paths}
       IN  req' = IF Readable
                  THEN [req EXCEPT ![w].pc = IF orphans = {} THEN "meta_open" ELSE "clean_delete",
                                   ![w].paths = orphans,
                                   ![w].entries = Restrict(disk[f].data,
                                       {k \in DOMAIN disk[f].data : Kept(k)})]
                  ELSE Continue(w, req[w].todo)
    /\ UNCHANGED <<now, phase, cache, disk, fetched, crashes, faults>>

\* What is left of the scan of the shard directory after path p.
Scanned(w, p) ==
    [req EXCEPT ![w].pc = IF req[w].paths = {p} THEN "meta_open" ELSE @,
                ![w].paths = @ \ {p}]

\* ... and the bodies of that shard outside the copy are deleted one after the
\* other, those renamed into place meanwhile too, before what was kept is
\* written back.
CleanDelete(w) ==
    /\ req[w].pc = "clean_delete"
    /\ \E p \in req[w].paths :
          disk' = Without(disk, {Bin(p)}) /\ req' = Scanned(w, p)
    /\ UNCHANGED <<now, phase, cache, fetched, crashes, faults>>

-----------------------------------------------------------------------------
(* Start, crash, failing calls, time.                                      *)

\* load.  Entries that are stale lose their body, entries without a body are
\* skipped.  Nothing compares the result with Capacity.
Load ==
    LET f == Bin(MetaPath)
        entries == IF Exists(f) /\ disk[f].state = "whole" THEN disk[f].data ELSE EmptyMap
        stale == {k \in DOMAIN entries : Expired(entries[k])}
        left == Without(disk, {Bin(Path[k]) : k \in stale})
    IN  /\ cache' = Restrict(entries,
                        {k \in DOMAIN entries \ stale : Bin(Path[k]) \in DOMAIN left})
        /\ disk' = left

\* main: a basic proxy loads the metadata file before the server runs.
ServeBasic ==
    /\ phase = "starting"
    /\ ~VHost
    /\ Load
    /\ phase' = "serving"
    /\ UNCHANGED <<now, req, fetched, crashes, faults>>

\* A VHost proxy loads nothing.  While its service is being built, the
\* background tasks of start_persistence_service run over the empty map:
\* the initial store ...
InitialStore ==
    /\ phase = "starting"
    /\ VHost
    /\ disk' = With(disk, Bin(MetaPath), File("whole", EmptyMap, {}))
    /\ UNCHANGED <<now, phase, cache, req, fetched, crashes, faults>>

\* ... and orphaned_files_cleanup, which deletes body and temporary files one
\* after the other.
OrphanedFilesCleanup ==
    /\ phase = "starting"
    /\ VHost
    /\ \E f \in BodyFiles \cap DOMAIN disk : disk' = Without(disk, {f})
    /\ UNCHANGED <<now, phase, cache, req, fetched, crashes, faults>>

\* The runtime they run on is dropped before the server runs.
ServeVHost ==
    /\ phase = "starting"
    /\ VHost
    /\ phase' = "serving"
    /\ UNCHANGED <<now, cache, disk, req, fetched, crashes, faults>>

Crash ==
    /\ crashes < MaxCrashes
    /\ phase = "serving"
    /\ phase' = "starting"
    /\ cache' = EmptyMap
    /\ req' = [w \in Workers |-> Idle]
    /\ disk' = [f \in DOMAIN disk |-> [disk[f] EXCEPT !.open = {}]]
    /\ crashes' = crashes + 1
    /\ UNCHANGED <<now, fetched, faults>>

\* Mutant: the result of the write is ignored.
AfterFailedWrite_Ignored(w) == Goto(w, "rename")

AfterFailedWrite(w) == Continue(w, <<>>)

\* A call on the file system fails (no space, no permission).  put_cache
\* gives up, after a failed rename it removes the temporary file; deletions
\* and metadata writes are logged and the request goes on.
IoError(w) ==
    /\ faults < MaxFaults
    /\ \/ /\ req[w].pc = "write"
          /\ disk' = Closed(w) /\ req' = AfterFailedWrite(w)
       \/ /\ req[w].pc = "rename"
          /\ disk' = Without(disk, {Tmp(Path[req[w].key])})
          /\ req' = Continue(w, <<>>)
       \/ /\ req[w].pc = "present"
          /\ disk' = disk /\ req' = Goto(w, "missing")
       \/ /\ \/ req[w].pc = "delete"
             \/ req[w].pc = "absent" /\ Exists(Bin(Path[req[w].key]))
          /\ disk' = disk /\ req' = Continue(w, AfterRemoval)
       \/ /\ req[w].pc = "evict"
          /\ disk' = disk /\ req' = Continue(w, AfterEviction)
       \/ /\ req[w].pc \in {"store", "clean_shard", "meta_open", "meta_write",
                            "meta_rename"}
          /\ disk' = Closed(w) /\ req' = Continue(w, req[w].todo)
       \/ /\ req[w].pc = "clean_delete"
          /\ \E p \in req[w].paths :
                Exists(Bin(p)) /\ disk' = disk /\ req' = Scanned(w, p)
    /\ faults' = faults + 1
    /\ UNCHANGED <<now, phase, cache, fetched, crashes>>

Tick ==
    /\ now < MaxTime
    /\ now' = now + 1
    /\ UNCHANGED <<phase, cache, disk, req, fetched, crashes, faults>>

-----------------------------------------------------------------------------
Init ==
    /\ now = 0
    /\ phase = "starting"
    /\ cache = EmptyMap
    /\ disk = EmptyMap
    /\ req = [w \in Workers |-> Idle]
    /\ fetched = <<>>
    /\ crashes = 0
    /\ faults = 0

Get(w) ==
    \/ \E k \in Keys : GetLookup(w, k)
    \/ GetRemove(w) \/ GetDelete(w) \/ GetAbsent(w) \/ GetRead(w) \/ Deliver(w)

Put(w) ==
    \/ \E k \in Keys : PutOpen(w, k)
    \/ PutWrite(w) \/ PutRename(w) \/ PutInsert(w) \/ PutEvict(w)

Persist(w) ==
    \/ Store(w) \/ MetaOpen(w) \/ MetaWrite(w) \/ MetaRename(w)
    \/ Clean(w) \/ CleanRead(w) \/ CleanDelete(w)

Next ==
    \/ \E w \in Getters : Get(w)
    \/ \E w \in Putters : Put(w)
    \/ \E w \in Workers : Persist(w) \/ IoError(w)
    \/ ServeBasic \/ InitialStore \/ OrphanedFilesCleanup \/ ServeVHost
    \/ Crash \/ Tick

Spec == Init /\ [][Next]_vars

-----------------------------------------------------------------------------
(* Properties.                                                             *)

FileStates == {"empty", "whole", "mixed"}

Steps == {"idle", "absent", "expired", "present", "missing", "corrupt", "delete",
          "hit", "write", "rename", "insert", "evict", "store", "clean",
          "clean_shard", "clean_delete", "meta_open", "meta_write", "meta_rename"}

MetadataSet == [rsp : Nat, created : Nat, born : Nat]

EntryMap(m) ==
    /\ DOMAIN m \subseteq Keys
    /\ m = [k \in DOMAIN m |-> m[k]]
    /\ \A k \in DOMAIN m : m[k] \in MetadataSet

FileOK(f, file) ==
    /\ DOMAIN file = {"state", "data", "open"}
    /\ file.state \in FileStates
    /\ file.open \subseteq Workers
    /\ file.state # "empty" =>
          IF f[1] = MetaPath THEN EntryMap(file.data) ELSE file.data \in Nat

RequestOK(r) ==
    /\ DOMAIN r = {"pc", "key", "meta", "rsp", "body", "at", "victim", "entries",
                   "paths", "todo"}
    /\ r.pc \in Steps
    /\ r.key \in {None} \cup Keys
    /\ r.pc # "idle" => r.key \in Keys
    /\ r.meta \in {None} \cup MetadataSet
    /\ r.rsp \in Nat
    /\ r.at \in Nat
    /\ EntryMap(r.entries)
    /\ r.paths \subseteq Paths
    /\ r.todo \in Seq({"store", "clean"})

DiskTypeOK ==
    /\ disk = [f \in DOMAIN disk |-> disk[f]]
    /\ DOMAIN disk \subseteq Files
    /\ \A f \in DOMAIN disk : FileOK(f, disk[f])

RequestTypeOK ==
    /\ req = [w \in Workers |-> req[w]]
    /\ \A w \in Workers : RequestOK(req[w])

\* Body files hold the number of a response, the metadata file entries; a task
\* that is not idle works for a key.
TypeOK ==
    /\ now \in Nat
    /\ phase \in {"starting", "serving"}
    /\ EntryMap(cache)
    /\ DiskTypeOK
    /\ RequestTypeOK
    /\ fetched \in Seq(Keys)
    /\ crashes \in Nat
    /\ faults \in Nat

\* The map never holds more than Capacity entries: put_cache evicts under the
\* mutex, and load inserts, with no test of its own, what earlier snapshots
\* of the map, cleaned and rewritten by several requests, left on disk.
CapacityRespected == Cardinality(DOMAIN cache) <= Capacity

Hits == {w \in Workers : req[w].pc = "hit"}

\* Response r was fetched for key k, or for a key with the same body path p.
FetchedFor(r, k) == r \in Responses /\ fetched[r] = k
FetchedAt(r, p) == r \in Responses /\ Path[fetched[r]] = p

\* A hit carries the headers of a response fetched for the key that was asked
\* for, and a body file written for a key with the same CRC32 (or an empty
\* file), whatever was stored, evicted, cleaned or reloaded meanwhile.
HitFromSamePath ==
    \A w \in Hits :
        /\ FetchedFor(req[w].meta.rsp, req[w].key)
        /\ req[w].body.state # "empty" => FetchedAt(req[w].body.rsp, Path[req[w].key])

\* The body of a hit is a complete file: temporary file and rename, also
\* across a crash or a failed write.
HitComplete == \A w \in Hits : req[w].body.state = "whole"

\* No more than TTL whole seconds have passed, when a hit is looked up, since
\* the response was stored.
HitWithinTTL == \A w \in Hits : AsSecs(req[w].at - req[w].meta.born) <= TTL

\* What the request pipeline may rely on (module ResponseCache).
Shown(w) == IF req[w].pc # "hit" THEN None
            ELSE [key |-> req[w].key, headers |-> req[w].meta.rsp,
                  body |-> req[w].body.rsp, complete |-> req[w].body.state = "whole"]

Promise == INSTANCE ResponseCache WITH shown <- [w \in Workers |-> Shown(w)]

\* The cache keeps the promise of ResponseCache.
KeepsPromise == Promise!Spec

\* A task that has a response on its way into a body file.
Storing(w) == req[w].pc \in {"write", "rename", "insert"}

\* No two tasks store into one body file at the same time, and no two keys
\* met so far share a CRC32.  Nothing in the code sees to either.
Calm ==
    /\ \A v, w \in Workers :
          Storing(v) /\ Storing(w) /\ Path[req[v].key] = Path[req[w].key] => v = w
    /\ \A m, n \in Responses : Path[fetched[m]] = Path[fetched[n]] => fetched[m] = fetched[n]

\* The behaviours that stay calm.
CalmSpec == Init /\ [][Next /\ Calm']_vars

-----------------------------------------------------------------------------
(* The inductive invariant of CapacityRespected and HitFromSamePath.       *)

\* A map of entries that could be the in-memory map, wherever it is kept.
GoodEntries(m) ==
    /\ IsFiniteSet(DOMAIN m)
    /\ Cardinality(DOMAIN m) <= Capacity
    /\ \A k \in DOMAIN m : FetchedFor(m[k].rsp, k)

FileGood(f, file) ==
    file.state # "empty" =>
        IF f[1] = MetaPath THEN GoodEntries(file.data) ELSE FetchedAt(file.data, f[1])

DiskOK == \A f \in DOMAIN disk : FileGood(f, disk[f])

\* Only a task about to write has a file open, and it is a file of its key or
\* the metadata file.
HandlesOK ==
    \A f \in DOMAIN disk : \A w \in disk[f].open :
        IF f[1] = MetaPath THEN req[w].pc = "meta_write"
        ELSE req[w].pc = "write" /\ f[1] = Path[req[w].key]

RequestGood(r) ==
    /\ GoodEntries(r.entries)
    /\ r.pc \in {"write", "rename", "insert"} => FetchedFor(r.rsp, r.key)
    /\ r.pc \in {"present", "hit"} => r.meta \in MetadataSet /\ FetchedFor(r.meta.rsp, r.key)
    /\ r.pc = "hit" /\ r.body.state # "empty" => FetchedAt(r.body.rsp, Path[r.key])

RequestsOK == \A w \in Workers : RequestGood(req[w])

IInv ==
    /\ TypeOK
    /\ GoodEntries(cache)
    /\ DiskOK
    /\ HandlesOK
    /\ RequestsOK

-----------------------------------------------------------------------------
(* What HitWithinTTL and KeepsPromise need besides.                        *)

\* A VHost proxy loads nothing, so its entries have the times of their stores.
TimesKept ==
    VHost =>
        /\ \A k \in DOMAIN cache : cache[k].created = cache[k].born
        /\ \A w \in Workers :
              req[w].pc \in {"present", "hit"} => AsSecs(req[w].at - req[w].meta.born) <= TTL

\* Response r is not newer than the body file of key k on disk d, if there is one.
NotNewer(r, k, d) == Bin(Path[k]) \in DOMAIN d => r <= d[Bin(Path[k])].data

EntriesNotNewer(m, d) == \A k \in DOMAIN m : NotNewer(m[k].rsp, k, d)

\* Body files are complete and nobody writes to them.
BodiesOK ==
    \A p \in Paths : Exists(Bin(p)) => disk[Bin(p)].state = "whole" /\ disk[Bin(p)].open = {}

MetaFilesOK ==
    \A f \in DOMAIN disk :
        f[1] = MetaPath /\ disk[f].state # "empty" => EntriesNotNewer(disk[f].data, disk)

\* r is the newest of the responses in h that go to path p.
Newest(r, p, h) == \A n \in DOMAIN h : Path[h[n]] = p => n <= r

\* A store carries the newest response of its path, alone in its temporary file.
StoreOrdered(w, r, d, h) ==
    LET f == Tmp(Path[r.key])
    IN  /\ r.pc \in {"write", "rename", "insert"} => Newest(r.rsp, Path[r.key], h)
        /\ r.pc = "write" /\ f \in DOMAIN d => d[f].state = "empty" /\ w \in d[f].open
        /\ r.pc = "rename" /\ f \in DOMAIN d => d[f].state = "whole" /\ d[f].data = r.rsp
        /\ r.pc = "insert" => NotNewer(r.rsp, r.key, d)

RequestOrdered(w, r, d, h) ==
    /\ EntriesNotNewer(r.entries, d)
    /\ r.pc = "present" => NotNewer(r.meta.rsp, r.key, d)
    /\ StoreOrdered(w, r, d, h)

\* No entry is newer than its body, wherever the entry is kept.
InOrder ==
    /\ BodiesOK
    /\ EntriesNotNewer(cache, disk)
    /\ MetaFilesOK
    /\ \A w \in Workers : RequestOrdered(w, req[w], disk, fetched)
=============================================================================
