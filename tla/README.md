# Stryvo: a TLA+ model of the proxy's core

Stryvo (`src/source/stryvo`) is a reverse proxy built on pingora.  It serves *basic*
proxies (one set of upstreams) and *VHost* proxies (many domains behind one listener,
certificates from an ACME authority), with a response cache on disk, rate limits,
request filters, compression, a static file server and log files written by threads of
their own.  This directory models the server from its configuration to its answers,
checks the models with TLC on small instances and proves their safety properties with
TLAPS for every instance.

Source paths below are relative to `src/source/stryvo/src`.

## 1. Inventory

| Component | State | Operations | What is hard | What makes it correct |
|---|---|---|---|---|
| Response cache (`proxy/cache/service.rs`, `persistence.rs`) | map of metadata behind a mutex, one body file per CRC32 of a key, one metadata file | `get_cache`, `put_cache`, `store`, `clean_stale_metadata_with_key`, `load`, background cleanup | awaits between critical sections, shared temporary names, crashes between rename, insert and metadata write | a hit is a stored response of its key, whole, of one piece, within its TTL; bounded size |
| ACME manager (`acme/manager.rs`, `challenge.rs`) | known certificates, pending domains, challenges, event channel, key and certificate files | startup acquisition, daily check, one order, load at start | two tasks, a crash between key and certificate, a bounded channel, a runtime that ends | key and certificate match; every domain gets its certificate; renewal before expiry; the chain is the issuer's |
| Certificate files (`acme/certificate.rs`) | none | parse, expiry | torn files, pairs that do not match | invalid files are found at load |
| TLS certificate manager (`proxy/vhost/certificate_manager.rs`) | three maps under three locks | construction, hot reload, SNI callback | handshakes during a reload | a handshake gets its domain's certificate; no return to bootstrap |
| VHost service (`proxy/vhost/service.rs`) | the above, one listener thread | start, reload on events, the `ProxyHttp` callbacks | a temporary runtime builds it | events lead to reloads |
| VHost router (`proxy/vhost/router.rs`) | domain map, balancers that are never filled | match, route, select | wildcard matching, two maps with different keys | routed where covered |
| Rate limiters (`proxy/rate_limiting`) | one bucket; an ARCache of buckets | ticket, acquire, refill | threads racing on an unseen key, eviction | bounded number of admitted requests |
| Request pipeline (`proxy/pipeline.rs`, `header_utils.rs`, `compression.rs`, `proxy/mod.rs`) | a context per request, spawned stores | lookup, filters, header and body callbacks | callbacks that share a context, bodies that break off | only whole storable responses are stored; answers are decodable |
| Basic upstream selection (`proxy/request_selector.rs`, `proxy/mod.rs`) | selector buffer of the context, balancer | `request_filter`, key, `upstream_peer` | the buffer is used for two purposes; a request may select twice | equal keys, equal upstream |
| Static file server (`files.rs`) | the file system | `resolve_path`, `serve_file` | links, `..`, files that go away between two calls | the file named, below the base path, or 404 |
| Logging (`logging.rs`) | a channel, a thread and a buffer per file | `write`, `writer_task_sync`, `init_logging`, `Drop` | events emitted from within events, full channels, failing writes, fork after thread start | accepted lines are written once and in order; writers get on |
| Configuration (`config/`) | none | three front ends, command line, `validate` | three languages for one `Config`, layers applied at different times | what runs is what was written; what is not understood is refused |
| Listeners and start (`main.rs`, `utils.rs`) | services built so far | `main`, `populate_listners`, constructors | certificate files that change between check and use | what was validated starts |
| Filters and modifiers (`request_filters.rs`, `..._modifiers.rs`) | none | refuse, edit headers | order relative to the cache | stored headers are the upstream's |

Interaction: the pipeline calls the cache (`get_cache` at once, `put_cache` in a spawned
task) and the rate limiters; the VHost service calls the router, answers ACME challenges
from the manager's store, and forwards the manager's events to the TLS manager; TLS
handshakes read the TLS manager's maps; every thread logs.  Cache, ACME
manager and log files share state with an earlier and a later process through files.

The hazards, each at its line, are listed in `PROJECT.json`.

## 2. Modules

```
ResponseCache          what the pipeline may rely on (abstract)
CacheStore             cache + persistence; implements ResponseCache
CertFiles              certificate and key files
AcmeManager            EXTENDS CertFiles
CertificateManager     EXTENDS CertFiles
AutoSsl                AcmeManager + CertificateManager + VHost service start
VHostRouter            which domain of a VHost proxy a request goes to
RateLimiter            both limiters
RequestPipeline        one request from lookup to store; uses the promise of ResponseCache
ConfigLoad             from a file and the command line to Config (operators)
ServerStart            main(); EXTENDS ConfigLoad
FileServer             static files
UpstreamSelection      selection of a basic proxy's backend
Server                 ServerStart + FileServer + UpstreamSelection
AsyncLog               log files and their threads
NumberSets             induction for sets of numbers
...Proofs              theorems about CacheStore, AutoSsl, VHostRouter, RateLimiter,
                       RequestPipeline, Server and AsyncLog
MC...                  instances for TLC
```

### CacheStore

One action per stretch of code between two awaits or file-system calls.  A response is
the number of its upstream fetch; `fetched` is a history variable.

| Variable | Code |
|---|---|
| `cache` | `SccMemoryCache.cache`: key to (response, `created_at`); `born` is history |
| `disk` | files as inodes: state (empty, whole, mixed), contents, tasks that have it open |
| `req[w]` | what task `w` does: `pc`, the metadata it cloned, its copy of entries, the persistence work left (`todo`) |
| `phase`, `crashes`, `faults`, `now` | process, failures, clock |

`GetLookup` ... `Deliver` are `get_cache`; `PutOpen` ... `PutEvict` are `put_cache`;
`Store`, `MetaOpen`, `MetaWrite`, `MetaRename` are `store_immediate`; `Clean`,
`CleanRead` and `CleanDelete` (once per orphan) are `clean_stale_metadata_with_key`.  The
clock has `Second` ticks in a second, and ages are compared as `Duration::as_secs` gives
them (`AsSecs`): an entry is served until just under `TTL + 1` seconds after its store.  A basic proxy starts with `Load`
(in `ServeBasic`); a
VHost proxy loads nothing, and its background tasks (`InitialStore`,
`OrphanedFilesCleanup`) run only until the runtime that built the service is dropped
(`ServeVHost`).  The tasks of a basic proxy never run: `ServiceRegistry::register`
starts them on a current-thread runtime whose `block_on` returns at once.

`ResponseCache` promises: a hit's header and body belong to responses fetched for the key
asked for, the body is whole and not older than the header.  `KeepsPromise` states that
CacheStore implements it under the mapping `Shown`.  It is stated for behaviours that stay
`Calm` (`CalmSpec`): any number of tasks look up and store, but no two of them store into
one body file at the same time, and no two keys that were stored share a CRC32.  The code
sees to neither.  Without the first, the promise breaks (run `cache_shared_tmp`); without
the second, a lookup may be given another key's body, and what is left is
`HitFromSamePath` (theorem `HitTheorem`).

### AcmeManager, CertificateManager, AutoSsl

`task["startup"]` and `task["renewal"]` are the thread of
`run_startup_acquisition_after` and the daily task of `start_renewal_task`; both run
`obtain_certificate`, one action per await or file operation (`NewOrder`, `Validate`,
`Finalize`, `KeyOpen`, `KeyWrite`, `Download`, `CrtOpen`, `CrtWrite`, `Install`).  A file
write is a truncation (`Torn`) and a write.  `reload` is the listener thread inside
`reload_domain_certificate_with_paths`, `locks` the maps it holds; `shake` are handshakes
inside the SNI callback.  A start goes through `phase`: `Start` is `VHostProxyService::new` up to
`initialize`, which spawns the daily task; `Subscribe` is the eager installation of what was
loaded and the subscription (events sent before it are lost); `Spawn` starts the thread of
the startup acquisition, which sleeps 5 seconds; `Serve` is the return of
`stryvo_vhost_service`, which drops the runtime and with it the daily task, and the listeners
coming up.  Nothing orders that thread's waking after `Serve`: it may begin before, and then
every validation fails, since challenges are answered by a listener that serves only.

### VHostRouter

`mappings` is the HashMap in its iteration order, chosen in `Init`.  `MatchParts` is
`match_domain_parts`, a recursive function over the parts of the pattern that gives the
numbers of labels each beginning of it takes; `Matches` is the reference definition from
the comments: the host can be cut into one piece per part.  `SelectUpstreamPeer` ends with
the entry whose upstreams a request goes to (`last`).  Which of them it is, is not
modelled: `create_vhost_upstream` builds a balancer with `from_backends` and never calls
`update()` (`router.rs:101-103`), so that it has no backends, its `select` returns nothing and
the first upstream is taken, always.  `vhost-system.md:114` ("Round Robin: Equal
distribution across upstreams") does not hold of the code.

### RateLimiter

Threads (`thread`) get a ticket (`GetTicket`, `Insert`) and use it (`Acquire`); `cache`
is the ARCache from keys to buckets, `tokens` the buckets that exist, `group` the bucket
of the single limiter.

### RequestPipeline

`vhost` is the kind of the proxy, chosen in `Init`.  `ctx[r]` is `StryvoContext` plus the
place of the request in pingora's callbacks, `spawned` the `put_cache` tasks that have not run, `stored` what was stored.  A chunk
names its response, place, size and coding.  Header fields are a function from names to
whose values they have, the upstream's or the proxy's: `set_cache_headers` replaces `server` and
`x-cache` and adds to `pragma`, the response modifiers (`RemoveHeaderKeyRegex`,
`UpsertHeader`) remove and replace.  A basic proxy keeps its copy of the header for the
cache before both, a VHost proxy after `set_cache_headers` (`vhost/service.rs:673`); hits are
written without modifiers.  What one call of `compress` returns is a piece of the answer
(`out`): a complete stream of its own, or the data as it was.

### ConfigLoad, ServerStart

`ConfigLoad` has, for each part of a document, an operator that says whether a format's
front end accepts it (`ListenerAccepted`, `RulesAccepted`, ...) and one for what it makes
of it (`Listener`, `Rules`, ...), then the layers (`FileConf`, `ApplyCli`) and
`Config::validate` (`ValidConf`).  A document is a record of abstract settings: "absent"
is what is not written, "other" what no front end knows.  Filters are kept by the block of
path-control they stand in (`Blocks` says which a front end reads).  What TOML silently
leaves out is left out: rate limiting, balancing, the cache, request filters, the ssl flag
and HTTP/2 of a listener.  `ServerStart` is `main`:
`Load`, `Layer`, `Validate`, one `BuildService` per service in the order of `main`, and
`Bootstrap`, which ends a run with `--validate-configs` ("tested").  A refusal is a panic
("refused").  `ChangeDisk` changes a certificate file between any two steps;
`StartAgain` is the start that follows a validation.

### FileServer, UpstreamSelection, Server

A path is a sequence of components and `tree` the file system, with links.
`Canonicalize` is the system's; `ResolvePath` and `ServeFile` are the two halves of a
request, between which `RemoveFile` may happen.  In `UpstreamSelection` `req[r].buf` is
`selector_buf`, `owner` which backend a hashing balancer gave a key.  `Server` runs both
with the settings that `ServerStart` computed from the file, so that a mistake in a front
end shows in where a request goes.

### AsyncLog

`stack[a]` is the call stack of an actor (a thread or a writer) as the events it is
emitting: `Send` is a successful `try_send`, `Discard` a full channel, whose warning is
an event inside the event, and `Overflow` the end of the stack.  `Receive` takes a line
into `buf` and decides about writing; `WriteAll` and `WriteFails` are the two outcomes of
the write, the latter with an event of the writer's own.  `RunForever` is the fork of a
daemon, which leaves the writer threads behind; `SecondRun` the truncation by another
process.  `accepted` and `lost` are histories.

## 3. Runs

Passing runs:

| Run | Shows | Distinct states |
|---|---|---|
| `cache_promise` | TypeOK, capacity, and that CacheStore implements ResponseCache: one getter, one putter, two keys in one shard, capacity one, a crash, a failing call | 2.3 M |
| `cache_shared` | that CacheStore implements ResponseCache with two tasks of a VHost proxy that both look up and store, while calm: two keys, a crash, failing calls | 0.8 M |
| `ssl_safety` | key pairs match in acceptors and handshakes, nothing is downgraded: two domains, midnights, a crash, a failure, a handshake | 1.6 M |
| `ssl_served` | every domain is eventually and for good presented its certificate in handshakes, crashes at any step | 0.7 M |
| `router` | every one-domain configuration and every host up to four labels, overlapping domains in any order | 32 k |
| `rate_limits` | three threads, two keys, one bucket in the cache | 0.4 M |
| `pipeline` | both kinds of proxy, two requests for one key or two, two codings, bodies of up to two chunks, two response modifiers | 1.0 M |
| `start` | what runs is what the file asks for; validated configurations start; files and backends of requests: 324 services, each in every format that can express it, command lines, three states of the certificate files and one change of them | 0.9 M |
| `log` | accepted lines in order, what can bring the process down, writers that get on: two threads, channels and buffers of one line, stacks of two events, one fault | 0.2 M |

Runs that end in a violation show a disagreement between the code and what its docs or
comments say (`findings` in `PROJECT.json` quotes them):

| Run | The code |
|---|---|
| `cache_restart_ttl` | a restart gives cached responses a new TTL |
| `cache_shared_tmp` | two stores of one key share a temporary file, a lookup gets an incomplete body |
| `ssl_renewal` | the daily check is cancelled when the service is built |

Where a property is narrower than one would like, it is because of what the code does:

* a lookup that overlaps a store can return the header of one response and the body of a
  later one, so `ResponseCache` promises "not older" (`proxy/cache/service.rs:183,254`);
* `RoutedWhereCovered` leaves out patterns with adjacent wildcards inside: there one label
  can stand for both (`router.rs:464`).  It demands that a covered host is found only for
  patterns with their wildcards in front: the search takes the rightmost occurrence of the
  label before a wildcard and never goes back (`router.rs:482`);
* `AnswerReadable` speaks of answers that were compressed in one piece of at least
  `MinSize`.  A smaller piece is sent as it is under a header that announces a coding
  (`compression.rs:261`), and a body of several chunks becomes several streams one after
  the other (`compression.rs:184`, `proxy/mod.rs:563`), which clients need not accept;
* `StoredWhole` compares fields with what the upstream sent for a basic proxy, and for a
  VHost proxy with that after `set_cache_headers` (`KeptFields`);
* `OnlyStorableStored` and `BrowserToldAlike` speak of basic proxies: a VHost proxy keeps
  the changed header of any response, so that with browser caching it stores what is
  marked `no-store` (`caching-system.md:347` says otherwise), and its context never learns whether browsers may
  cache (`vhost/service.rs:350,673`);
* nothing is said of chains: after the first order they contain leaves of other domains
  (`acme/manager.rs:752`), and a default certificate is sent with the chain of the
  requested domain;
* `EventuallyServed` says "from some time on": during a reload every handshake is given
  the default certificate, since `try_read` fails (`certificate_manager.rs:313`;
  `vhost-system.md:95` says "without service interruption");
* `Sticky` leaves out `SourceAddrAndUriPath`, whose key begins with a time that
  `request_filter` left in the buffer (`request_selector.rs:35`);
* `NothingDropped` speaks of KDL, and of the blocks of path-control that KDL knows: others
  are ignored (`config/kdl/mod.rs:258-268`).  YAML skips incomplete rules, turns unknown
  selections into RoundRobin and hashes without a key (`config/yaml.rs:733`).  TOML ignores
  rate limiting, balancing and request filters without a word (`config/toml.rs:70-99,141-169`):
  a limit or a block list in a TOML file is not in force.  The property compares
  connectors by address, since backends of one address become one (`proxy/mod.rs:258`);
* `TlsAsWritten` leaves out listeners of Unix sockets: a KDL listener whose name is no
  socket address is one, and plain, even with a certificate (`config/kdl/mod.rs:1030-1035`);
* nothing is said of the number of threads a limiter is made for: it is right unless it
  comes from the command line, which is applied after the limiters' settings
  (`kdl/mod.rs:770`), or the file is YAML, where it is always 8;
* `FilesAsAsked` demands files of base paths without links that are absolute, or empty,
  which is the working directory: a relative one serves nothing (`files.rs:50`);
* `ValidatedStarts` knows of certificate files: a start may still fail because an address
  is taken or the old process hands over no sockets, which is not modelled;
* `Drained` leaves out daemons, whose writer threads stay behind in the process that
  forked (`main.rs:71`), and speaks of channels: lines may stay in a buffer until the next
  line comes, and are lost at exit (`logging.rs:148,180`).

**Bounds.**  Every bound is a constant (`MaxTime`, `MaxPuts`, `MaxCrashes`, `MaxFaults`,
`MaxDay`, `MaxFailures`, `MaxRequests`, `MaxTicks`, `MaxChunks`, `MaxFetches`,
`MaxChanges`, `MaxTries`, `MaxEvents`) in a guard.  `Capacity`, `BufferLimit` and
`StackDepth` of AsyncLog are limits of the program, made small.
They are chosen so that the interesting cases happen: two keys and capacity one for
eviction; two fetches of a key for replacement; time beyond the TTL; one crash between
any two steps and one more for the certificates; one more key than buckets; two days for
a lifetime of two; a channel of one line, so that the second one finds it full; two
requests with two calls of `upstream_peer` each, so that a key comes again after others;
half seconds (`Second = 2`) in `cache_restart_ttl`, where ages are compared.
In `pipeline` a chunk has the minimum size, and a body of two chunks exceeds `MaxFileSize`;
`BrowserCache` is TRUE.  Pieces that are too small and `BrowserCache = FALSE` are left to the theorems.
`cache_promise` has one task that stores and `cache_shared` two.  The CONSTRAINT `Calm` of
`cache_shared` keeps TLC to the behaviours of `CalmSpec`.
Documents of the run `start` differ from an ordinary one in one respect, or in two that
meet in the code: front ends treat the parts of a document independently.  `RateLimiter` uses symmetry of threads and keys (no liveness is
checked there).  `RequestPipeline` uses symmetry of requests and of keys.  Deadlock is checked except
where a bound or the end of the work lets the system stop (router, rate limiter, start,
log, the liveness and violation runs of AutoSsl).

**Fairness.**  `AutoSsl!FairSpec` and `AsyncLog!FairSpec` state some.  AutoSsl: a process that went down is started
again, its threads run (they are operating-system threads and ready tokio tasks), days pass.
The authority answers (failures are bounded by `MaxFailures`, 0 in the liveness run:
a failed acquisition is not retried by the code until the next start).  AsyncLog: writer
threads run and their file-system calls return, well or badly; a thread inside an event
goes on.  Nothing is assumed of threads starting events, of time passing or of exits.

`EventuallyServed` has two premises that the code does not see to.  The startup acquisition
works only while the server serves: it sleeps 5 seconds (`acme/manager.rs:449-463`) in a thread
that was spawned before the listeners run (`proxy/mod.rs:229-240`), and when the rest of the
start takes longer, validations fail and are not tried again before the next start.  And
the daily check never works: when a start runs over midnight, it drains the pending
domains, is cancelled with its runtime, and the startup acquisition finds nothing to do.
The property also needs an event channel that holds one event per domain, and a process
that does not fork: in a daemon (`main.rs:71`) the acquisition's thread and the listener of
certificate events stay behind in the parent and no certificate is ever obtained.

## 4. Proofs

A component's theorems are in a module of their own.  They hold for every value of the
constants that satisfies the assumptions stated in the component's module; TLC
evaluates those assumptions on every run.

| Module | Theorem | States |
|---|---|---|
| `CacheStoreProofs` | `Invariance`, `TypeCorrect`, `CapacityTheorem`, `HitTheorem`, `FreshTheorem`, `PromiseKept` | `IInv`, `TypeOK`, `CapacityRespected`, `HitFromSamePath`, `HitWithinTTL` of a VHost proxy, the refinement `KeepsPromise` of calm behaviours |
| `AutoSslProofs` | `TypeCorrect`, `KeyPairsMatch`, `NoDowngrade` | `TypeOK`, `KeyPairMatches`, the action property `NeverDowngraded` |
| `RequestPipelineProofs` | `WholeResponsesStored`, `StorableOnly`, `AnswersReadable`, `BrowsersToldAlike` | `StoredWhole`, `OnlyStorableStored`, `AnswerReadable`, `BrowserToldAlike` |
| `VHostRouterProofs` | `RouterTypeCorrect`, `RoutedWhereMeant` | `TypeOK`, `RoutedWhereCovered` |
| `RateLimiterProofs` | `GroupIsBounded`, `PassedIsBounded` | `GroupBounded`, `PassedBounded` |
| `AsyncLogProofs` | `LogTypeCorrect`, `LinesAccounted`, `AbortsByAccessOnly` | `TypeOK`, `LogAccounted`, `AbortedByAccessOnly` |
| `ServerProofs` | `Invariant`, `ServerTypeCorrect`, `TlsExactlyAsWritten`, `KdlDropsNothing`, `ValidationHolds`, `VHostsAreReady`, `FilesServedAsAsked`, `SelectionsStick` | `IInv`, `TypeOK`, `TlsAsWritten`, `NothingDropped`, `ValidatedStarts`, `VHostReady`, `FilesAsAsked`, `Sticky` |

Each of them has the same shape: `Init => IInv`, `IInv /\ [Next]_vars => IInv'` with one
step per action, and `IInv` implies the property.  Every `IInv` was an invariant of the
component's run before it was proved.

**CacheStore.**  Neither `CapacityRespected` nor `HitFromSamePath` is inductive.  `load`
fills the map from the metadata file without looking at the capacity, so the bound has
to hold for what is on disk; a file is written from a copy of the map that a task took
earlier, so it has to hold for the copies; and a handle writes to whatever name its
inode now has, so one must know which task can have which file open.  `IInv` is the
conjunction of `TypeOK`, `GoodEntries(cache)` (finite, within capacity, every entry
fetched for its key), `DiskOK` (the same of metadata files; bodies fetched for a key of
their path, under the final and the temporary name), `HandlesOK` (only a task about to
write has a file open, and one of its own key or the metadata file) and `RequestsOK`
(the same of tasks' copies and of the response they carry).

`FreshTheorem` adds `TimesKept`: the map of a VHost proxy is filled by `put_cache` alone,
so its times are those of the stores, and a task that is past the test of the TTL carries
an entry that passed it.  A basic proxy reloads times that `serialize_instant` made new
(finding of run `cache_restart_ttl`), so the theorem is about VHost proxies.

`PromiseKept` is the refinement of `ResponseCache`, step by step: `PutOpen` is `Fetch`,
a `GetRead` that finds the body is `Hit`, all others forget hits or show nothing.  The
hard conjunct of `Hit` is that the body is not older than the headers, although entry and
file are read in two steps and entries come back from copies and from the metadata file.
`InOrder` says it of all places an entry can be kept in (`EntriesNotNewer`: map, metadata
files, tasks' copies, the entry of a lookup) and of the store itself (`StoreOrdered`: it
carries the newest response of its file, alone in its temporary file, so that a rename publishes
nothing older than what any entry names).  `StoreOrdered` needs `Calm`: the response a task
carries is the newest of those that go to its file, since no other task stores into it.

**AutoSsl.**  A certificate is written as two files, and read as two files by a thread
that knows of the writer only through an event.  `IInv` says that never two tasks work on one
domain, although both may run before the server serves (`TasksApart`: the one that drains
the pending domains first has them all, and the other is left with managed ones), which pair the two files of a domain can form at
each place of that task, that the acceptor in use is not newer than the files
(`DomainGood`), and that an acceptor that was loaded and not yet swapped in lies between
the two (`ReloadGood`).  From the last follows `NeverDowngraded`: a late reload
cannot bring back an older certificate.  Handshakes hold what some map held
(`ShakeGood`).

**RequestPipeline.**  `CtxGood` follows one exchange through the filters: what was
collected for the cache is a prefix of the fetched body, and the copy of the header is
`KeptFields` of the upstream's whatever the filters do to the header that goes on.  `PutGood` says it of the spawned and of the
executed stores.  `AnswerGood` is about what was sent: its pieces are in the coding the header
names and decode to the fetched body, from a hit (`HitReadable`) and from a miss
(`MissReadable`).

**VHostRouter.**  `RoutedWhereCovered` compares the greedy search of
`match_domain_parts` with `Matches`, which may cut anywhere.  `RoundsExist` shows that
the recursion has a solution, so that `MatchParts` can be unfolded (`MatchByRounds`), and
`MatchFits` and `LeadingExact` compare each round with what can be cut (`Fits`), by induction
over the rounds: without adjacent wildcards what is accepted can be cut
(`MatchPartsSound`), and with all wildcards in front what can be cut is accepted
(`MatchPartsComplete`).  For a wildcard inside a pattern the search is not complete, since it never
goes back to an earlier occurrence of a label.
`NumberSets` has an
induction principle for sets of numbers, proved from the pigeonhole theorem of the
library, which this and `ServerProofs` use.

**RateLimiter.**  Buckets that two threads make for one key at the same time are not
equal: the later insertion is lost, its ticket is not.  `Paid` is an account per key: the
requests that passed, plus the tokens left in its buckets, plus the tickets that threads
hold on buckets that are in no cache, are at most what the buckets made were given and
were refilled with.  `GroupPaid` is the same for the single limiter.  Threads are
finitely many (`LimiterAssumption`).

**AsyncLog.**  `LogAccounted` is about order: file, buffer and channel together are what
was accepted, in order, without what was lost.  Inductive with it: `Numbered` and
`Unsent` (an event is accepted once per channel), `Nested` (an event within an event is a warning about a full access
channel) and `Quiet`.  `AbortedByAccessOnly` uses `Nested` and `StackDepth >= 2`: one
event about a failed write or a full error channel fits.

**Server.**  One invariant over start, files and selection.  `StartInv`: the
configuration in use is the one the front ends make of the document given at start
(`Given`, `Configured`), each service built is what its constructor makes of its part
of the configuration (`BuiltAs`), built in the order of `main` (`Unchanged` services are
not yet built) and, if vetted, on the certificate files that were validated (`Vetted`).  `TlsAsWritten`,
`NothingDropped` and `VHostReady` then follow by computing through
`ConfigLoad`, format by format.  `FilesAsAsked` needs `TreeInv` (what exists is part of `Tree`
and every path's parent is a directory) and lemmas about `Canonicalize`: without links
and `..` it is the identity on what exists.  `Sticky` needs `Owned`: a pick with a
hashing selection has the backend that owns its key.  `StartAssumption` says that
what is given as TOML are basic proxies (`config/toml.rs` has no others), `TreeAssumption`
that `Tree` is a file tree.  `VHostReady` follows from what the constructor loads
(`fallback`), not from what was validated.

Only model-checked:

* The properties of the violation runs, which do not hold of the code they are about.
* `EventuallyServed`, `Drained`: liveness is out of the prover's reach, as is
  everything with ENABLED.

## 5. Abstractions

* A torn file is empty; power loss without fsync is not modelled: a crash loses the
  process, not written data.
* `CleanRead` reads the metadata file and looks for the bodies of its entries in one step.
  Failing deletes inside `store` and the cleanup are logged by the code and ignored.
* `get_cache` never returns `Err`, so the pipeline's ERROR status does not occur.
  `is_cacheable` is not reached with a cache.
* Caches are enabled; content types are compressible; the in-memory encoders do not fail.
  Response sizes are small numbers with the minimum size scaled down.
* A certificate covers the domain it was ordered for.  The authority (orders, validation,
  downloads) is external, as are `tokio::fs`, ARCache (the first insertion of a key wins),
  leaky-bucket and pingora.
* Documents are records; the grammar of KDL, YAML and TOML is not represented.  Hashing
  balancers are functions of the key, chosen as keys come.  A link leads to its
  target in one step.
* The stack of a thread is a number of nested events.  What a second run writes into the
  truncated files is left out, and so is the hole: the first process keeps its offset in
  a file that was truncated (`logging.rs:68`), the model goes on from its empty beginning.
* A file that is replaced by a link between `canonicalize` and the read is not modelled.

## 6. Not modelled

* The grammar of the configuration formats: KDL argument slices and error spans
  (`config/kdl/utils.rs`), serde structs and defaults that no property tells apart, the
  settings of logging and ACME.  Pure functions of text without an interaction; the
  repository's tests cover them by example.
* Request modifiers and the address ranges of the CIDR filter: edits and tests of one
  request, read by nothing else here.
* The text of log lines (`log_access_comprehensive` and the like) and the console layer.
* Generation of the self-signed bootstrap certificate, and byte-level detection of a
  cached body's coding: both are about bytes, which the models abstract from.
* `create_domain_tls_settings`, the asynchronous `get_certificate` and other functions
  without a caller that changes state.

## 7. Plan

Done: all modules above, in the order cache, certificates, routing, limits, pipeline,
log, start, and the theorems of section 4.  Left, most important first:

1. The weaker promise that CacheStore keeps when several tasks store one key at once, or keys
   share a CRC32, as a refinement.
2. The balancers of a VHost proxy as the code builds them, with a run about
   `vhost-system.md:114`; multi-chunk answers with one about `compression-system.md:69`.
