----------------------------- MODULE RateLimiter -----------------------------
(***************************************************************************)
(* The rate limiting stage of a basic proxy: process_rate_limiting asks a  *)
(* "single" limiter, one bucket for all requests whose path is in a group  *)
(* (rate_limiting/single.rs), then a "multi" limiter, a cache of buckets   *)
(* by key (rate_limiting/multi.rs).  Nothing is awaited within the stage,  *)
(* so a worker thread runs it for one request at a time.                   *)
(*                                                                         *)
(* External: leaky_bucket (a bucket is its number of tokens) and concread's *)
(* ARCache (a lookup sees the buckets included so far; an insert is lost    *)
(* when the key has a bucket by then; a bucket drops out of a full cache). *)
(***************************************************************************)
EXTENDS Naturals, FiniteSets

CONSTANTS
    Threads,      \* worker threads
    Keys,         \* source addresses, or paths that match the pattern
    MaxTokens,    \* max_tokens_per_bucket of the multi limiter
    RefillQty,    \* refill_qty of the multi limiter
    MaxBuckets,   \* max_buckets of the multi limiter
    GroupTokens,  \* max_tokens_per_bucket of the single limiter
    GroupQty,     \* refill_qty of the single limiter
    None,         \* no value
    MaxTicks,     \* bound: refill intervals
    MaxRequests   \* bound: requests

ASSUME LimiterAssumption ==
    /\ IsFiniteSet(Threads)
    /\ MaxTokens \in Nat \ {0} /\ GroupTokens \in Nat \ {0}
    /\ RefillQty \in Nat /\ GroupQty \in Nat
    /\ MaxBuckets \in Nat \ {0}
    /\ MaxTicks \in Nat /\ MaxRequests \in Nat

VARIABLES
    group,     \* tokens of the single limiter
    cache,     \* the ARCache: key -> number of its bucket
    tokens,    \* tokens of every bucket ever made, by number
    thread,    \* what each worker thread is doing
    ticks,     \* refill intervals so far
    passed,    \* history: requests let through, by key
    inGroup,   \* history: requests let through by the single limiter
    included,  \* history: buckets of the key that entered the cache
    requests   \* requests so far

vars == <<group, cache, tokens, thread, ticks, passed, inGroup, included, requests>>

Free == [pc |-> "free", key |-> None, bucket |-> 0]

Smaller(m, n) == IF m < n THEN m ELSE n

\* Rater::new bounds refill_qty; the single limiter's is bounded by its bucket.
Refilled(n, qty, max) == Smaller(n + Smaller(qty, max), max)

-----------------------------------------------------------------------------
\* A request of key k; it may or may not be in the group.
Arrive(t, k) ==
    /\ thread[t].pc = "free"
    /\ requests < MaxRequests
    /\ requests' = requests + 1
    /\ \E pc \in {"group", "lookup"} :
          thread' = [thread EXCEPT ![t] = [pc |-> pc, key |-> k, bucket |-> 0]]
    /\ UNCHANGED <<group, cache, tokens, ticks, passed, inGroup, included>>

\* Mutant: the token is not taken.
TryAcquire_Keeps(n) == n

\* try_acquire(1) of a bucket with n tokens.
TryAcquire(n) == n - 1

\* SingleInstance::get_ticket and now_or_never.  A request that is declined is
\* answered with 429, the multi limiter is not asked.
AskGroup(t) ==
    /\ thread[t].pc = "group"
    /\ \/ /\ group > 0
          /\ group' = TryAcquire(group)
          /\ inGroup' = inGroup + 1
          /\ thread' = [thread EXCEPT ![t].pc = "lookup"]
       \/ /\ group = 0
          /\ thread' = [thread EXCEPT ![t] = Free]
          /\ UNCHANGED <<group, inGroup>>
    /\ UNCHANGED <<cache, tokens, ticks, passed, included, requests>>

\* Rater::get_ticket: the key's bucket, or a new one.
GetTicket(t) ==
    /\ thread[t].pc = "lookup"
    /\ LET k == thread[t].key
           new == Cardinality(DOMAIN tokens) + 1
       IN  IF k \in DOMAIN cache
           THEN /\ thread' = [thread EXCEPT ![t] = [@ EXCEPT !.pc = "acquire", !.bucket = cache[k]]]
                /\ UNCHANGED tokens
           ELSE /\ thread' = [thread EXCEPT ![t] = [@ EXCEPT !.pc = "insert", !.bucket = new]]
                /\ tokens' = [b \in DOMAIN tokens \cup {new} |->
                                 IF b = new THEN MaxTokens ELSE tokens[b]]
    /\ UNCHANGED <<group, cache, ticks, passed, inGroup, included, requests>>

\* Mutant: the new bucket replaces one that another thread has put in.
Lost_Never(k) == FALSE

\* Another thread's bucket is there already: this one serves one ticket only.
Lost(k) == k \in DOMAIN cache

\* reader.insert and reader.finish.
Insert(t) ==
    /\ thread[t].pc = "insert"
    /\ LET k == thread[t].key
           others == DOMAIN cache \ {k}
           With(keys) == [j \in keys \cup {k} |-> IF j = k THEN thread[t].bucket ELSE cache[j]]
       IN  \/ Lost(k) /\ UNCHANGED <<cache, included>>
           \/ /\ ~Lost(k)
              /\ included' = [included EXCEPT ![k] = IF k \in DOMAIN cache THEN @ ELSE @ + 1]
              /\ IF Cardinality(others) < MaxBuckets
                 THEN cache' = With(others)
                 ELSE \E old \in others : cache' = With(others \ {old})
    /\ thread' = [thread EXCEPT ![t].pc = "acquire"]
    /\ UNCHANGED <<group, tokens, ticks, passed, inGroup, requests>>

\* Ticket::now_or_never.
Acquire(t) ==
    /\ thread[t].pc = "acquire"
    /\ LET b == thread[t].bucket
       IN  IF tokens[b] > 0
           THEN /\ tokens' = [tokens EXCEPT ![b] = TryAcquire(@)]
                /\ passed' = [passed EXCEPT ![thread[t].key] = @ + 1]
           ELSE UNCHANGED <<tokens, passed>>
    /\ thread' = [thread EXCEPT ![t] = Free]
    /\ UNCHANGED <<group, cache, ticks, inGroup, included, requests>>

\* refill_interval_millis pass.
Refill ==
    /\ ticks < MaxTicks
    /\ ticks' = ticks + 1
    /\ tokens' = [b \in DOMAIN tokens |-> Refilled(tokens[b], RefillQty, MaxTokens)]
    /\ group' = Refilled(group, GroupQty, GroupTokens)
    /\ UNCHANGED <<cache, thread, passed, inGroup, included, requests>>

Init ==
    /\ group = GroupTokens
    /\ cache = [k \in {} |-> 0]
    /\ tokens = [b \in {} |-> 0]
    /\ thread = [t \in Threads |-> Free]
    /\ ticks = 0
    /\ passed = [k \in Keys |-> 0]
    /\ inGroup = 0
    /\ included = [k \in Keys |-> 0]
    /\ requests = 0

Next ==
    \/ \E t \in Threads :
          (\E k \in Keys : Arrive(t, k)) \/ AskGroup(t) \/ GetTicket(t) \/ Insert(t) \/ Acquire(t)
    \/ Refill

Spec == Init /\ [][Next]_vars

-----------------------------------------------------------------------------
(* Properties.                                                             *)

\* The requests of a key that pass are bounded by what its buckets hold and
\* get, with at most one request more per other worker thread: the tickets of
\* buckets that were made at the same time and thrown away.
PassedBounded ==
    \A k \in Keys :
        passed[k] <= included[k] * (MaxTokens + ticks * Smaller(RefillQty, MaxTokens)
                                        + Cardinality(Threads) - 1)

\* The requests of the group that pass are exactly bounded: one bucket.
GroupBounded == inGroup <= GroupTokens + ticks * Smaller(GroupQty, GroupTokens)

-----------------------------------------------------------------------------
(* The inductive invariant.                                                *)

\* Buckets are numbered as they are made.
Made == Cardinality(DOMAIN tokens)

CountersOK ==
    /\ group \in Nat /\ inGroup \in Nat
    /\ ticks \in Nat /\ requests \in Nat
    /\ passed \in [Keys -> Nat] /\ included \in [Keys -> Nat]

BucketsOK == Made \in Nat /\ tokens \in [1..Made -> 0..MaxTokens]

CacheOK == DOMAIN cache \subseteq Keys /\ \A k \in DOMAIN cache : cache[k] \in 1..Made

ThreadType ==
    {r \in [pc : {"free", "group", "lookup", "insert", "acquire"},
            key : Keys \cup {None}, bucket : 0..Made] :
        /\ r.pc # "free" => r.key \in Keys
        /\ r.pc \in {"insert", "acquire"} => r.bucket \in 1..Made}

ThreadsOK == thread \in [Threads -> ThreadType]

TypeOK == CountersOK /\ BucketsOK /\ CacheOK /\ ThreadsOK

\* What the single limiter has let through and can still let through.
GroupPaid == inGroup + group <= GroupTokens + ticks * Smaller(GroupQty, GroupTokens)

\* The threads that may let a request of key k pass with a bucket outside own:
\* they hold one, or their bucket will find that of another thread.
Extra(k, own) ==
    {t \in Threads :
        /\ thread[t].key = k
        /\ \/ thread[t].pc = "insert" /\ k \in DOMAIN cache
           \/ thread[t].pc = "acquire" /\ thread[t].bucket \notin own}

\* What a bucket that entered the cache is worth, with the tickets of the
\* buckets that it kept out.
Share == MaxTokens + ticks * Smaller(RefillQty, MaxTokens) + Cardinality(Threads) - 1

\* own: buckets of key k that have entered the cache; n[b] of them have a
\* number up to b, and these hold at most left[b] tokens together.
Account(k, own, n, left) ==
    /\ own \subseteq 1..Made
    /\ n \in [0..Made -> Nat] /\ left \in [0..Made -> Nat]
    /\ k \in DOMAIN cache => cache[k] \in own
    /\ \A a, b \in 0..Made : a <= b => n[a] <= n[b] /\ left[a] <= left[b]
    /\ \A b \in own : n[b - 1] + 1 <= n[b] /\ left[b - 1] + tokens[b] <= left[b]
    /\ n[Made] <= included[k]
    /\ passed[k] + left[Made] + Cardinality(Extra(k, own)) <= included[k] * Share

\* For every key the requests that passed and that still may pass are paid for.
Paid == \A k \in Keys : \E own, n, left : Account(k, own, n, left)

IInv == TypeOK /\ GroupPaid /\ Paid
=============================================================================
