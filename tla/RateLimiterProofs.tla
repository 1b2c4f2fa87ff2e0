-------------------------- MODULE RateLimiterProofs --------------------------
(***************************************************************************)
(* Proofs about RateLimiter: how many requests the single and the multi    *)
(* limiter let through, for every number of threads, keys, tokens, refills *)
(* and requests.                                                           *)
(***************************************************************************)
EXTENDS RateLimiter, FiniteSetTheorems, TLAPS

USE LimiterAssumption

(* Numbers.                                                                *)

\* The smaller of two numbers.
LEMMA SmallerInNat ==
    ASSUME NEW m \in Nat, NEW n \in Nat
    PROVE  Smaller(m, n) \in Nat /\ Smaller(m, n) <= m /\ Smaller(m, n) <= n
BY DEF Smaller

\* A refill adds at most the quantity and stops at the maximum.
LEMMA Refilling ==
    ASSUME NEW n \in Nat, NEW qty \in Nat, NEW max \in Nat
    PROVE  /\ Refilled(n, qty, max) \in 0..max
           /\ Refilled(n, qty, max) <= n + Smaller(qty, max)
BY SmallerInNat DEF Refilled, Smaller

\* Products.
LEMMA Times ==
    ASSUME NEW a \in Nat, NEW b \in Nat, NEW c \in Nat
    PROVE  /\ a * b \in Nat
           /\ a * (b + c) = a * b + a * c
           /\ (a + c) * b = a * b + c * b
           /\ (a + 1) * b = a * b + b
           /\ a * b = b * a
           /\ a <= c => a * b <= c * b
OBVIOUS

\* There are finitely many threads.
LEMMA ThreadCount == Cardinality(Threads) \in Nat
BY FS_CardinalityType

\* What one bucket may pass is at least what it starts with.
LEMMA ShareInNat == TypeOK => Share \in Nat /\ Share >= MaxTokens + Cardinality(Threads) - 1
<1>1. SUFFICES ASSUME TypeOK PROVE Share \in Nat /\ Share >= MaxTokens + Cardinality(Threads) - 1
  OBVIOUS
<1>2. ticks \in Nat /\ Smaller(RefillQty, MaxTokens) \in Nat
  BY <1>1, SmallerInNat DEF TypeOK, CountersOK
<1>3. ticks * Smaller(RefillQty, MaxTokens) \in Nat
  BY <1>2, Times
<1> QED
  BY <1>3, ThreadCount DEF Share

-----------------------------------------------------------------------------
(* Types.                                                                  *)

\* The first state.
LEMMA InitTypeOK == Init => TypeOK
<1>1. SUFFICES ASSUME Init PROVE TypeOK
  OBVIOUS
<1>2. DOMAIN tokens = {} /\ DOMAIN cache = {}
  BY <1>1 DEF Init
<1>3. Made = 0
  BY <1>2, FS_EmptySet DEF Made
<1>4. BucketsOK
  BY <1>1, <1>3 DEF Init, BucketsOK
<1>5. Free \in ThreadType
  BY <1>3 DEF Free, ThreadType
<1>6. ThreadsOK
  BY <1>1, <1>5 DEF Init, ThreadsOK
<1>7. CountersOK /\ CacheOK
  BY <1>1, <1>2 DEF Init, CountersOK, CacheOK
<1> QED
  BY <1>4, <1>6, <1>7 DEF TypeOK

\* A thread that moves on, among as many buckets or more.
LEMMA ThreadMoves ==
    ASSUME TypeOK, Made' \in Nat, Made' >= Made, NEW t \in Threads, NEW r,
           r \in ThreadType', thread' = [thread EXCEPT ![t] = r]
    PROVE  ThreadsOK'
<1>1. 0..Made \subseteq 0..Made' /\ 1..Made \subseteq 1..Made'
  BY DEF TypeOK, BucketsOK
<1>2. ThreadType \subseteq ThreadType'
  BY <1>1 DEF ThreadType
<1>3. thread \in [Threads -> ThreadType']
  BY <1>2 DEF TypeOK, ThreadsOK
<1> QED
  BY <1>3 DEF ThreadsOK

\* Buckets are numbered one after the other.
LEMMA NewBucket ==
    ASSUME TypeOK, NEW t \in Threads, GetTicket(t), thread[t].key \notin DOMAIN cache
    PROVE  /\ Made' = Made + 1 /\ Made \in Nat
           /\ tokens' \in [1..Made' -> 0..MaxTokens]
           /\ \A b \in 1..Made : tokens'[b] = tokens[b]
           /\ thread' = [thread EXCEPT ![t] = [thread[t] EXCEPT !.pc = "insert", !.bucket = Made + 1]]
<1>1. DOMAIN tokens = 1..Made /\ Made \in Nat
  BY DEF TypeOK, BucketsOK
<1>2. /\ tokens' = [b \in DOMAIN tokens \cup {Made + 1} |->
                      IF b = Made + 1 THEN MaxTokens ELSE tokens[b]]
      /\ thread' = [thread EXCEPT ![t] = [thread[t] EXCEPT !.pc = "insert", !.bucket = Made + 1]]
  BY DEF GetTicket, Made
<1>3. DOMAIN tokens' = 1..(Made + 1)
  BY <1>1, <1>2
<1>4. Made' = Made + 1
  BY <1>1, <1>3, FS_Interval DEF Made
<1> QED
  BY <1>1, <1>2, <1>4 DEF TypeOK, BucketsOK

\* Buckets are made by Insert alone.
LEMMA SameBuckets ==
    ASSUME DOMAIN tokens' = DOMAIN tokens
    PROVE  Made' = Made
BY DEF Made

\* A thread that is busy has a key, and from the lookup on a bucket.
LEMMA Busy ==
    ASSUME TypeOK, NEW t \in Threads
    PROVE  /\ thread[t] \in ThreadType
           /\ thread[t].pc # "free" => thread[t].key \in Keys
           /\ thread[t].pc \in {"insert", "acquire"} => thread[t].bucket \in 1..Made
           /\ thread[t].bucket \in 0..Made /\ thread[t].key \in Keys \cup {None}
           /\ thread[t] = [pc |-> thread[t].pc, key |-> thread[t].key, bucket |-> thread[t].bucket]
BY DEF TypeOK, ThreadsOK, ThreadType

\* Every step.
LEMMA NextTypeOK == TypeOK /\ [Next]_vars => TypeOK'
<1>1. SUFFICES ASSUME TypeOK, [Next]_vars PROVE TypeOK'
  OBVIOUS
<1>m. Made \in Nat /\ Made >= Made
  BY <1>1 DEF TypeOK, BucketsOK
<1>f. Made' = Made => Free \in ThreadType'
  BY <1>m DEF Free, ThreadType
<1>2. ASSUME NEW t \in Threads, NEW k \in Keys, Arrive(t, k) PROVE TypeOK'
  <2>1. Made' = Made
    BY <1>2 DEF Arrive, Made
  <2>2. PICK pc \in {"group", "lookup"} :
           thread' = [thread EXCEPT ![t] = [pc |-> pc, key |-> k, bucket |-> 0]]
    BY <1>2 DEF Arrive
  <2>3. PICK r : r = [pc |-> pc, key |-> k, bucket |-> 0]
    OBVIOUS
  <2>4. thread' = [thread EXCEPT ![t] = r]
    BY <2>2, <2>3
  <2>5. r \in ThreadType'
    BY <1>m, <2>1, <2>3 DEF ThreadType
  <2>6. ThreadsOK'
    BY <1>1, <1>m, <2>1, <2>4, <2>5, ThreadMoves
  <2>7. BucketsOK' /\ CacheOK'
    BY <1>1, <1>2, <2>1 DEF Arrive, TypeOK, BucketsOK, CacheOK
  <2>8. CountersOK'
    BY <1>1, <1>2 DEF Arrive, TypeOK, CountersOK
  <2> QED
    BY <2>6, <2>7, <2>8 DEF TypeOK
<1>3. ASSUME NEW t \in Threads, AskGroup(t) PROVE TypeOK'
  <2>1. Made' = Made
    BY <1>3 DEF AskGroup, Made
  <2>2. CountersOK'
    BY <1>1, <1>3 DEF AskGroup, TypeOK, CountersOK, TryAcquire
  <2>3. BucketsOK' /\ CacheOK'
    BY <1>1, <1>3, <2>1 DEF AskGroup, TypeOK, BucketsOK, CacheOK
  <2>4. PICK r : r = [thread[t] EXCEPT !.pc = "lookup"]
    OBVIOUS
  <2>5. r \in ThreadType'
    <3>1. thread[t].key \in Keys /\ thread[t] \in ThreadType
      BY <1>1, <1>3, Busy DEF AskGroup
    <3> QED
      BY <2>1, <2>4, <3>1 DEF ThreadType
  <2>6. thread' = [thread EXCEPT ![t] = r] \/ thread' = [thread EXCEPT ![t] = Free]
    BY <1>3, <2>4 DEF AskGroup
  <2>7. ThreadsOK'
    BY <1>1, <1>m, <1>f, <2>1, <2>5, <2>6, ThreadMoves
  <2> QED
    BY <2>2, <2>3, <2>7 DEF TypeOK
<1>4. ASSUME NEW t \in Threads, GetTicket(t) PROVE TypeOK'
  <2>0. CountersOK'
    BY <1>1, <1>4 DEF GetTicket, TypeOK, CountersOK
  <2>1. CASE thread[t].key \in DOMAIN cache
    <3>1. Made' = Made
      BY <1>4, <2>1 DEF GetTicket, Made
    <3>2. PICK r : r = [thread[t] EXCEPT !.pc = "acquire", !.bucket = cache[thread[t].key]]
      OBVIOUS
    <3>3. thread' = [thread EXCEPT ![t] = r]
      BY <1>4, <2>1, <3>2 DEF GetTicket
    <3>4. cache[thread[t].key] \in 1..Made /\ thread[t].key \in Keys
      BY <1>1, <2>1 DEF TypeOK, CacheOK
    <3>5. r \in ThreadType'
      <4>1. PICK k, b : k = thread[t].key /\ b = cache[thread[t].key]
        OBVIOUS
      <4>2. r = [pc |-> "acquire", key |-> k, bucket |-> b]
        BY <1>1, <3>2, <4>1, Busy DEF ThreadType
      <4> QED
        BY <1>m, <3>1, <3>4, <4>1, <4>2 DEF ThreadType
    <3>6. ThreadsOK'
      BY <1>1, <1>m, <3>1, <3>3, <3>5, ThreadMoves
    <3>7. BucketsOK' /\ CacheOK'
      BY <1>1, <1>4, <2>1, <3>1 DEF GetTicket, TypeOK, BucketsOK, CacheOK
    <3> QED
      BY <2>0, <3>6, <3>7 DEF TypeOK
  <2>2. CASE thread[t].key \notin DOMAIN cache
    <3>1. /\ Made' = Made + 1
          /\ tokens' \in [1..Made' -> 0..MaxTokens]
          /\ thread' = [thread EXCEPT ![t] = [thread[t] EXCEPT !.pc = "insert", !.bucket = Made + 1]]
      BY <1>1, <1>4, <2>2, NewBucket
    <3>2. PICK r : r = [thread[t] EXCEPT !.pc = "insert", !.bucket = Made + 1]
      OBVIOUS
    <3>3. thread[t].key \in Keys
      BY <1>1, <1>4, Busy DEF GetTicket
    <3>4. Made + 1 \in 1..Made' /\ Made + 1 \in 0..Made' /\ Made' \in Nat /\ Made' >= Made
      BY <1>m, <3>1
    <3>5. r \in ThreadType'
      <4>1. r = [pc |-> "insert", key |-> thread[t].key, bucket |-> Made + 1]
        BY <1>1, <3>2, Busy DEF ThreadType
      <4>2. PICK k, b : k = thread[t].key /\ b = Made + 1
        OBVIOUS
      <4> QED
        BY <3>3, <3>4, <4>1, <4>2 DEF ThreadType
    <3>6. ThreadsOK'
      BY <1>1, <3>1, <3>2, <3>4, <3>5, ThreadMoves
    <3>7. BucketsOK'
      BY <3>1, <3>4 DEF BucketsOK
    <3>8. CacheOK'
      BY <1>1, <1>m, <1>4, <3>1 DEF GetTicket, TypeOK, CacheOK
    <3> QED
      BY <2>0, <3>6, <3>7, <3>8 DEF TypeOK
  <2> QED
    BY <2>1, <2>2
<1>5. ASSUME NEW t \in Threads, Insert(t) PROVE TypeOK'
  <2>1. Made' = Made
    BY <1>5 DEF Insert, Made
  <2>2. thread[t].key \in Keys /\ thread[t].bucket \in 1..Made
    BY <1>1, <1>5, Busy DEF Insert
  <2>3. included' = included
        \/ included' = [included EXCEPT ![thread[t].key] =
                           IF thread[t].key \in DOMAIN cache THEN @ ELSE @ + 1]
    BY <1>5 DEF Insert
  <2>4. CountersOK'
    BY <1>1, <1>5, <2>2, <2>3 DEF Insert, TypeOK, CountersOK
  <2>5. CacheOK'
    <3> DEFINE k == thread[t].key
               With(keys) == [j \in keys \cup {k} |-> IF j = k THEN thread[t].bucket ELSE cache[j]]
    <3>1. ASSUME NEW keys, keys \subseteq DOMAIN cache, cache' = With(keys)
          PROVE  CacheOK'
      BY <1>1, <2>1, <2>2, <3>1 DEF TypeOK, CacheOK
    <3>2. \/ cache' = cache
          \/ cache' = With(DOMAIN cache \ {k})
          \/ \E old \in DOMAIN cache \ {k} : cache' = With((DOMAIN cache \ {k}) \ {old})
      BY <1>5 DEF Insert
    <3> HIDE DEF With
    <3> QED
      BY <1>1, <2>1, <3>1, <3>2 DEF TypeOK, CacheOK
  <2>6. BucketsOK'
    BY <1>1, <1>5, <2>1 DEF Insert, TypeOK, BucketsOK
  <2>7. PICK r : r = [thread[t] EXCEPT !.pc = "acquire"]
    OBVIOUS
  <2>8. r \in ThreadType'
    BY <1>1, <1>m, <2>1, <2>2, <2>7, Busy DEF ThreadType
  <2>9. thread' = [thread EXCEPT ![t] = r]
    BY <1>5, <2>7 DEF Insert
  <2>10. ThreadsOK'
    BY <1>1, <1>m, <2>1, <2>8, <2>9, ThreadMoves
  <2> QED
    BY <2>4, <2>5, <2>6, <2>10 DEF TypeOK
<1>6. ASSUME NEW t \in Threads, Acquire(t) PROVE TypeOK'
  <2>1. thread[t].key \in Keys /\ thread[t].bucket \in 1..Made
    BY <1>1, <1>6, Busy DEF Acquire
  <2>2. DOMAIN tokens' = DOMAIN tokens /\ tokens' \in [1..Made -> 0..MaxTokens]
    BY <1>1, <1>6, <2>1 DEF Acquire, TypeOK, BucketsOK, TryAcquire
  <2>3. Made' = Made
    BY <2>2, SameBuckets
  <2>4. CountersOK'
    BY <1>1, <1>6, <2>1 DEF Acquire, TypeOK, CountersOK
  <2>5. thread' = [thread EXCEPT ![t] = Free]
    BY <1>6 DEF Acquire
  <2>6. ThreadsOK'
    BY <1>1, <1>m, <1>f, <2>3, <2>5, ThreadMoves
  <2>7. CacheOK'
    BY <1>1, <1>6, <2>3 DEF Acquire, TypeOK, CacheOK
  <2> QED
    BY <1>m, <2>2, <2>3, <2>4, <2>6, <2>7 DEF TypeOK, BucketsOK
<1>7. CASE Refill
  <2>1. DOMAIN tokens' = DOMAIN tokens /\ tokens' \in [1..Made -> 0..MaxTokens]
    <3>1. \A n \in 0..MaxTokens : Refilled(n, RefillQty, MaxTokens) \in 0..MaxTokens
      BY Refilling
    <3>2. tokens \in [1..Made -> 0..MaxTokens]
      BY <1>1 DEF TypeOK, BucketsOK
    <3>3. tokens' = [b \in DOMAIN tokens |-> Refilled(tokens[b], RefillQty, MaxTokens)]
      BY <1>7 DEF Refill
    <3> QED
      BY <3>1, <3>2, <3>3
  <2>2. Made' = Made
    BY <2>1, SameBuckets
  <2>3. group' \in Nat
    BY <1>1, <1>7, Refilling DEF Refill, TypeOK, CountersOK
  <2>4. CountersOK'
    BY <1>1, <1>7, <2>3 DEF Refill, TypeOK, CountersOK
  <2>5. CacheOK' /\ ThreadsOK'
    BY <1>1, <1>7, <2>2 DEF Refill, TypeOK, CacheOK, ThreadsOK, ThreadType
  <2> QED
    BY <1>m, <2>1, <2>2, <2>4, <2>5 DEF TypeOK, BucketsOK
<1>8. CASE UNCHANGED vars
  <2>1. Made' = Made
    BY <1>8 DEF vars, Made
  <2> QED
    BY <1>1, <1>8, <2>1 DEF vars, TypeOK, CountersOK, BucketsOK, CacheOK, ThreadsOK, ThreadType
<1> QED
  BY <1>1, <1>2, <1>3, <1>4, <1>5, <1>6, <1>7, <1>8 DEF Next

-----------------------------------------------------------------------------
(* The single limiter.                                                     *)

\* The first state.
LEMMA InitGroupPaid == Init => GroupPaid
<1>1. SUFFICES ASSUME Init PROVE GroupPaid
  OBVIOUS
<1>2. 0 * Smaller(GroupQty, GroupTokens) = 0
  BY SmallerInNat
<1> QED
  BY <1>1, <1>2 DEF Init, GroupPaid

\* Every step: what the group passed was paid for.
LEMMA NextGroupPaid == TypeOK /\ GroupPaid /\ [Next]_vars => GroupPaid'
<1>1. SUFFICES ASSUME TypeOK, GroupPaid, [Next]_vars PROVE GroupPaid'
  OBVIOUS
<1>2. CASE UNCHANGED <<group, inGroup, ticks>>
  BY <1>1, <1>2 DEF GroupPaid
<1>3. ASSUME NEW t \in Threads, AskGroup(t) PROVE GroupPaid'
  <2>1. PICK q : q = ticks * Smaller(GroupQty, GroupTokens)
    OBVIOUS
  <2>2. q \in Nat /\ q' = q
    BY <1>1, <2>1, SmallerInNat, Times DEF TypeOK, CountersOK
  <2>3. inGroup' + group' = inGroup + group /\ ticks' = ticks
    BY <1>1, <1>3 DEF AskGroup, TypeOK, CountersOK, TryAcquire
  <2> QED
    BY <1>1, <2>3 DEF GroupPaid
<1>4. CASE Refill
  <2>1. PICK s : s = Smaller(GroupQty, GroupTokens)
    OBVIOUS
  <2>2. s \in Nat
    BY <2>1, SmallerInNat
  <2>3. group' \in Nat /\ group' <= group + s
    BY <1>1, <1>4, <2>1, Refilling DEF Refill, TypeOK, CountersOK
  <2>4. ticks' * s = ticks * s + s /\ ticks * s \in Nat
    BY <1>1, <1>4, <2>2, Times DEF Refill, TypeOK, CountersOK
  <2>5. inGroup' = inGroup /\ inGroup \in Nat /\ group \in Nat
    BY <1>1, <1>4 DEF Refill, TypeOK, CountersOK
  <2>6. inGroup + group <= GroupTokens + ticks * s
    BY <1>1, <2>1 DEF GroupPaid
  <2>7. inGroup' + group' <= GroupTokens + ticks' * s
    BY <2>2, <2>3, <2>4, <2>5, <2>6
  <2> QED
    BY <2>1, <2>7 DEF GroupPaid
<1> QED
  BY <1>1, <1>2, <1>3, <1>4 DEF Next, Arrive, GetTicket, Insert, Acquire, vars

-----------------------------------------------------------------------------
(* The multi limiter.                                                      *)

\* Finitely many threads may pass a request with a bucket that is not counted.
LEMMA ExtraFinite ==
    ASSUME NEW k, NEW own
    PROVE  /\ IsFiniteSet(Extra(k, own)) /\ Cardinality(Extra(k, own)) \in Nat
           /\ IsFiniteSet(Extra(k, own)') /\ Cardinality(Extra(k, own)') \in Nat
<1>1. Extra(k, own) \subseteq Threads /\ Extra(k, own)' \subseteq Threads
  BY DEF Extra
<1> QED
  BY <1>1, FS_Subset, FS_CardinalityType

\* The numbers that an account is about.
LEMMA AccountNumbers ==
    ASSUME TypeOK, NEW k \in Keys, NEW own, NEW n, NEW left, Account(k, own, n, left)
    PROVE  /\ Made \in Nat /\ Made \in 0..Made
           /\ own \subseteq 1..Made
           /\ n \in [0..Made -> Nat] /\ left \in [0..Made -> Nat]
           /\ passed[k] \in Nat /\ included[k] \in Nat
           /\ n[Made] \in Nat /\ left[Made] \in Nat
           /\ \A b \in 1..Made : tokens[b] \in Nat /\ tokens[b] <= MaxTokens
BY DEF TypeOK, BucketsOK, CountersOK, Account

\* A step that neither makes a bucket nor lets a request of the key pass, and
\* after which no more threads have a bucket that does not count.
LEMMA AccountKept ==
    ASSUME TypeOK, NEW k \in Keys, NEW own, NEW n, NEW left, Account(k, own, n, left),
           Made' = Made, \A b \in 1..Made : tokens'[b] \in Nat /\ tokens'[b] <= tokens[b],
           k \in DOMAIN cache' => k \in DOMAIN cache /\ cache'[k] = cache[k],
           passed'[k] = passed[k], included'[k] = included[k], ticks' = ticks,
           Extra(k, own)' \subseteq Extra(k, own)
    PROVE  Account(k, own, n, left)'
<1>1. PICK x, y : x = Cardinality(Extra(k, own)) /\ y = Cardinality(Extra(k, own)')
  OBVIOUS
<1>2. x \in Nat /\ y \in Nat /\ y <= x
  BY <1>1, ExtraFinite, FS_Subset
<1>3. Share' = Share /\ Share \in Nat
  BY ShareInNat DEF Share
<1>4. passed[k] + left[Made] + y <= included[k] * Share
  <2>1. passed[k] + left[Made] + x <= included[k] * Share
    BY <1>1 DEF Account
  <2>2. included[k] * Share \in Nat
    BY <1>3, AccountNumbers, Times
  <2> QED
    BY <1>2, <2>1, <2>2, AccountNumbers
<1>5. \A b \in own : left[b - 1] + tokens'[b] <= left[b]
  <2>1. SUFFICES ASSUME NEW b \in own PROVE left[b - 1] + tokens'[b] <= left[b]
    OBVIOUS
  <2>2. left[b - 1] + tokens[b] <= left[b]
    BY DEF Account
  <2>3. b \in 1..Made /\ left[b - 1] \in Nat /\ left[b] \in Nat /\ tokens[b] \in Nat
    BY AccountNumbers
  <2> QED
    BY <2>2, <2>3
<1> QED
  BY <1>1, <1>3, <1>4, <1>5 DEF Account

\* A step that makes a bucket.
LEMMA AccountGrows ==
    ASSUME TypeOK, NEW k \in Keys, NEW own, NEW n, NEW left, Account(k, own, n, left),
           Made' = Made + 1, \A b \in 1..Made : tokens'[b] = tokens[b],
           cache' = cache, passed'[k] = passed[k], included'[k] = included[k], ticks' = ticks,
           Extra(k, own)' \subseteq Extra(k, own)
    PROVE  \E m, l : Account(k, own, m, l)'
<1>1. PICK x, y : x = Cardinality(Extra(k, own)) /\ y = Cardinality(Extra(k, own)')
  OBVIOUS
<1>2. x \in Nat /\ y \in Nat /\ y <= x
  BY <1>1, ExtraFinite, FS_Subset
<1>3. Share' = Share /\ Share \in Nat
  BY ShareInNat DEF Share
<1>n. PICK M : M = Made
  OBVIOUS
<1>4. PICK m, l : /\ m = [b \in 0..(M + 1) |-> IF b <= M THEN n[b] ELSE n[M]]
                  /\ l = [b \in 0..(M + 1) |-> IF b <= M THEN left[b] ELSE left[M]]
  OBVIOUS
<1>5. /\ M \in Nat /\ own \subseteq 1..M
      /\ n \in [0..M -> Nat] /\ left \in [0..M -> Nat] /\ M \in 0..M
  BY <1>n, AccountNumbers
<1>6. own \subseteq 1..(M + 1) /\ m \in [0..(M + 1) -> Nat] /\ l \in [0..(M + 1) -> Nat]
  BY <1>4, <1>5
<1>7. \A a, b \in 0..(M + 1) : a <= b => m[a] <= m[b] /\ l[a] <= l[b]
  <2>1. \A a, b \in 0..M : a <= b => n[a] <= n[b] /\ left[a] <= left[b]
    BY <1>n DEF Account
  <2> QED
    BY <1>4, <1>5, <2>1
<1>8. \A b \in own : m[b - 1] + 1 <= m[b] /\ l[b - 1] + tokens'[b] <= l[b]
  <2>1. \A b \in own : n[b - 1] + 1 <= n[b] /\ left[b - 1] + tokens[b] <= left[b]
    BY DEF Account
  <2>2. \A b \in own : m[b] = n[b] /\ m[b - 1] = n[b - 1] /\ l[b] = left[b] /\ l[b - 1] = left[b - 1]
    BY <1>4, <1>5
  <2>3. \A b \in own : tokens'[b] = tokens[b]
    BY <1>5, <1>n
  <2> QED
    BY <2>1, <2>2, <2>3
<1>9. m[M + 1] = n[M] /\ l[M + 1] = left[M]
  BY <1>4, <1>5
<1>10. passed[k] + left[M] + y <= included[k] * Share
  <2>1. passed[k] + left[M] + x <= included[k] * Share
    BY <1>1, <1>n DEF Account
  <2>2. included[k] * Share \in Nat /\ passed[k] \in Nat /\ left[M] \in Nat
    BY <1>n, <1>3, AccountNumbers, Times
  <2> QED
    BY <1>2, <2>1, <2>2
<1>11. n[M] <= included[k] /\ (k \in DOMAIN cache => cache[k] \in own)
  BY <1>n DEF Account
<1>12. Account(k, own, m, l)'
  BY <1>1, <1>n, <1>3, <1>6, <1>7, <1>8, <1>9, <1>10, <1>11 DEF Account
<1> QED
  BY <1>12

\* The bucket of a thread enters the cache.
LEMMA AccountIncludes ==
    ASSUME TypeOK, NEW k \in Keys, NEW own, NEW n, NEW left, Account(k, own, n, left),
           NEW t \in Threads, NEW c \in 1..Made, k \notin DOMAIN cache,
           tokens' = tokens, cache'[k] = c, passed'[k] = passed[k],
           included'[k] = included[k] + 1, ticks' = ticks,
           Extra(k, own \cup {c})' \subseteq Extra(k, own) \cup (Threads \ {t})
    PROVE  \E o, m, l : Account(k, o, m, l)'
<1>o. PICK o : o = own \cup {c}
  OBVIOUS
<1>1. PICK x, y : x = Cardinality(Extra(k, own)) /\ y = Cardinality(Extra(k, o)')
  OBVIOUS
<1>2. x \in Nat /\ y \in Nat /\ y <= x + (Cardinality(Threads) - 1)
  <2>1. IsFiniteSet(Threads \ {t}) /\ Cardinality(Threads \ {t}) = Cardinality(Threads) - 1
    BY FS_RemoveElement
  <2>2. Cardinality(Threads) \in Nat \ {0} /\ Cardinality(Threads \ {t}) \in Nat
    BY <2>1, ThreadCount, FS_EmptySet, FS_CardinalityType
  <2>3. /\ IsFiniteSet(Extra(k, own) \cup (Threads \ {t}))
        /\ Cardinality(Extra(k, own) \cup (Threads \ {t})) <= x + Cardinality(Threads \ {t})
    <3>1. IsFiniteSet(Extra(k, own) \cap (Threads \ {t}))
          /\ Cardinality(Extra(k, own) \cap (Threads \ {t})) \in Nat
      BY <2>1, ExtraFinite, FS_Intersection, FS_CardinalityType
    <3>2. /\ IsFiniteSet(Extra(k, own) \cup (Threads \ {t}))
          /\ Cardinality(Extra(k, own) \cup (Threads \ {t})) =
               x + Cardinality(Threads \ {t}) - Cardinality(Extra(k, own) \cap (Threads \ {t}))
      BY <1>1, <2>1, ExtraFinite, FS_Union
    <3> QED
      BY <1>1, <2>2, <3>1, <3>2, ExtraFinite
  <2>4. y <= Cardinality(Extra(k, own) \cup (Threads \ {t}))
        /\ Cardinality(Extra(k, own) \cup (Threads \ {t})) \in Nat
    BY <1>o, <1>1, <2>3, FS_Subset, FS_CardinalityType
  <2> QED
    BY <1>1, <2>1, <2>2, <2>3, <2>4, ExtraFinite
<1>3. Share' = Share /\ Share \in Nat /\ Share >= MaxTokens + (Cardinality(Threads) - 1)
  BY ShareInNat, ThreadCount DEF Share
<1>n. PICK M : M = Made /\ M = Made'
  BY DEF Made
<1>5. /\ M \in Nat /\ own \subseteq 1..M /\ c \in 1..M
      /\ n \in [0..M -> Nat] /\ left \in [0..M -> Nat] /\ M \in 0..M
      /\ \A b \in 1..M : tokens[b] \in Nat /\ tokens[b] <= MaxTokens
  BY <1>n, AccountNumbers
<1>w. PICK w : w = tokens[c]
  OBVIOUS
<1>4. PICK m, l : /\ m = [b \in 0..M |-> IF b < c THEN n[b] ELSE n[b] + 1]
                  /\ l = [b \in 0..M |-> IF b < c THEN left[b] ELSE left[b] + w]
  OBVIOUS
<1>u. /\ w \in Nat /\ w <= MaxTokens /\ c \in Nat
      /\ \A b \in 0..M : n[b] \in Nat /\ left[b] \in Nat
  BY <1>w, <1>5
<1>x. \A b \in 0..M : /\ m[b] = IF b < c THEN n[b] ELSE n[b] + 1
                      /\ l[b] = IF b < c THEN left[b] ELSE left[b] + w
  BY <1>4
<1>y. \A b \in 0..M : m[b] \in Nat /\ l[b] \in Nat
  BY <1>u, <1>x
<1>6. w \in Nat /\ w <= MaxTokens /\ m \in [0..M -> Nat] /\ l \in [0..M -> Nat]
  BY <1>u, <1>4, <1>y
<1>v. /\ \A a, b \in 0..M : a <= b => n[a] <= n[b] /\ left[a] <= left[b]
      /\ \A b \in own : n[b - 1] + 1 <= n[b] /\ left[b - 1] + tokens[b] <= left[b]
  BY <1>n DEF Account
<1>7. \A a, b \in 0..M : a <= b => m[a] <= m[b] /\ l[a] <= l[b]
  <2>1. SUFFICES ASSUME NEW a \in 0..M, NEW b \in 0..M, a <= b
                 PROVE  m[a] <= m[b] /\ l[a] <= l[b]
    OBVIOUS
  <2>2. n[a] <= n[b] /\ left[a] <= left[b]
    BY <1>v, <2>1
  <2>3. /\ m[a] = IF a < c THEN n[a] ELSE n[a] + 1
        /\ l[a] = IF a < c THEN left[a] ELSE left[a] + w
        /\ m[b] = IF b < c THEN n[b] ELSE n[b] + 1
        /\ l[b] = IF b < c THEN left[b] ELSE left[b] + w
    BY <1>x
  <2>4. n[a] \in Nat /\ n[b] \in Nat /\ left[a] \in Nat /\ left[b] \in Nat /\ w \in Nat
    BY <1>u
  <2>5. a \in Nat /\ b \in Nat /\ c \in Nat /\ (b < c => a < c)
    BY <1>u, <1>5, <2>1
  <2> QED
    BY <2>2, <2>3, <2>4, <2>5
<1>8. \A b \in o : m[b - 1] + 1 <= m[b] /\ l[b - 1] + tokens[b] <= l[b]
  <2>1. SUFFICES ASSUME NEW b \in o PROVE m[b - 1] + 1 <= m[b] /\ l[b - 1] + tokens[b] <= l[b]
    OBVIOUS
  <2>2. /\ b \in 1..M /\ b - 1 \in 0..M /\ b \in 0..M /\ b - 1 <= b
        /\ n[b] \in Nat /\ n[b - 1] \in Nat /\ left[b] \in Nat /\ left[b - 1] \in Nat
        /\ tokens[b] \in Nat
    BY <1>o, <1>5
  <2>3. CASE b = c
    BY <1>w, <1>4, <1>6, <1>v, <2>2, <2>3
  <2>4. CASE b # c
    <3>1. b \in own
      BY <1>o, <2>4
    <3>2. n[b - 1] + 1 <= n[b] /\ left[b - 1] + tokens[b] <= left[b]
      BY <1>v, <3>1
    <3> QED
      <4>1. /\ m[b - 1] = IF b - 1 < c THEN n[b - 1] ELSE n[b - 1] + 1
            /\ l[b - 1] = IF b - 1 < c THEN left[b - 1] ELSE left[b - 1] + w
            /\ m[b] = IF b < c THEN n[b] ELSE n[b] + 1
            /\ l[b] = IF b < c THEN left[b] ELSE left[b] + w
        BY <1>x, <2>2
      <4>2. (b < c) = (b - 1 < c)
        BY <1>u, <2>2, <2>4
      <4> QED
        BY <1>u, <2>2, <3>2, <4>1, <4>2
  <2> QED
    BY <2>3, <2>4
<1>9. m[M] = n[M] + 1 /\ l[M] = left[M] + w
  BY <1>4, <1>5
<1>10. passed[k] + l[M] + y <= (included[k] + 1) * Share
  <2>1. passed[k] + left[M] + x <= included[k] * Share
    BY <1>1, <1>n DEF Account
  <2>2. included[k] * Share \in Nat /\ passed[k] \in Nat /\ left[M] \in Nat /\ included[k] \in Nat
    BY <1>n, <1>3, AccountNumbers, Times
  <2>3. (included[k] + 1) * Share = included[k] * Share + Share
    BY <1>3, <2>2, Times
  <2>4. PICK p, q, z, s : /\ p = passed[k] /\ q = left[M] /\ z = included[k] * Share
                          /\ s = Cardinality(Threads) - 1
    OBVIOUS
  <2>5. s \in Int /\ Share >= MaxTokens + s /\ y <= x + s
    BY <1>2, <1>3, <2>4, ThreadCount
  <2>7. p \in Nat /\ q \in Nat /\ z \in Nat /\ p + q + x <= z
    BY <2>1, <2>2, <2>4
  <2>6. p + (q + w) + y <= z + Share
    BY <1>2, <1>3, <1>6, <2>5, <2>7
  <2> QED
    BY <1>9, <2>3, <2>4, <2>6
<1>11. m[M] <= included[k] + 1
  <2>1. n[M] <= included[k]
    BY <1>n DEF Account
  <2>2. n[M] \in Nat /\ included[k] \in Nat
    BY <1>n, AccountNumbers
  <2> QED
    BY <1>9, <2>1, <2>2
<1>12. c \in o /\ o \subseteq 1..M
  BY <1>o, <1>5
<1>13. Account(k, o, m, l)'
  BY <1>1, <1>n, <1>3, <1>6, <1>7, <1>8, <1>10, <1>11, <1>12 DEF Account
<1> QED
  BY <1>13

\* A request passes with a bucket that has entered the cache.
LEMMA AccountSpends ==
    ASSUME TypeOK, NEW k \in Keys, NEW own, NEW n, NEW left, Account(k, own, n, left),
           NEW c \in own, Made' = Made, tokens[c] > 0, tokens'[c] = tokens[c] - 1,
           \A b \in 1..Made : b # c => tokens'[b] = tokens[b],
           cache' = cache, passed'[k] = passed[k] + 1, included'[k] = included[k], ticks' = ticks,
           Extra(k, own)' \subseteq Extra(k, own)
    PROVE  \E l : Account(k, own, n, l)'
<1>1. PICK x, y : x = Cardinality(Extra(k, own)) /\ y = Cardinality(Extra(k, own)')
  OBVIOUS
<1>2. x \in Nat /\ y \in Nat /\ y <= x
  BY <1>1, ExtraFinite, FS_Subset
<1>3. Share' = Share /\ Share \in Nat
  BY ShareInNat DEF Share
<1>n. PICK M : M = Made /\ M = Made'
  OBVIOUS
<1>4. /\ M \in Nat /\ own \subseteq 1..M /\ M \in 0..M /\ c \in 1..M
      /\ n \in [0..M -> Nat] /\ left \in [0..M -> Nat]
      /\ \A b \in 1..M : tokens[b] \in Nat
  BY <1>n, AccountNumbers
<1>5. /\ \A a, b \in 0..M : a <= b => n[a] <= n[b] /\ left[a] <= left[b]
      /\ \A b \in own : n[b - 1] + 1 <= n[b] /\ left[b - 1] + tokens[b] <= left[b]
  BY <1>n DEF Account
<1>6. PICK l : l = [b \in 0..M |-> IF b < c THEN left[b] ELSE left[b] - 1]
  OBVIOUS
<1>7. /\ \A b \in 0..M : left[b] \in Nat
      /\ \A b \in 0..M : l[b] = IF b < c THEN left[b] ELSE left[b] - 1
  BY <1>4, <1>6
<1>8. \A a, b \in 0..M : a < c /\ c <= b => left[a] + 1 <= left[b]
  <2>1. SUFFICES ASSUME NEW a \in 0..M, NEW b \in 0..M, a < c, c <= b
                 PROVE  left[a] + 1 <= left[b]
    OBVIOUS
  <2>2. c - 1 \in 0..M /\ c \in 0..M /\ a <= c - 1
    BY <1>4, <2>1
  <2>3. left[a] <= left[c - 1] /\ left[c] <= left[b]
    BY <1>5, <2>1, <2>2
  <2>4. left[c - 1] + tokens[c] <= left[c]
    BY <1>5
  <2>5. /\ left[a] \in Nat /\ left[b] \in Nat /\ left[c] \in Nat /\ left[c - 1] \in Nat
        /\ tokens[c] \in Nat /\ tokens[c] > 0
    BY <1>4, <1>7, <2>2
  <2> QED
    BY <2>3, <2>4, <2>5
<1>9. l \in [0..M -> Nat]
  <2>1. \A b \in 0..M : (IF b < c THEN left[b] ELSE left[b] - 1) \in Nat
    <3>1. SUFFICES ASSUME NEW b \in 0..M, c <= b PROVE left[b] - 1 \in Nat
      BY <1>4, <1>7
    <3>2. left[0] + 1 <= left[b] /\ left[0] \in Nat /\ left[b] \in Nat
      BY <1>4, <1>7, <1>8, <3>1
    <3> QED
      BY <3>2
  <2> QED
    BY <1>6, <2>1
<1>10. \A a, b \in 0..M : a <= b => l[a] <= l[b]
  <2>1. SUFFICES ASSUME NEW a \in 0..M, NEW b \in 0..M, a <= b PROVE l[a] <= l[b]
    OBVIOUS
  <2>2. left[a] <= left[b] /\ left[a] \in Nat /\ left[b] \in Nat
    BY <1>5, <1>7, <2>1
  <2>3. /\ l[a] = IF a < c THEN left[a] ELSE left[a] - 1
        /\ l[b] = IF b < c THEN left[b] ELSE left[b] - 1
    BY <1>7
  <2>4. a < c /\ ~(b < c) => left[a] + 1 <= left[b]
    BY <1>4, <1>8
  <2>5. b < c => a < c
    BY <1>4, <2>1
  <2> QED
    BY <2>2, <2>3, <2>4, <2>5
<1>11. \A b \in own : l[b - 1] + tokens'[b] <= l[b]
  <2>1. SUFFICES ASSUME NEW b \in own PROVE l[b - 1] + tokens'[b] <= l[b]
    OBVIOUS
  <2>2. /\ b \in 1..M /\ b - 1 \in 0..M /\ b \in 0..M
        /\ left[b] \in Nat /\ left[b - 1] \in Nat /\ tokens[b] \in Nat
    BY <1>4, <1>7
  <2>3. left[b - 1] + tokens[b] <= left[b]
    BY <1>5
  <2>4. /\ l[b - 1] = IF b - 1 < c THEN left[b - 1] ELSE left[b - 1] - 1
        /\ l[b] = IF b < c THEN left[b] ELSE left[b] - 1
    BY <1>7, <2>2
  <2>5. CASE b = c
    BY <1>4, <2>2, <2>3, <2>4, <2>5
  <2>6. CASE b # c
    <3>1. tokens'[b] = tokens[b] /\ (b < c) = (b - 1 < c)
      BY <1>n, <1>4, <2>2, <2>6
    <3> QED
      BY <2>2, <2>3, <2>4, <3>1
  <2> QED
    BY <2>5, <2>6
<1>12. passed[k] + 1 + l[M] + y <= included[k] * Share
  <2>1. passed[k] + left[M] + x <= included[k] * Share
    BY <1>1, <1>n DEF Account
  <2>2. included[k] * Share \in Nat /\ passed[k] \in Nat /\ left[M] \in Nat
    BY <1>n, <1>3, AccountNumbers, Times
  <2>3. l[M] = left[M] - 1
    BY <1>4, <1>7
  <2> QED
    BY <1>2, <2>1, <2>2, <2>3
<1>13. Account(k, own, n, l)'
  BY <1>1, <1>n, <1>3, <1>4, <1>5, <1>9, <1>10, <1>11, <1>12 DEF Account
<1> QED
  BY <1>13

\* A request passes with a bucket that did not enter the cache, or was made
\* for another key.
LEMMA AccountStrays ==
    ASSUME TypeOK, NEW k \in Keys, NEW own, NEW n, NEW left, Account(k, own, n, left),
           NEW t \in Extra(k, own), Made' = Made,
           \A b \in 1..Made : tokens'[b] \in Nat /\ tokens'[b] <= tokens[b],
           cache' = cache, passed'[k] = passed[k] + 1, included'[k] = included[k], ticks' = ticks,
           Extra(k, own)' \subseteq Extra(k, own) \ {t}
    PROVE  Account(k, own, n, left)'
<1>1. PICK x, y : x = Cardinality(Extra(k, own)) /\ y = Cardinality(Extra(k, own)')
  OBVIOUS
<1>2. x \in Nat /\ y \in Nat /\ y + 1 <= x
  <2>1. IsFiniteSet(Extra(k, own) \ {t}) /\ Cardinality(Extra(k, own) \ {t}) = x - 1
    BY <1>1, ExtraFinite, FS_RemoveElement
  <2>2. y <= Cardinality(Extra(k, own) \ {t})
    BY <1>1, <2>1, FS_Subset
  <2> QED
    BY <1>1, <2>1, <2>2, ExtraFinite
<1>3. Share' = Share /\ Share \in Nat
  BY ShareInNat DEF Share
<1>4. passed[k] + 1 + left[Made] + y <= included[k] * Share
  <2>1. passed[k] + left[Made] + x <= included[k] * Share
    BY <1>1 DEF Account
  <2>2. included[k] * Share \in Nat
    BY <1>3, AccountNumbers, Times
  <2> QED
    BY <1>2, <2>1, <2>2, AccountNumbers
<1>5. \A b \in own : left[b - 1] + tokens'[b] <= left[b]
  <2>1. SUFFICES ASSUME NEW b \in own PROVE left[b - 1] + tokens'[b] <= left[b]
    OBVIOUS
  <2>2. left[b - 1] + tokens[b] <= left[b]
    BY DEF Account
  <2>3. b \in 1..Made /\ left[b - 1] \in Nat /\ left[b] \in Nat /\ tokens[b] \in Nat
    BY AccountNumbers
  <2> QED
    BY <2>2, <2>3
<1> QED
  BY <1>1, <1>3, <1>4, <1>5 DEF Account

\* All buckets are refilled.
LEMMA AccountRefilled ==
    ASSUME TypeOK, NEW k \in Keys, NEW own, NEW n, NEW left, Account(k, own, n, left), Refill,
           Made' = Made, Extra(k, own)' \subseteq Extra(k, own)
    PROVE  \E l : Account(k, own, n, l)'
<1>1. PICK x, y : x = Cardinality(Extra(k, own)) /\ y = Cardinality(Extra(k, own)')
  OBVIOUS
<1>2. x \in Nat /\ y \in Nat /\ y <= x
  BY <1>1, ExtraFinite, FS_Subset
<1>s. PICK s : s = Smaller(RefillQty, MaxTokens)
  OBVIOUS
<1>t. s \in Nat
  BY <1>s, SmallerInNat
<1>3. Share' = Share + s /\ Share \in Nat
  <2>1. ticks' = ticks + 1 /\ ticks \in Nat
    BY DEF Refill, TypeOK, CountersOK
  <2>2. ticks' * s = ticks * s + s /\ ticks * s \in Nat
    BY <2>1, <1>t, Times
  <2> QED
    BY <1>s, <1>t, <2>2, ShareInNat, ThreadCount DEF Share
<1>n. PICK M : M = Made /\ M = Made'
  OBVIOUS
<1>4. /\ M \in Nat /\ own \subseteq 1..M /\ M \in 0..M
      /\ n \in [0..M -> Nat] /\ left \in [0..M -> Nat]
      /\ \A b \in 1..M : tokens[b] \in Nat
  BY <1>n, AccountNumbers
<1>5. /\ \A a, b \in 0..M : a <= b => n[a] <= n[b] /\ left[a] <= left[b]
      /\ \A b \in own : n[b - 1] + 1 <= n[b] /\ left[b - 1] + tokens[b] <= left[b]
  BY <1>n DEF Account
<1>6. PICK l : l = [b \in 0..M |-> left[b] + n[b] * s]
  OBVIOUS
<1>7. \A b \in 0..M : /\ left[b] \in Nat /\ n[b] \in Nat /\ n[b] * s \in Nat
                      /\ l[b] = left[b] + n[b] * s /\ l[b] \in Nat
  <2>1. SUFFICES ASSUME NEW b \in 0..M
                 PROVE  /\ left[b] \in Nat /\ n[b] \in Nat /\ n[b] * s \in Nat
                        /\ l[b] = left[b] + n[b] * s /\ l[b] \in Nat
    OBVIOUS
  <2>2. left[b] \in Nat /\ n[b] \in Nat /\ l[b] = left[b] + n[b] * s
    BY <1>4, <1>6
  <2>3. n[b] * s \in Nat
    BY <1>t, <2>2, Times
  <2> QED
    BY <2>2, <2>3
<1>8. l \in [0..M -> Nat]
  BY <1>6, <1>7
<1>9. \A a, b \in 0..M : a <= b => l[a] <= l[b]
  <2>1. SUFFICES ASSUME NEW a \in 0..M, NEW b \in 0..M, a <= b PROVE l[a] <= l[b]
    OBVIOUS
  <2>2. left[a] <= left[b] /\ n[a] <= n[b]
    BY <1>5, <2>1
  <2>3. n[a] * s <= n[b] * s
    BY <1>7, <1>t, <2>2, Times
  <2> QED
    BY <1>7, <2>2, <2>3
<1>10. \A b \in own : l[b - 1] + tokens'[b] <= l[b]
  <2>1. SUFFICES ASSUME NEW b \in own PROVE l[b - 1] + tokens'[b] <= l[b]
    OBVIOUS
  <2>2. b \in 1..M /\ b - 1 \in 0..M /\ b \in 0..M /\ tokens[b] \in Nat
    BY <1>4
  <2>3. left[b - 1] + tokens[b] <= left[b] /\ n[b - 1] + 1 <= n[b]
    BY <1>5
  <2>4. tokens'[b] = Refilled(tokens[b], RefillQty, MaxTokens)
    BY <1>n, <2>2 DEF Refill, TypeOK, BucketsOK
  <2>5. tokens'[b] \in Nat /\ tokens'[b] <= tokens[b] + s
    <3>1. PICK c : c = tokens[b]
      OBVIOUS
    <3>2. /\ Refilled(c, RefillQty, MaxTokens) \in 0..MaxTokens
          /\ Refilled(c, RefillQty, MaxTokens) <= c + s
      BY <1>s, <2>2, <3>1, Refilling
    <3> QED
      BY <2>4, <3>1, <3>2
  <2>6. n[b - 1] * s + s <= n[b] * s
    <3>1. n[b - 1] \in Nat /\ n[b] \in Nat /\ n[b - 1] + 1 \in Nat
      BY <1>7, <2>2
    <3>2. PICK p, q : p = n[b - 1] /\ q = n[b]
      OBVIOUS
    <3>3. p \in Nat /\ q \in Nat /\ p + 1 \in Nat /\ p + 1 <= q
      BY <2>3, <3>1, <3>2
    <3>4. (p + 1) * s <= q * s
      BY <1>t, <3>3, Times
    <3>5. (p + 1) * s = p * s + s
      BY <1>t, <3>3, Times
    <3> QED
      BY <3>2, <3>4, <3>5
  <2>7. /\ l[b - 1] = left[b - 1] + n[b - 1] * s /\ l[b] = left[b] + n[b] * s
        /\ left[b - 1] \in Nat /\ left[b] \in Nat /\ n[b - 1] * s \in Nat /\ n[b] * s \in Nat
    BY <1>7, <2>2
  <2> QED
    BY <1>t, <2>2, <2>3, <2>5, <2>6, <2>7
<1>11. passed[k] + l[M] + y <= included[k] * (Share + s)
  <2>1. passed[k] + left[M] + x <= included[k] * Share
    BY <1>1, <1>n DEF Account
  <2>2. passed[k] \in Nat /\ included[k] \in Nat
    BY AccountNumbers
  <2>3. /\ included[k] * Share \in Nat /\ included[k] * s \in Nat
        /\ included[k] * (Share + s) = included[k] * Share + included[k] * s
    BY <1>3, <1>t, <2>2, Times
  <2>4. n[M] <= included[k]
    BY <1>n DEF Account
  <2>5. n[M] * s <= included[k] * s
    BY <1>t, <1>4, <1>7, <2>2, <2>4, Times
  <2>6. l[M] = left[M] + n[M] * s /\ left[M] \in Nat /\ n[M] * s \in Nat
    BY <1>4, <1>7
  <2> QED
    BY <1>2, <2>1, <2>2, <2>3, <2>5, <2>6
<1>12. passed'[k] = passed[k] /\ included'[k] = included[k] /\ cache' = cache
  BY DEF Refill
<1>13. Account(k, own, n, l)'
  BY <1>1, <1>n, <1>3, <1>4, <1>5, <1>8, <1>9, <1>10, <1>11, <1>12 DEF Account
<1> QED
  BY <1>13

\* One thread moves on and is not, or no longer, among the extra ones.
LEMMA ExtraMoves ==
    ASSUME TypeOK, NEW k \in Keys, NEW own, NEW t \in Threads, NEW r,
           thread' = [thread EXCEPT ![t] = r],
           k \in DOMAIN cache' => k \in DOMAIN cache,
           ~(/\ r.key = k
             /\ \/ r.pc = "insert" /\ k \in DOMAIN cache'
                \/ r.pc = "acquire" /\ r.bucket \notin own)
    PROVE  Extra(k, own)' \subseteq Extra(k, own) \ {t}
<1>1. thread'[t] = r /\ \A u \in Threads : u # t => thread'[u] = thread[u]
  BY DEF TypeOK, ThreadsOK
<1> QED
  BY <1>1 DEF Extra

\* The first state.
LEMMA InitPaid == Init => Paid
<1>1. SUFFICES ASSUME Init, NEW k \in Keys PROVE \E own, n, left : Account(k, own, n, left)
  BY DEF Paid
<1>2. TypeOK /\ Made = 0
  <2>1. DOMAIN tokens = {}
    BY <1>1 DEF Init
  <2> QED
    BY <1>1, <2>1, InitTypeOK, FS_EmptySet DEF Made
<1>3. Extra(k, {}) = {}
  BY <1>1 DEF Extra, Init, Free
<1>4. PICK z : z = [b \in 0..0 |-> 0]
  OBVIOUS
<1>5. z \in [0..0 -> Nat] /\ z[0] = 0
  BY <1>4
<1>6. Share \in Nat /\ 0 * Share = 0
  BY <1>2, ShareInNat
<1>7. passed[k] = 0 /\ included[k] = 0 /\ k \notin DOMAIN cache
  BY <1>1 DEF Init
<1>8. Cardinality(Extra(k, {})) = 0
  BY <1>3, FS_EmptySet
<1>9. Account(k, {}, z, z)
  BY <1>2, <1>5, <1>6, <1>7, <1>8 DEF Account
<1> QED
  BY <1>9

\* Every step: what a key passed was paid for.
LEMMA NextPaid == TypeOK /\ Paid /\ [Next]_vars => Paid'
<1>1. SUFFICES ASSUME TypeOK, Paid, [Next]_vars, NEW k \in Keys
               PROVE  \E own, n, left : Account(k, own, n, left)'
  BY DEF Paid
<1>2. PICK own, n, left : Account(k, own, n, left)
  BY <1>1 DEF Paid
<1>b. \A b \in 1..Made : tokens[b] \in Nat /\ tokens[b] <= tokens[b]
  BY <1>1 DEF TypeOK, BucketsOK
<1>3. ASSUME NEW t \in Threads, NEW j \in Keys, Arrive(t, j)
      PROVE  Account(k, own, n, left)'
  <2>1. Made' = Made /\ tokens' = tokens /\ cache' = cache /\ passed' = passed
        /\ included' = included /\ ticks' = ticks
    BY <1>3 DEF Arrive, Made
  <2>2. PICK pc \in {"group", "lookup"} :
           thread' = [thread EXCEPT ![t] = [pc |-> pc, key |-> j, bucket |-> 0]]
    BY <1>3 DEF Arrive
  <2>r. PICK r : r = [pc |-> pc, key |-> j, bucket |-> 0]
    OBVIOUS
  <2>p. r.pc \in {"group", "lookup"} /\ thread' = [thread EXCEPT ![t] = r]
    BY <2>2, <2>r
  <2>3. Extra(k, own)' \subseteq Extra(k, own)
    BY <1>1, <2>1, <2>p, ExtraMoves
  <2> QED
    BY <1>1, <1>2, <1>b, <2>1, <2>3, AccountKept
<1>4. ASSUME NEW t \in Threads, AskGroup(t)
      PROVE  Account(k, own, n, left)'
  <2>1. Made' = Made /\ tokens' = tokens /\ cache' = cache /\ passed' = passed
        /\ included' = included /\ ticks' = ticks
    BY <1>4 DEF AskGroup, Made
  <2>2. PICK r : r = [thread[t] EXCEPT !.pc = "lookup"]
    OBVIOUS
  <2>3. r.pc = "lookup" /\ Free.pc = "free"
    BY <1>1, <2>2, Busy DEF Free, ThreadType
  <2>4. thread' = [thread EXCEPT ![t] = r] \/ thread' = [thread EXCEPT ![t] = Free]
    BY <1>4, <2>2 DEF AskGroup
  <2>5. Extra(k, own)' \subseteq Extra(k, own)
    BY <1>1, <2>1, <2>3, <2>4, ExtraMoves
  <2> QED
    BY <1>1, <1>2, <1>b, <2>1, <2>5, AccountKept
<1>5. ASSUME NEW t \in Threads, GetTicket(t)
      PROVE  \E m, l : Account(k, own, m, l)'
  <2>0. cache' = cache /\ passed' = passed /\ included' = included /\ ticks' = ticks
    BY <1>5 DEF GetTicket
  <2>1. CASE thread[t].key \in DOMAIN cache
    <3>1. Made' = Made /\ tokens' = tokens
      BY <1>5, <2>1 DEF GetTicket, Made
    <3>2. PICK r : r = [thread[t] EXCEPT !.pc = "acquire", !.bucket = cache[thread[t].key]]
      OBVIOUS
    <3>3. thread' = [thread EXCEPT ![t] = r]
      BY <1>5, <2>1, <3>2 DEF GetTicket
    <3>4. r.pc = "acquire" /\ r.key = thread[t].key /\ r.bucket = cache[thread[t].key]
      BY <1>1, <3>2, Busy DEF ThreadType
    <3>5. k \in DOMAIN cache => cache[k] \in own
      BY <1>2 DEF Account
    <3>6. Extra(k, own)' \subseteq Extra(k, own)
      BY <1>1, <2>0, <2>1, <3>3, <3>4, <3>5, ExtraMoves
    <3>7. Account(k, own, n, left)'
      BY <1>1, <1>2, <1>b, <2>0, <3>1, <3>6, AccountKept
    <3> QED
      BY <3>7
  <2>2. CASE thread[t].key \notin DOMAIN cache
    <3>1. /\ Made' = Made + 1
          /\ \A b \in 1..Made : tokens'[b] = tokens[b]
          /\ thread' = [thread EXCEPT ![t] = [thread[t] EXCEPT !.pc = "insert", !.bucket = Made + 1]]
      BY <1>1, <1>5, <2>2, NewBucket
    <3>2. PICK r : r = [thread[t] EXCEPT !.pc = "insert", !.bucket = Made + 1]
      OBVIOUS
    <3>3. r.pc = "insert" /\ r.key = thread[t].key
      BY <1>1, <3>2, Busy DEF ThreadType
    <3>4. Extra(k, own)' \subseteq Extra(k, own)
      BY <1>1, <2>0, <2>2, <3>1, <3>2, <3>3, ExtraMoves
    <3> QED
      BY <1>1, <1>2, <2>0, <3>1, <3>4, AccountGrows
  <2> QED
    BY <2>1, <2>2
<1>6. ASSUME NEW t \in Threads, Insert(t)
      PROVE  \E o, m, l : Account(k, o, m, l)'
  <2>0. Made' = Made /\ tokens' = tokens /\ passed' = passed /\ ticks' = ticks
    BY <1>6 DEF Insert, Made
  <2>1. PICK r : r = [thread[t] EXCEPT !.pc = "acquire"]
    OBVIOUS
  <2>2. thread' = [thread EXCEPT ![t] = r]
    BY <1>6, <2>1 DEF Insert
  <2>3. r.pc = "acquire" /\ r.key = thread[t].key /\ r.bucket = thread[t].bucket
    BY <1>1, <2>1, Busy DEF ThreadType
  <2>4. /\ thread[t].pc = "insert" /\ thread[t].key \in Keys /\ thread[t].bucket \in 1..Made
        /\ included \in [Keys -> Nat]
    BY <1>1, <1>6, Busy DEF Insert, TypeOK, CountersOK
  <2>5. thread'[t] = r /\ \A u \in Threads : u # t => thread'[u] = thread[u]
    BY <1>1, <2>2 DEF TypeOK, ThreadsOK
  <2>6. CASE Lost(thread[t].key)
    <3>1. cache' = cache /\ included' = included
      BY <1>6, <2>6 DEF Insert
    <3>2. Extra(k, own)' \subseteq Extra(k, own)
      BY <2>3, <2>4, <2>5, <2>6, <3>1 DEF Extra, Lost
    <3>3. Account(k, own, n, left)'
      BY <1>1, <1>2, <1>b, <2>0, <3>1, <3>2, AccountKept
    <3> QED
      BY <3>3
  <2>7. CASE ~Lost(thread[t].key)
    <3> DEFINE i == thread[t].key
               others == DOMAIN cache \ {i}
               With(keys) == [j \in keys \cup {i} |-> IF j = i THEN thread[t].bucket ELSE cache[j]]
    <3>1. included' = [included EXCEPT ![i] = IF i \in DOMAIN cache THEN @ ELSE @ + 1]
      BY <1>6, <2>7 DEF Insert
    <3>2. i \notin DOMAIN cache /\ included'[i] = included[i] + 1
          /\ \A j \in Keys : j # i => included'[j] = included[j]
      BY <2>4, <2>7, <3>1 DEF Lost
    <3>3. cache' = With(others) \/ \E old \in others : cache' = With(others \ {old})
      BY <1>6, <2>7 DEF Insert
    <3>4. PICK keys : keys \subseteq DOMAIN cache /\ cache' = With(keys)
      BY <3>3
    <3>5. /\ cache'[i] = thread[t].bucket
          /\ \A j \in DOMAIN cache' : j # i => j \in DOMAIN cache /\ cache'[j] = cache[j]
      BY <3>4
    <3> HIDE DEF With, others
    <3>6. CASE k = i
      <4>1. PICK c : c = thread[t].bucket
        OBVIOUS
      <4>2. Extra(k, own \cup {c})' \subseteq Extra(k, own) \cup (Threads \ {t})
        BY <2>3, <2>5, <4>1 DEF Extra
      <4> QED
        BY <1>1, <1>2, <2>0, <2>4, <3>2, <3>5, <3>6, <4>1, <4>2, AccountIncludes
    <3>7. CASE k # i
      <4>1. k \in DOMAIN cache' => k \in DOMAIN cache /\ cache'[k] = cache[k]
        BY <3>5, <3>7
      <4>2. Extra(k, own)' \subseteq Extra(k, own)
        BY <1>1, <2>2, <2>3, <3>7, <4>1, ExtraMoves
      <4>3. Account(k, own, n, left)'
        BY <1>1, <1>2, <1>b, <2>0, <3>2, <3>7, <4>1, <4>2, AccountKept
      <4> QED
        BY <4>3
    <3> QED
      BY <3>6, <3>7
  <2> QED
    BY <2>6, <2>7
<1>7. ASSUME NEW t \in Threads, Acquire(t)
      PROVE  \E l : Account(k, own, n, l)'
  <2>0. cache' = cache /\ included' = included /\ ticks' = ticks
        /\ thread' = [thread EXCEPT ![t] = Free] /\ thread[t].pc = "acquire"
    BY <1>7 DEF Acquire
  <2>1. thread[t].key \in Keys /\ thread[t].bucket \in 1..Made
    BY <1>1, <2>0, Busy
  <2>2. Free.pc = "free"
    BY DEF Free
  <2>3. Extra(k, own)' \subseteq Extra(k, own) \ {t}
    BY <1>1, <2>0, <2>2, ExtraMoves
  <2>4. Extra(k, own)' \subseteq Extra(k, own)
    BY <2>3
  <2>5. passed \in [Keys -> Nat] /\ tokens \in [1..Made -> 0..MaxTokens]
    BY <1>1 DEF TypeOK, CountersOK, BucketsOK
  <2>6. CASE tokens[thread[t].bucket] = 0
    <3>1. tokens' = tokens /\ passed' = passed
      BY <1>7, <2>6 DEF Acquire
    <3>2. Made' = Made
      BY <3>1 DEF Made
    <3>3. Account(k, own, n, left)'
      BY <1>1, <1>2, <1>b, <2>0, <2>4, <3>1, <3>2, AccountKept
    <3> QED
      BY <3>3
  <2>7. CASE tokens[thread[t].bucket] > 0
    <3>1. PICK c : c = thread[t].bucket
      OBVIOUS
    <3>2. /\ tokens' = [tokens EXCEPT ![c] = tokens[c] - 1]
          /\ passed' = [passed EXCEPT ![thread[t].key] = passed[thread[t].key] + 1]
      BY <1>7, <2>7, <3>1 DEF Acquire, TryAcquire
    <3>3. c \in 1..Made /\ tokens[c] > 0 /\ tokens'[c] = tokens[c] - 1
          /\ \A b \in 1..Made : b # c => tokens'[b] = tokens[b]
      BY <2>1, <2>5, <2>7, <3>1, <3>2
    <3>4. \A b \in 1..Made : tokens'[b] \in Nat /\ tokens'[b] <= tokens[b]
      BY <2>5, <3>3
    <3>5. Made' = Made
      BY <3>2 DEF Made
    <3>6. CASE k # thread[t].key
      <4>1. passed'[k] = passed[k]
        BY <2>1, <2>5, <3>2, <3>6
      <4>2. Account(k, own, n, left)'
        BY <1>1, <1>2, <2>0, <2>4, <3>4, <3>5, <4>1, AccountKept
      <4> QED
        BY <4>2
    <3>7. CASE k = thread[t].key /\ c \in own
      <4>1. passed'[k] = passed[k] + 1
        BY <2>1, <2>5, <3>2, <3>7
      <4> QED
        BY <1>1, <1>2, <2>0, <2>4, <3>3, <3>5, <3>7, <4>1, AccountSpends
    <3>8. CASE k = thread[t].key /\ c \notin own
      <4>1. passed'[k] = passed[k] + 1
        BY <2>1, <2>5, <3>2, <3>8
      <4>2. t \in Extra(k, own)
        BY <2>0, <3>1, <3>8 DEF Extra
      <4>3. Account(k, own, n, left)'
        BY <1>1, <1>2, <2>0, <2>3, <3>4, <3>5, <4>1, <4>2, AccountStrays
      <4> QED
        BY <4>3
    <3> QED
      BY <3>6, <3>7, <3>8
  <2> QED
    BY <2>1, <2>5, <2>6, <2>7
<1>8. CASE Refill
  <2>1. Made' = Made
    BY <1>8 DEF Refill, Made
  <2>2. Extra(k, own)' \subseteq Extra(k, own)
    BY <1>8 DEF Refill, Extra
  <2> QED
    BY <1>1, <1>2, <1>8, <2>1, <2>2, AccountRefilled
<1>9. CASE UNCHANGED vars
  <2>1. Made' = Made /\ Extra(k, own)' \subseteq Extra(k, own)
    BY <1>9 DEF vars, Made, Extra
  <2>2. Account(k, own, n, left)'
    BY <1>1, <1>2, <1>b, <1>9, <2>1, AccountKept DEF vars
  <2> QED
    BY <2>2
<1> QED
  BY <1>1, <1>3, <1>4, <1>5, <1>6, <1>7, <1>8, <1>9 DEF Next

-----------------------------------------------------------------------------
(* Theorems.                                                               *)

\* The inductive invariant holds.
LEMMA Inductive == Spec => []IInv
<1>1. Init => IInv
  BY InitTypeOK, InitGroupPaid, InitPaid DEF IInv
<1>2. IInv /\ [Next]_vars => IInv'
  BY NextTypeOK, NextGroupPaid, NextPaid DEF IInv
<1> QED
  BY <1>1, <1>2, PTL DEF Spec

\* SingleInstance lets through at most the tokens of its bucket and of its
\* refills, however the threads interleave.
THEOREM GroupIsBounded == Spec => []GroupBounded
<1>1. IInv => GroupBounded
  <2>1. SUFFICES ASSUME IInv PROVE GroupBounded
    OBVIOUS
  <2>2. PICK q : q = ticks * Smaller(GroupQty, GroupTokens)
    OBVIOUS
  <2>3. q \in Nat
    BY <2>1, <2>2, SmallerInNat, Times DEF IInv, TypeOK, CountersOK
  <2>4. inGroup \in Nat /\ group \in Nat /\ inGroup + group <= GroupTokens + q
    BY <2>1, <2>2 DEF IInv, TypeOK, CountersOK, GroupPaid
  <2>5. inGroup <= GroupTokens + q
    BY <2>3, <2>4
  <2> QED
    BY <2>2, <2>5 DEF GroupBounded
<1> QED
  BY <1>1, Inductive, PTL

\* Rater lets through, for every key, at most what the buckets of the key
\* that entered its cache hold and get, and one request per other thread for
\* each of them: the race between lookup and insert costs no more than that.
THEOREM PassedIsBounded == Spec => []PassedBounded
<1>1. IInv => PassedBounded
  <2>1. SUFFICES ASSUME IInv, NEW k \in Keys PROVE passed[k] <= included[k] * Share
    BY DEF PassedBounded, Share
  <2>2. PICK own, n, left : Account(k, own, n, left)
    BY <2>1 DEF IInv, Paid
  <2>3. TypeOK
    BY <2>1 DEF IInv
  <2>4. passed[k] \in Nat /\ left[Made] \in Nat /\ included[k] \in Nat
    BY <2>2, <2>3, AccountNumbers
  <2>5. PICK x : x = Cardinality(Extra(k, own))
    OBVIOUS
  <2>6. x \in Nat
    BY <2>5, ExtraFinite
  <2>7. passed[k] + left[Made] + x <= included[k] * Share
    BY <2>2, <2>5 DEF Account
  <2>8. included[k] * Share \in Nat
    BY <2>3, <2>4, ShareInNat, Times
  <2> QED
    BY <2>4, <2>6, <2>7, <2>8
<1> QED
  BY <1>1, Inductive, PTL
=============================================================================
