-------------------------- MODULE VHostRouterProofs --------------------------
(***************************************************************************)
(* Proofs about VHostRouter: every request gets an entry of the router, and *)
(* one that covers its host, for every configuration and names of any      *)
(* length.                                                                 *)
(***************************************************************************)
EXTENDS VHostRouter, NumberSets, SequenceTheorems, TLAPS

(* Numbers.                                                                *)

\* Min of a set of numbers is in the set.
LEMMA MinInSet ==
    ASSUME NEW T, T \subseteq Nat, T # {}
    PROVE  Min(T) \in T
<1>1. SUFFICES ASSUME ~ \E x \in T : \A y \in T : x =< y
               PROVE  FALSE
  BY DEF Min
<1> DEFINE S == {n \in Nat : \A m \in 0 .. n : m \notin T}
<1>2. 0 \in S
  BY <1>1
<1>3. \A n \in Nat : n \in S => n + 1 \in S
  <2>1. SUFFICES ASSUME NEW n \in Nat, n \in S, n + 1 \in T
                 PROVE  FALSE
    OBVIOUS
  <2>2. \A y \in T : n + 1 =< y
    BY <2>1
  <2> QED
    BY <1>1, <2>1, <2>2
<1> HIDE DEF S
<1>4. \A n \in Nat : n \in S
  BY <1>2, <1>3, SetInduction
<1>5. PICK x \in T : TRUE
  OBVIOUS
<1>6. x \in S /\ x \in 0 .. x
  BY <1>4
<1> QED
  BY <1>5, <1>6 DEF S

\* Max of a bounded set of numbers is in the set and above the others.
LEMMA MaxInSet ==
    ASSUME NEW T, NEW n \in Nat, T \subseteq 0 .. n, T # {}
    PROVE  Max(T) \in T /\ \A x \in T : x =< Max(T)
<1>1. SUFFICES ASSUME ~ \E x \in T : \A y \in T : x >= y
               PROVE  FALSE
  BY DEF Max
<1> DEFINE S == {k \in Nat : \A m \in 0 .. n : m + k >= n => m \notin T}
<1>2. 0 \in S
  BY <1>1
<1>3. \A k \in Nat : k \in S => k + 1 \in S
  <2>0. SUFFICES ASSUME NEW k \in Nat, k \in S
                 PROVE  \A m \in 0 .. n : m + (k + 1) >= n => m \notin T
    <3>1. \A k \in Nat : k + 1 \in Nat
      OBVIOUS
    <3> QED
      BY <3>1, Zenon
  <2>1. SUFFICES ASSUME NEW m \in 0 .. n, m + (k + 1) >= n, m \in T
                 PROVE  FALSE
    OBVIOUS
  <2>2. \A y \in T : m >= y
    BY <2>0, <2>1
  <2> QED
    BY <1>1, <2>1, <2>2
<1> HIDE DEF S
<1>4. \A k \in Nat : k \in S
  BY <1>2, <1>3, SetInduction
<1>5. PICK x \in T : TRUE
  OBVIOUS
<1>6. n \in S /\ x \in 0 .. n /\ x + n >= n
  BY <1>4, <1>5
<1> QED
  BY <1>5, <1>6 DEF S

-----------------------------------------------------------------------------
(* What match_domain_parts computes.                                       *)

\* The parts of a pattern left of j that are labels.
Labels(p, j) == {n \in 1 .. (j - 1) : p[n] # Star}

\* The places left of i where the host has label l.
Places(d, i, l) == {m \in 1 .. SkipAtLeast(i) : d[m] = l}

\* One round of the recursion, for a host d of D labels: match[j].
Round(d, D, p, match, j) ==
    IF j = 0 THEN {0}
    ELSE IF p[j] # Star THEN {i \in 1 .. D : d[i] = p[j] /\ i - 1 \in match[j - 1]}
    ELSE {i \in 1 .. D :
            \/ Labels(p, j) = {}
            \/ /\ Places(d, i, p[Max(Labels(p, j))]) # {}
               /\ Max(Places(d, i, p[Max(Labels(p, j))])) - 1 \in match[Max(Labels(p, j)) - 1]}

\* A function that obeys the recursion, for a pattern of N parts.
Computed(d, D, p, N, f) == \A j \in 0 .. N : f[j] = Round(d, D, p, f, j)

\* The nearest label to the left of a wildcard.
LEMMA NextLabel ==
    ASSUME NEW p, NEW j \in Nat, Labels(p, j) # {}
    PROVE  /\ Max(Labels(p, j)) \in 1 .. (j - 1)
           /\ p[Max(Labels(p, j))] # Star
           /\ \A n \in Labels(p, j) : n =< Max(Labels(p, j))
<1>1. PICK T : T = Labels(p, j)
  OBVIOUS
<1>2. T \subseteq 0 .. j /\ \A n \in T : n \in 1 .. (j - 1) /\ p[n] # Star
  BY <1>1 DEF Labels
<1>3. Max(T) \in T /\ \A n \in T : n =< Max(T)
  BY <1>1, <1>2, MaxInSet
<1> QED
  BY <1>1, <1>2, <1>3

\* The rightmost place of a label to the left.
LEMMA NextPlace ==
    ASSUME NEW d, NEW i \in Nat, NEW l, Places(d, i, l) # {}
    PROVE  Max(Places(d, i, l)) \in 1 .. (i - 1) /\ d[Max(Places(d, i, l))] = l
<1>1. PICK T : T = Places(d, i, l)
  OBVIOUS
<1>2. T \subseteq 0 .. i /\ \A m \in T : m \in 1 .. (i - 1) /\ d[m] = l
  BY <1>1 DEF Places, SkipAtLeast
<1>3. Max(T) \in T
  BY <1>1, <1>2, MaxInSet
<1> QED
  BY <1>1, <1>2, <1>3

\* A round looks only at rounds before.
LEMMA RoundLocal ==
    ASSUME NEW d, NEW D, NEW p, NEW f, NEW g, NEW j \in Nat,
           \A n \in 0 .. (j - 1) : f[n] = g[n]
    PROVE  Round(d, D, p, f, j) = Round(d, D, p, g, j)
<1>1. CASE j = 0
  BY <1>1 DEF Round
<1>2. CASE j # 0 /\ p[j] # Star
  <2>1. f[j - 1] = g[j - 1]
    BY <1>2
  <2> QED
    BY <1>2, <2>1 DEF Round
<1>3. CASE j # 0 /\ p[j] = Star
  <2>1. CASE Labels(p, j) = {}
    BY <1>3, <2>1 DEF Round
  <2>2. CASE Labels(p, j) # {}
    <3>1. f[Max(Labels(p, j)) - 1] = g[Max(Labels(p, j)) - 1]
      BY <2>2, NextLabel
    <3> QED
      BY <1>3, <3>1 DEF Round
  <2> QED
    BY <2>1, <2>2
<1> QED
  BY <1>1, <1>2, <1>3

\* The recursion has a solution.
LEMMA RoundsExist ==
    ASSUME NEW d, NEW D, NEW p, NEW N \in Nat
    PROVE  \E f : f = [j \in 0 .. N |-> Round(d, D, p, f, j)]
<1> DEFINE S == {n \in Nat : \E f : f = [j \in 0 .. n |-> Round(d, D, p, f, j)]}
<1>1. 0 \in S
  <2>1. PICK f : f = [j \in 0 .. 0 |-> {0}]
    OBVIOUS
  <2>2. \A j \in 0 .. 0 : Round(d, D, p, f, j) = {0}
    BY DEF Round
  <2>3. f = [j \in 0 .. 0 |-> Round(d, D, p, f, j)]
    BY <2>1, <2>2
  <2> QED
    BY <2>3
<1>2. \A n \in Nat : n \in S => n + 1 \in S
  <2>1. SUFFICES ASSUME NEW n \in Nat, n \in S
                 PROVE  \E f : f = [j \in 0 .. (n + 1) |-> Round(d, D, p, f, j)]
    OBVIOUS
  <2>2. PICK f : f = [j \in 0 .. n |-> Round(d, D, p, f, j)]
    BY <2>1
  <2>3. PICK g : g = [j \in 0 .. (n + 1) |-> IF j = n + 1 THEN Round(d, D, p, f, j) ELSE f[j]]
    OBVIOUS
  <2>4. \A j \in 0 .. n : f[j] = g[j]
    BY <2>3
  <2>5. \A j \in 0 .. (n + 1) : Round(d, D, p, f, j) = Round(d, D, p, g, j)
    <3>1. SUFFICES ASSUME NEW j \in 0 .. (n + 1)
                   PROVE  Round(d, D, p, f, j) = Round(d, D, p, g, j)
      OBVIOUS
    <3>2. \A m \in 0 .. (j - 1) : f[m] = g[m]
      BY <2>4
    <3> QED
      BY <3>2, RoundLocal
  <2>6. \A j \in 0 .. n : f[j] = Round(d, D, p, f, j)
    BY <2>2
  <2>7. \A j \in 0 .. (n + 1) : g[j] = Round(d, D, p, g, j)
    BY <2>3, <2>5, <2>6
  <2>8. g = [j \in 0 .. (n + 1) |-> Round(d, D, p, g, j)]
    BY <2>3, <2>7
  <2> QED
    BY <2>8
<1> HIDE DEF S
<1>3. N \in S
  BY <1>1, <1>2, SetInduction
<1> QED
  BY <1>3 DEF S

\* MatchParts in terms of rounds.
LEMMA MatchByRounds ==
    ASSUME NEW d, NEW p, Len(p) \in Nat
    PROVE  \E f : /\ Computed(d, Len(d), p, Len(p), f)
                  /\ MatchParts(d, p) <=> Len(d) >= Len(p) /\ Len(d) \in f[Len(p)]
<1>1. PICK f : f = CHOOSE q : q = [j \in 0 .. Len(p) |-> Round(d, Len(d), p, q, j)]
  OBVIOUS
<1>2. f = [j \in 0 .. Len(p) |-> Round(d, Len(d), p, f, j)]
  BY <1>1, RoundsExist
<1>3. MatchParts(d, p) <=> Len(d) >= Len(p) /\ Len(d) \in f[Len(p)]
  BY <1>1, Zenon DEF MatchParts, Round, Labels, Places
<1>4. Computed(d, Len(d), p, Len(p), f)
  BY <1>2, Zenon DEF Computed
<1> QED
  BY <1>3, <1>4

-----------------------------------------------------------------------------
(* Against the reference definition.                                       *)

\* Matches for the first i labels of the host and the first j parts of the
\* pattern.
Fits(d, p, i, j) ==
    \E cut \in [0 .. j -> 0 .. i] :
        /\ cut[0] = 0 /\ cut[j] = i
        /\ \A k \in 1 .. j :
              IF p[k] = Star THEN cut[k - 1] < cut[k]
              ELSE cut[k] = cut[k - 1] + 1 /\ d[cut[k]] = p[k]

\* Pieces of the first parts and one more.
LEMMA FitsMore ==
    ASSUME NEW d, NEW p, NEW j \in Nat, NEW m \in Nat, NEW i \in Nat, m < i,
           Fits(d, p, m, j),
           p[j + 1] # Star => i = m + 1 /\ d[i] = p[j + 1]
    PROVE  Fits(d, p, i, j + 1)
<1>1. PICK cut \in [0 .. j -> 0 .. m] :
        /\ cut[0] = 0 /\ cut[j] = m
        /\ \A k \in 1 .. j :
              IF p[k] = Star THEN cut[k - 1] < cut[k]
              ELSE cut[k] = cut[k - 1] + 1 /\ d[cut[k]] = p[k]
  BY DEF Fits
<1>2. PICK new : new = [k \in 0 .. (j + 1) |-> IF k = j + 1 THEN i ELSE cut[k]]
  OBVIOUS
<1>3. new \in [0 .. (j + 1) -> 0 .. i]
  BY <1>1, <1>2
<1>4. new[0] = 0 /\ new[j + 1] = i
  BY <1>1, <1>2
<1>5. ASSUME NEW k \in 1 .. (j + 1)
      PROVE  IF p[k] = Star THEN new[k - 1] < new[k]
             ELSE new[k] = new[k - 1] + 1 /\ d[new[k]] = p[k]
  <2>1. CASE k = j + 1
    <3>1. new[k] = i /\ new[k - 1] = m
      BY <1>1, <1>2, <2>1
    <3> QED
      BY <2>1, <3>1
  <2>2. CASE k # j + 1
    <3>1. k \in 1 .. j /\ new[k] = cut[k] /\ new[k - 1] = cut[k - 1]
      BY <1>2, <2>2
    <3> QED
      BY <1>1, <3>1
  <2> QED
    BY <2>1, <2>2
<1> QED
  BY <1>3, <1>4, <1>5 DEF Fits

\* Nothing fits nothing.
LEMMA FitsNone ==
    ASSUME NEW d, NEW p
    PROVE  Fits(d, p, 0, 0)
<1>1. PICK cut : cut = [k \in 0 .. 0 |-> 0]
  OBVIOUS
<1>2. cut \in [0 .. 0 -> 0 .. 0] /\ cut[0] = 0
  BY <1>1
<1> QED
  BY <1>2 DEF Fits

\* The first m of i labels are left when part j + 1 has its piece.
Rest(d, p, i, j, m) ==
    m < i /\ Fits(d, p, m, j) /\ (p[j + 1] # Star => i = m + 1 /\ d[i] = p[j + 1])

\* Pieces of the first parts without the last.
LEMMA FitsLess ==
    ASSUME NEW d, NEW p, NEW j \in Nat, NEW i \in Nat, Fits(d, p, i, j + 1)
    PROVE  \E m \in Nat : Rest(d, p, i, j, m)
<1>1. PICK cut \in [0 .. (j + 1) -> 0 .. i] :
        /\ cut[0] = 0 /\ cut[j + 1] = i
        /\ \A k \in 1 .. (j + 1) :
              IF p[k] = Star THEN cut[k - 1] < cut[k]
              ELSE cut[k] = cut[k - 1] + 1 /\ d[cut[k]] = p[k]
  BY DEF Fits
<1>2. \A k \in 1 .. (j + 1) : cut[k] \in Nat /\ cut[k - 1] \in Nat /\ cut[k - 1] < cut[k]
  <2>1. SUFFICES ASSUME NEW k \in 1 .. (j + 1)
                 PROVE  cut[k] \in Nat /\ cut[k - 1] \in Nat /\ cut[k - 1] < cut[k]
    OBVIOUS
  <2>2. cut[k] \in 0 .. i /\ cut[k - 1] \in 0 .. i
    BY <1>1
  <2> QED
    BY <1>1, <2>2
<1>3. PICK m \in Nat : m = cut[j]
  BY <1>1
<1>4. m < i
  BY <1>1, <1>2, <1>3
<1>5. p[j + 1] # Star => i = m + 1 /\ d[i] = p[j + 1]
  BY <1>1, <1>3
<1> DEFINE S == {n \in Nat : n =< j => cut[j - n] =< m}
<1>6. \A n \in Nat : n \in S
  <2>1. 0 \in S
    BY <1>3
  <2>2. \A n \in Nat : n \in S => n + 1 \in S
    <3>1. SUFFICES ASSUME NEW n \in Nat, n =< j => cut[j - n] =< m, n + 1 =< j
                   PROVE  cut[j - (n + 1)] =< m
      OBVIOUS
    <3>2. PICK k \in 1 .. (j + 1) : k = j - n
      BY <3>1
    <3>3. cut[k - 1] < cut[k] /\ cut[k] =< m /\ cut[k] \in Nat /\ cut[k - 1] \in Nat
      BY <1>2, <3>1, <3>2
    <3>4. k - 1 = j - (n + 1)
      BY <3>2
    <3> QED
      BY <3>3, <3>4
  <2> HIDE DEF S
  <2> QED
    BY <2>1, <2>2, SetInduction
<1> HIDE DEF S
<1>7. \A k \in 0 .. j : cut[k] \in 0 .. m
  <2>1. SUFFICES ASSUME NEW k \in 0 .. j
                 PROVE  cut[k] \in 0 .. m
    OBVIOUS
  <2>2. PICK n \in Nat : n = j - k
    OBVIOUS
  <2>a. n \in S /\ n =< j
    BY <1>6, <2>2
  <2>3. cut[j - n] =< m
    BY <2>a DEF S
  <2>4. cut[k] \in 0 .. i /\ j - n = k
    BY <1>1, <2>2
  <2> QED
    BY <2>3, <2>4
<1>8. PICK old : old = [k \in 0 .. j |-> cut[k]]
  OBVIOUS
<1>9. old \in [0 .. j -> 0 .. m] /\ old[0] = 0 /\ old[j] = m
  BY <1>1, <1>3, <1>7, <1>8
<1>10. ASSUME NEW k \in 1 .. j
       PROVE  IF p[k] = Star THEN old[k - 1] < old[k]
              ELSE old[k] = old[k - 1] + 1 /\ d[old[k]] = p[k]
  <2>1. old[k] = cut[k] /\ old[k - 1] = cut[k - 1] /\ k \in 1 .. (j + 1)
    BY <1>8
  <2> QED
    BY <1>1, <2>1
<1>11. Fits(d, p, m, j)
  BY <1>9, <1>10 DEF Fits
<1> QED
  BY <1>4, <1>5, <1>11 DEF Rest

\* Without two wildcards side by side, what the loop accepts fits.
LEMMA MatchFits ==
    ASSUME NEW d, NEW D \in Nat, NEW p, NEW N \in Nat,
           NEW f, Computed(d, D, p, N, f),
           \A j \in 1 .. (N - 1) : ~(p[j] = Star /\ p[j + 1] = Star)
    PROVE  \A j \in 0 .. N : \A i \in f[j] : i \in Nat /\ Fits(d, p, i, j)
<1> DEFINE S == {k \in Nat : \A j \in 0 .. N : j =< k => \A i \in f[j] : i \in Nat /\ Fits(d, p, i, j)}
<1>0. \A j \in 0 .. N : f[j] = Round(d, D, p, f, j)
  BY DEF Computed
<1>1. 0 \in S
  <2>1. f[0] = {0}
    <3>1. f[0] = Round(d, D, p, f, 0)
      BY <1>0
    <3>2. Round(d, D, p, f, 0) = {0}
      BY DEF Round
    <3> QED
      BY <3>1, <3>2
  <2> QED
    BY <2>1, FitsNone
<1>2. \A k \in Nat : k \in S => k + 1 \in S
  <2>1. SUFFICES ASSUME NEW k \in Nat, k \in S
                 PROVE  k + 1 \in 0 .. N => \A i \in f[k + 1] : i \in Nat /\ Fits(d, p, i, k + 1)
    OBVIOUS
  <2>2. SUFFICES ASSUME k + 1 \in 0 .. N, NEW i \in f[k + 1]
                 PROVE  i \in Nat /\ Fits(d, p, i, k + 1)
    BY <2>1
  <2>3. \A j \in 0 .. k : \A m \in f[j] : m \in Nat /\ Fits(d, p, m, j)
    BY <2>1, <2>2
  <2> HIDE DEF S
  <2>4. i \in Round(d, D, p, f, k + 1)
    BY <1>0, <2>2
  <2>5. i \in 1 .. D
    BY <2>4 DEF Round
  <2>6. CASE p[k + 1] # Star
    <3>1. d[i] = p[k + 1] /\ i - 1 \in f[k]
      BY <2>4, <2>6 DEF Round
    <3>2. PICK m \in Nat : m = i - 1
      BY <2>5
    <3>a. k \in 0 .. k
      OBVIOUS
    <3>3. Fits(d, p, m, k)
      BY <2>3, <3>1, <3>2, <3>a
    <3> QED
      BY <2>5, <3>1, <3>2, <3>3, FitsMore
  <2>7. CASE p[k + 1] = Star /\ k = 0
    <3>1. Fits(d, p, 0, k)
      BY <2>7, FitsNone
    <3>2. i \in Nat /\ 0 \in Nat /\ 0 < i
      BY <2>5
    <3> QED
      BY <2>7, <3>1, <3>2, FitsMore, Zenon
  <2>8. CASE p[k + 1] = Star /\ k # 0
    <3>1. p[k] # Star
      BY <2>2, <2>8
    <3>2. k \in Labels(p, k + 1)
      BY <2>8, <3>1 DEF Labels
    <3>3. Max(Labels(p, k + 1)) = k
      <4>1. Max(Labels(p, k + 1)) \in 1 .. k /\ k =< Max(Labels(p, k + 1))
        BY <3>2, NextLabel
      <4> QED
        BY <4>1
    <3>4. PICK q : q = Max(Places(d, i, p[k]))
      OBVIOUS
    <3>5. Places(d, i, p[k]) # {} /\ q - 1 \in f[k - 1]
      BY <2>4, <2>8, <3>2, <3>3, <3>4 DEF Round
    <3>6. q \in 1 .. (i - 1) /\ d[q] = p[k]
      BY <2>5, <3>4, <3>5, NextPlace
    <3>7. PICK m \in Nat, l \in Nat : m = q - 1 /\ l = k - 1
      BY <2>8, <3>6
    <3>8. Fits(d, p, m, l)
      BY <2>3, <3>5, <3>7
    <3>9. Fits(d, p, q, l + 1)
      BY <3>1, <3>6, <3>7, <3>8, FitsMore
    <3>10. Fits(d, p, q, k) /\ q < i /\ q \in Nat /\ i \in Nat
      BY <2>5, <3>6, <3>7, <3>9
    <3> QED
      BY <2>8, <3>10, FitsMore, Zenon
  <2> QED
    BY <2>6, <2>7, <2>8
<1> HIDE DEF S
<1>3. \A k \in Nat : k \in S
  BY <1>1, <1>2, SetInduction
<1> QED
  <2>1. ASSUME NEW j \in 0 .. N
        PROVE  \A i \in f[j] : i \in Nat /\ Fits(d, p, i, j)
    <3>1. j \in S /\ j =< j
      BY <1>3
    <3> QED
      BY <3>1 DEF S
  <2> QED
    BY <2>1

\* With all wildcards in front, the loop accepts what fits and nothing else
\* that has a label for every part.
LEMMA LeadingExact ==
    ASSUME NEW d, NEW D \in Nat, NEW p, NEW N \in Nat,
           NEW f, Computed(d, D, p, N, f),
           NEW n \in 1 .. N, \A j \in 1 .. N : (p[j] = Star) <=> (j =< n)
    PROVE  \A j \in 0 .. N : \A i \in 0 .. D : Fits(d, p, i, j) <=> i \in f[j] /\ i >= j
<1> DEFINE S == {k \in Nat : k =< N =>
                    /\ k =< n => Fits(d, p, k, k)
                    /\ \A i \in 0 .. D : Fits(d, p, i, k) <=> i \in f[k] /\ i >= k}
<1>0. \A j \in 0 .. N : f[j] = Round(d, D, p, f, j)
  BY DEF Computed
<1>1. 0 \in S
  <2>1. f[0] = {0}
    <3>1. f[0] = Round(d, D, p, f, 0)
      BY <1>0
    <3>2. Round(d, D, p, f, 0) = {0}
      BY DEF Round
    <3> QED
      BY <3>1, <3>2
  <2>2. \A i \in 0 .. D : Fits(d, p, i, 0) => i = 0
    BY DEF Fits
  <2> QED
    BY <2>1, <2>2, FitsNone
<1>2. \A k \in Nat : k \in S => k + 1 \in S
  <2>1. SUFFICES ASSUME NEW k \in Nat, k \in S, k + 1 =< N
                 PROVE  /\ k + 1 =< n => Fits(d, p, k + 1, k + 1)
                        /\ \A i \in 0 .. D : Fits(d, p, i, k + 1) <=> i \in f[k + 1] /\ i >= k + 1
    OBVIOUS
  <2>2. k =< n => Fits(d, p, k, k)
    BY <2>1
  <2>3. \A i \in 0 .. D : Fits(d, p, i, k) <=> i \in f[k] /\ i >= k
    BY <2>1
  <2> HIDE DEF S
  <2>4. f[k + 1] = Round(d, D, p, f, k + 1) /\ ((p[k + 1] = Star) <=> (k + 1 =< n))
    BY <1>0, <2>1
  <2>5. CASE p[k + 1] # Star
    <3>1. f[k + 1] = {i \in 1 .. D : d[i] = p[k + 1] /\ i - 1 \in f[k]}
      BY <2>4, <2>5 DEF Round
    <3>2. ASSUME NEW i \in 0 .. D, Fits(d, p, i, k + 1)
          PROVE  i \in f[k + 1] /\ i >= k + 1
      <4>1. PICK m \in Nat : m < i /\ Fits(d, p, m, k) /\ i = m + 1 /\ d[i] = p[k + 1]
        <5>1. i \in Nat
          OBVIOUS
        <5>2. \E m \in Nat : Rest(d, p, i, k, m)
          BY <3>2, <5>1, FitsLess, Zenon
        <5> QED
          BY <2>5, <5>2 DEF Rest
      <4>2. m \in f[k] /\ m >= k
        BY <2>3, <4>1
      <4> QED
        BY <3>1, <4>1, <4>2
    <3>3. ASSUME NEW i \in 0 .. D, i \in f[k + 1], i >= k + 1
          PROVE  Fits(d, p, i, k + 1)
      <4>1. PICK m \in 0 .. D : m = i - 1
        BY <3>3
      <4>2. Fits(d, p, m, k) /\ i = m + 1 /\ d[i] = p[k + 1]
        BY <2>3, <3>1, <3>3, <4>1
      <4> QED
        BY <4>1, <4>2, FitsMore
    <3> QED
      BY <2>4, <2>5, <3>2, <3>3
  <2>6. CASE p[k + 1] = Star
    <3>1. Labels(p, k + 1) = {}
      BY <2>1, <2>4, <2>6 DEF Labels
    <3>a. k + 1 # 0
      OBVIOUS
    <3>2. f[k + 1] = 1 .. D
      <4>1. \A i \in 1 .. D : i \in Round(d, D, p, f, k + 1)
        BY <2>6, <3>1, <3>a DEF Round
      <4>2. \A i \in Round(d, D, p, f, k + 1) : i \in 1 .. D
        BY <2>6, <3>a DEF Round
      <4> QED
        BY <2>4, <4>1, <4>2, Zenon
    <3>3. \A i \in Nat : i >= k + 1 => Fits(d, p, i, k + 1)
      <4>1. SUFFICES ASSUME NEW i \in Nat, i >= k + 1
                     PROVE  Fits(d, p, i, k + 1)
        OBVIOUS
      <4>2. k < i
        BY <4>1
      <4>3. k =< n
        BY <2>4, <2>6
      <4>4. Fits(d, p, k, k)
        BY <2>2, <4>3
      <4> QED
        BY <2>6, <4>2, <4>4, FitsMore, Zenon
    <3>4. ASSUME NEW i \in 0 .. D, Fits(d, p, i, k + 1)
          PROVE  i \in f[k + 1] /\ i >= k + 1
      <4>1. PICK m \in Nat : m < i /\ Fits(d, p, m, k)
        <5>1. i \in Nat
          OBVIOUS
        <5>2. \E m \in Nat : Rest(d, p, i, k, m)
          BY <3>4, <5>1, FitsLess, Zenon
        <5> QED
          BY <5>2 DEF Rest
      <4>2. m >= k
        BY <2>3, <4>1
      <4> QED
        BY <3>2, <4>1, <4>2
    <3> QED
      BY <3>2, <3>3, <3>4
  <2> QED
    BY <2>5, <2>6
<1> HIDE DEF S
<1>3. \A k \in Nat : k \in S
  BY <1>1, <1>2, SetInduction
<1> QED
  <2>1. ASSUME NEW j \in 0 .. N
        PROVE  \A i \in 0 .. D : Fits(d, p, i, j) <=> i \in f[j] /\ i >= j
    <3>1. j \in S /\ j =< N
      BY <1>3
    <3> QED
      BY <3>1 DEF S
  <2> QED
    BY <2>1

\* The length of a name and its domain.
LEMMA NameLength ==
    ASSUME NEW s, s \in Seq(ToSet(s)), s # <<>>
    PROVE  Len(s) \in Nat /\ Len(s) >= 1 /\ DOMAIN s = 1 .. Len(s)
  BY LenProperties, EmptySeq

\* What is_wildcard_match accepts is a match, unless the pattern has two
\* wildcards side by side away from its front.
LEMMA MatchPartsSound ==
    ASSUME NEW d, d \in Seq(ToSet(d)), d # <<>>, NEW p, p \in Seq(ToSet(p)), p # <<>>,
           ~Adjacent(p) \/ Leading(p), MatchParts(d, p)
    PROVE  Matches(d, p)
<1>1. PICK D \in Nat, N \in Nat : D = Len(d) /\ N = Len(p) /\ D >= 1 /\ N >= 1
  BY NameLength
<1>2. PICK f : /\ Computed(d, D, p, N, f)
               /\ MatchParts(d, p) <=> D >= N /\ D \in f[N]
  BY <1>1, MatchByRounds, Zenon
<1>3. Fits(d, p, D, N)
  <2>1. CASE ~Adjacent(p)
    <3>1. \A j \in 1 .. (N - 1) : ~(p[j] = Star /\ p[j + 1] = Star)
      BY <1>1, <2>1, Zenon DEF Adjacent
    <3>2. \A j \in 0 .. N : \A i \in f[j] : i \in Nat /\ Fits(d, p, i, j)
      BY <1>2, <3>1, MatchFits, Zenon
    <3>3. N \in 0 .. N
      OBVIOUS
    <3> QED
      BY <1>2, <3>2, <3>3, Zenon
  <2>2. CASE Leading(p)
    <3>1. PICK n \in 1 .. N : \A j \in 1 .. N : (p[j] = Star) <=> (j =< n)
      BY <1>1, <2>2, Zenon DEF Leading
    <3>2. \A j \in 0 .. N : \A i \in 0 .. D : Fits(d, p, i, j) <=> i \in f[j] /\ i >= j
      BY <1>2, <3>1, LeadingExact, Zenon
    <3>3. N \in 0 .. N /\ D \in 0 .. D
      OBVIOUS
    <3> QED
      BY <1>2, <3>2, <3>3, Zenon
  <2> QED
    BY <2>1, <2>2
<1> QED
  BY <1>1, <1>3, Zenon DEF Fits, Matches

\* A match of a pattern with all wildcards in front is accepted.
LEMMA MatchPartsComplete ==
    ASSUME NEW d, d \in Seq(ToSet(d)), d # <<>>, NEW p, p \in Seq(ToSet(p)), p # <<>>,
           Leading(p), Matches(d, p)
    PROVE  MatchParts(d, p)
<1>1. PICK D \in Nat, N \in Nat : D = Len(d) /\ N = Len(p) /\ D >= 1 /\ N >= 1
  BY NameLength
<1>2. PICK f : /\ Computed(d, D, p, N, f)
               /\ MatchParts(d, p) <=> D >= N /\ D \in f[N]
  BY <1>1, MatchByRounds, Zenon
<1>3. PICK n \in 1 .. N : \A j \in 1 .. N : (p[j] = Star) <=> (j =< n)
  BY <1>1, Zenon DEF Leading
<1>4. \A j \in 0 .. N : \A i \in 0 .. D : Fits(d, p, i, j) <=> i \in f[j] /\ i >= j
  BY <1>2, <1>3, LeadingExact, Zenon
<1>5. N \in 0 .. N /\ D \in 0 .. D
  OBVIOUS
<1>6. Fits(d, p, D, N)
  BY <1>1, Zenon DEF Fits, Matches
<1> QED
  BY <1>2, <1>4, <1>5, <1>6, Zenon

\* "*.parent" matches.
LEMMA ParentMatches ==
    ASSUME NEW h, h \in Seq(ToSet(h)), Star \notin ToSet(h), Len(h) > 2
    PROVE  Matches(h, <<Star>> \o Tail(h))
<1>1. PICK D \in Nat : D = Len(h)
  BY LenProperties
<1>2. PICK p : p = <<Star>> \o Tail(h)
  OBVIOUS
<1>3. Len(p) = D /\ p[1] = Star /\ \A j \in 2 .. D : p[j] = h[j]
  <2>1. PICK T : T = ToSet(h) \cup {Star}
    OBVIOUS
  <2>2. h \in Seq(T) /\ <<Star>> \in Seq(T) /\ Tail(h) \in Seq(T) /\ Len(Tail(h)) = D - 1 /\ Len(<<Star>>) = 1
    BY <1>1, <2>1
  <2>3. \A j \in 1 .. (D - 1) : Tail(h)[j] = h[j + 1]
    BY <1>1, <2>2
  <2>a. PICK s, t : s = <<Star>> /\ t = Tail(h)
    OBVIOUS
  <2>b. s \in Seq(T) /\ t \in Seq(T) /\ Len(s) = 1 /\ Len(t) = D - 1
    BY <2>2, <2>a, Zenon
  <2>4. /\ Len(p) = Len(s) + Len(t)
        /\ \A i \in 1 .. Len(s) + Len(t) : p[i] = IF i <= Len(s) THEN s[i] ELSE t[i - Len(s)]
    <3>1. p = s \o t
      BY <1>2, <2>a, Zenon
    <3> QED
      BY <2>b, <3>1, ConcatProperties, Zenon
  <2>5. Len(p) = 1 + (D - 1)
    BY <2>b, <2>4, Zenon
  <2>6. \A i \in 1 .. (1 + (D - 1)) : p[i] = IF i <= 1 THEN s[i] ELSE t[i - 1]
    BY <2>b, <2>4, Zenon
  <2>7. 1 + (D - 1) = D /\ D > 2
    BY <1>1
  <2>8. Len(p) = D
    BY <2>5, <2>7, Zenon
  <2>9. p[1] = Star
    BY <2>6, <2>7, <2>a
  <2>10. ASSUME NEW j \in 2 .. D PROVE p[j] = h[j]
    <3>1. p[j] = t[j - 1]
      BY <2>6, <2>7
    <3>2. j - 1 \in 1 .. (D - 1) /\ (j - 1) + 1 = j
      BY <2>7
    <3> QED
      BY <2>3, <2>a, <3>1, <3>2, Zenon
  <2> QED
    BY <2>8, <2>9, <2>10
<1>4. \A j \in 1 .. D : h[j] # Star
  BY <1>1 DEF ToSet
<1>5. PICK cut : cut = [j \in 0 .. D |-> j]
  OBVIOUS
<1>6. cut \in [0 .. D -> 0 .. D] /\ cut[0] = 0 /\ cut[D] = D
  BY <1>5
<1>7. ASSUME NEW j \in 1 .. D
      PROVE  IF p[j] = Star THEN cut[j - 1] < cut[j]
             ELSE cut[j] = cut[j - 1] + 1 /\ h[cut[j]] = p[j]
  BY <1>3, <1>4, <1>5
<1>a. Fits(h, p, D, D)
  BY <1>6, <1>7, Zenon DEF Fits
<1>b. D = Len(h) /\ D = Len(p)
  BY <1>1, <1>3, Zenon
<1>8. Matches(h, p)
  BY <1>a, <1>b, Zenon DEF Fits, Matches
<1> QED
  BY <1>2, <1>8

-----------------------------------------------------------------------------
(* Routing.                                                                *)

\* route_request answers with a domain of the map or the default one.
LEMMA EntryKnown ==
    ASSUME TypeOK, NEW h \in HostHeaders
    PROVE  Entry(h) \in Entries
<1>1. CASE h # NoHost /\ h \notin Domains /\ \E name \in Domains : IsWildcardMatch(h, name)
  <2> DEFINE T == {i \in DOMAIN mappings : IsWildcardMatch(h, mappings[i])}
  <2>1. T \subseteq Nat
    BY DEF TypeOK
  <2>2. T # {}
    BY <1>1 DEF Domains, ToSet
  <2>3. Min(T) \in T
    BY <2>1, <2>2, MinInSet
  <2>4. FirstMatch(h) \in Domains
    BY <2>3 DEF FirstMatch, Domains, ToSet
  <2> QED
    BY <1>1, <2>4 DEF Entry, RouteRequest, Entries
<1>2. CASE ~(h # NoHost /\ h \notin Domains /\ \E name \in Domains : IsWildcardMatch(h, name))
  BY <1>2 DEF Entry, RouteRequest, Entries
<1> QED
  BY <1>1, <1>2

\* route_request goes where the host is covered, and to the default domain only
\* when no pattern with its wildcards in front matches.
LEMMA EntryCovers ==
    ASSUME TypeOK, Named, NEW h \in Hosts, h # NoHost
    PROVE  /\ Entry(h) # Default /\ (~Adjacent(Entry(h)) \/ Leading(Entry(h))) => Covers(Entry(h), h)
           /\ Entry(h) = Default => \A name \in Domains : Leading(name) => ~Matches(h, name)
<1>1. h \in Seq(ToSet(h)) /\ h # <<>> /\ Star \notin ToSet(h)
  BY HostAssumption
<1>2. \A name \in Domains : /\ name \in Seq(ToSet(name)) /\ name # <<>> /\ name # Default
                            /\ Valid(name)
  BY DEF TypeOK, Named
<1>3. Entry(h) = RouteRequest(h)
  BY DEF Entry
<1>4. CASE h \in Domains
  BY <1>2, <1>3, <1>4 DEF RouteRequest, Covers
<1>5. CASE h \notin Domains /\ \E name \in Domains : IsWildcardMatch(h, name)
  <2>1. PICK e : e = FirstMatch(h)
    OBVIOUS
  <2>2. PICK T : T = {i \in DOMAIN mappings : IsWildcardMatch(h, mappings[i])}
    OBVIOUS
  <2>3. T \subseteq Nat /\ T # {}
    BY <1>5, <2>2 DEF TypeOK, Domains, ToSet
  <2>4. Min(T) \in T
    BY <2>3, MinInSet
  <2>5. e \in Domains /\ IsWildcardMatch(h, e)
    BY <2>1, <2>2, <2>4 DEF FirstMatch, Domains, ToSet
  <2>6. ~Adjacent(e) \/ Leading(e) => Matches(h, e)
    BY <1>1, <1>2, <2>5, MatchPartsSound, Zenon DEF IsWildcardMatch
  <2>7. Entry(h) = e
    BY <1>3, <1>5, <2>1 DEF RouteRequest
  <2> QED
    BY <1>2, <2>5, <2>6, <2>7 DEF Covers
<1>6. CASE h \notin Domains /\ ~ \E name \in Domains : IsWildcardMatch(h, name)
  <2>1. \A name \in Domains : Leading(name) => ~Matches(h, name)
    <3>1. SUFFICES ASSUME NEW name \in Domains, Leading(name), Matches(h, name)
                   PROVE  FALSE
      OBVIOUS
    <3>2. MatchParts(h, name)
      BY <1>1, <1>2, <3>1, MatchPartsComplete, Zenon
    <3>3. Star \in ToSet(name)
      <4>1. Len(name) \in Nat /\ Len(name) >= 1 /\ DOMAIN name = 1 .. Len(name)
        BY <1>2, NameLength
      <4>2. 1 \in DOMAIN name /\ name[1] = Star
        BY <3>1, <4>1 DEF Leading
      <4> QED
        BY <4>2 DEF ToSet
    <3> QED
      BY <1>2, <1>6, <3>2, <3>3 DEF IsWildcardMatch
  <2>2. CASE Len(h) > 2 /\ <<Star>> \o Tail(h) \in Domains
    <3>1. Matches(h, <<Star>> \o Tail(h))
      BY <1>1, <2>2, ParentMatches
    <3>2. Entry(h) = <<Star>> \o Tail(h)
      BY <1>3, <1>6, <2>2, Zenon DEF RouteRequest
    <3> QED
      BY <2>1, <3>1, <3>2, Zenon DEF Covers
  <2>3. CASE ~(Len(h) > 2 /\ <<Star>> \o Tail(h) \in Domains) /\ Len(h) > 2 /\ Tail(h) \in Domains
    <3>1. Entry(h) = Tail(h)
      BY <1>3, <1>6, <2>3, Zenon DEF RouteRequest
    <3> QED
      BY <2>1, <2>3, <3>1, Zenon DEF Covers
  <2>4. CASE ~(Len(h) > 2 /\ <<Star>> \o Tail(h) \in Domains) /\ ~(Len(h) > 2 /\ Tail(h) \in Domains)
    <3>1. Entry(h) = Default
      BY <1>3, <1>6, <2>4, Zenon DEF RouteRequest
    <3> QED
      BY <2>1, <3>1
  <2> QED
    BY <2>2, <2>3, <2>4
<1> QED
  BY <1>4, <1>5, <1>6

-----------------------------------------------------------------------------
(* The invariant.                                                          *)

\* The first state.
LEMMA InitIInv == Init => IInv
<1>1. SUFFICES ASSUME Init PROVE IInv
  OBVIOUS
<1>2. PICK C \in Configs : mappings \in SetToSeqs(C)
  BY <1>1 DEF Init
<1>3. Cardinality(C) \in Nat
  BY ConfigAssumption, FS_CardinalityType
<1>4. mappings \in [1 .. Cardinality(C) -> C]
  BY <1>2 DEF SetToSeqs
<1>5. Domains \subseteq C /\ mappings \in [1 .. Cardinality(C) -> Domains]
  BY <1>4 DEF Domains, ToSet
<1>6. mappings \in Seq(Domains) /\ \A name \in Domains : Valid(name)
  BY <1>3, <1>5, ConfigAssumption
<1>7. TypeOK
  BY <1>1, <1>6 DEF Init, TypeOK, HostHeaders, Entries
<1>8. Named
  BY <1>2, <1>5, ConfigAssumption DEF Named
<1>9. RoutedWhereCovered
  BY <1>1 DEF Init, RoutedWhereCovered
<1> QED
  BY <1>7, <1>8, <1>9 DEF IInv

\* Every step of the router.
LEMMA NextIInv == IInv /\ [Next]_vars => IInv'
<1>1. SUFFICES ASSUME IInv, [Next]_vars PROVE IInv'
  OBVIOUS
<1> USE DEF IInv
<1>2. ASSUME NEW h \in HostHeaders, SelectUpstreamPeer(h)
      PROVE  IInv'
  <2>1. Entry(h) \in Entries
    BY <1>1, EntryKnown
  <2>2. mappings' = mappings /\ Domains' = Domains /\ Entries' = Entries
    BY <1>2 DEF SelectUpstreamPeer, Domains, Entries
  <2>3. /\ last' \in [host : HostHeaders, entry : Entries]
        /\ last'.host = h /\ last'.entry = Entry(h)
    BY <1>2, <2>1 DEF SelectUpstreamPeer
  <2>4. TypeOK'
    BY <1>1, <2>2, <2>3 DEF TypeOK, HostHeaders
  <2>5. h # NoHost =>
          /\ Entry(h) # Default /\ (~Adjacent(Entry(h)) \/ Leading(Entry(h))) => Covers(Entry(h), h)
          /\ Entry(h) = Default => \A name \in Domains : Leading(name) => ~Matches(h, name)
    <3>1. h # NoHost => h \in Hosts
      BY DEF HostHeaders
    <3> QED
      BY <1>1, <3>1, EntryCovers, Zenon
  <2>6. RoutedWhereCovered'
    BY <2>2, <2>3, <2>5 DEF RoutedWhereCovered
  <2>7. Named'
    BY <1>1, <2>2 DEF Named
  <2> QED
    BY <2>4, <2>6, <2>7
<1>3. CASE UNCHANGED vars
  <2>1. TypeOK'
    BY <1>1, <1>3 DEF vars, TypeOK, Domains, Entries, HostHeaders
  <2>2. last' = last /\ Domains' = Domains
    BY <1>3 DEF vars, Domains
  <2>3. RoutedWhereCovered'
    BY <1>1, <2>2 DEF RoutedWhereCovered
  <2>4. Named'
    BY <1>1, <2>2 DEF Named
  <2> QED
    BY <2>1, <2>3, <2>4
<1> QED
  BY <1>1, <1>2, <1>3 DEF Next

-----------------------------------------------------------------------------
(* Theorems.                                                               *)

\* select_upstream_peer answers every request from an entry of the router: none
\* of the fallbacks of route_request yields a name that is not configured.
THEOREM RouterTypeCorrect == Spec => []TypeOK
<1>1. IInv => TypeOK
  BY DEF IInv
<1> QED
  BY <1>1, InitIInv, NextIInv, PTL DEF Spec

\* route_request sends a host to a domain that covers it (but for adjacent
\* wildcards inside a pattern), and to the default domain only when no pattern
\* with its wildcards in front covers it: the loop of match_domain_parts, which
\* looks for the rightmost occurrence of a label and never goes back, agrees
\* with the meaning of the patterns, for names of any length.
THEOREM RoutedWhereMeant == Spec => []RoutedWhereCovered
<1>1. IInv => RoutedWhereCovered
  BY DEF IInv
<1> QED
  BY <1>1, InitIInv, NextIInv, PTL DEF Spec
=============================================================================
