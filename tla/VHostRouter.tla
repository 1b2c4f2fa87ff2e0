----------------------------- MODULE VHostRouter -----------------------------
(***************************************************************************)
(* VHostRouter (proxy/vhost/router.rs): which configured domain answers a  *)
(* request with a given Host header.  Of that domain's backends the first  *)
(* one is picked.                                                          *)
(*                                                                         *)
(* A host or a domain name is the sequence of its lower-case labels, Star  *)
(* stands for the label "*".  Labels are well-formed.                      *)
(***************************************************************************)
EXTENDS Naturals, Sequences, FiniteSets, FiniteSetsExt, SequencesExt

CONSTANTS
    Star,          \* the wildcard label
    Default,       \* the default domain, used when nothing matches
    NoHost,        \* extract_host_header found no usable Host header
    Hosts,         \* hosts that clients ask for
    Configs        \* configurations: sets of domain names

ASSUME HostAssumption ==
    /\ Default # NoHost
    /\ \A h \in Hosts : h \in Seq(ToSet(h)) /\ h # <<>> /\ Star \notin ToSet(h)

\* is_valid_wildcard_pattern, is_valid_domain_name; others make new panic.
Valid(name) ==
    Star \in ToSet(name) => Len(name) >= 2 /\ Last(name) # Star

ASSUME ConfigAssumption ==
    \A C \in Configs :
        /\ IsFiniteSet(C) /\ Default \notin C
        /\ \A name \in C : name \in Seq(ToSet(name)) /\ name # <<>> /\ Valid(name)

VARIABLES
    mappings,   \* domain_mappings, in the iteration order of its HashMap
    last        \* the last request, and the entry whose backend it went to

vars == <<mappings, last>>

-----------------------------------------------------------------------------
(* match_domain_parts, from right to left.                                 *)

\* Mutant: the search for the next label starts at the wildcard's own label.
SkipAtLeast_Zero(i) == i

\* The wildcard takes at least one label, so the search starts left of i.
SkipAtLeast(i) == i - 1

\* match[j] has the numbers i of labels of the host whose first i labels the
\* loop takes for the first j parts of the pattern (domain_idx = i - 1,
\* pattern_idx = j - 1).  After a wildcard, the wildcards next to it are skipped
\* too, and the rightmost occurrence of the label that follows them is taken.
\* When either side runs out, both have to.
MatchParts(d, p) ==
    LET match[j \in 0 .. Len(p)] ==
            IF j = 0 THEN {0}
            ELSE IF p[j] # Star THEN {i \in 1 .. Len(d) : d[i] = p[j] /\ i - 1 \in match[j - 1]}
            ELSE LET labels == {n \in 1 .. (j - 1) : p[n] # Star}
                     next == Max(labels)
                     Places(i) == {m \in 1 .. SkipAtLeast(i) : d[m] = p[next]}
                 IN  {i \in 1 .. Len(d) :
                        \/ labels = {}
                        \/ Places(i) # {} /\ Max(Places(i)) - 1 \in match[next - 1]}
    IN  Len(d) >= Len(p) /\ Len(d) \in match[Len(p)]

IsWildcardMatch(d, p) == Star \in ToSet(p) /\ Valid(p) /\ MatchParts(d, p)

\* What the comments say: the host falls into consecutive pieces, one for each
\* part of the pattern, of one label or more for a wildcard and of the label
\* itself otherwise.  cut[j] is where the piece of part j ends.
Matches(d, p) ==
    \E cut \in [0 .. Len(p) -> 0 .. Len(d)] :
        /\ cut[0] = 0 /\ cut[Len(p)] = Len(d)
        /\ \A j \in 1 .. Len(p) :
              IF p[j] = Star THEN cut[j - 1] < cut[j]
              ELSE cut[j] = cut[j - 1] + 1 /\ d[cut[j]] = p[j]

-----------------------------------------------------------------------------
(* route_request, select_upstream_peer.                                    *)

Domains == ToSet(mappings)

\* Mutant: the first pattern of the map, whether it matches or not.
FirstMatch_Any(h) == Head(mappings)

\* The first pattern of the map, in its iteration order, that matches.
FirstMatch(h) == mappings[Min({i \in DOMAIN mappings : IsWildcardMatch(h, mappings[i])})]

\* Mutant: the parent domain is not looked up.
RouteRequest_AnyParent(h) == IF h \in Domains \/ Len(h) < 3 THEN h ELSE Tail(h)

\* Exact name, wildcard, "*.parent", parent, default.
RouteRequest(h) ==
    LET parent == Tail(h)
    IN  IF h \in Domains THEN h
        ELSE IF \E name \in Domains : IsWildcardMatch(h, name) THEN FirstMatch(h)
        ELSE IF Len(h) > 2 /\ <<Star>> \o parent \in Domains THEN <<Star>> \o parent
        ELSE IF Len(h) > 2 /\ parent \in Domains THEN parent
        ELSE Default

Entry(h) == IF h = NoHost THEN Default ELSE RouteRequest(h)

\* select_upstream_peer, select_from_default_upstream: the first backend of the
\* entry.  A domain with several backends has a load balancer (found when it is
\* asked for by its own name), but that one selects nothing: its backends are
\* handed over for discovery and update is never called.
SelectUpstreamPeer(h) ==
    /\ last' = [host |-> h, entry |-> Entry(h)]
    /\ UNCHANGED mappings

\* VHostRouter::new, for every configuration and every iteration order.
Init ==
    /\ \E C \in Configs : mappings \in SetToSeqs(C)
    /\ last = [host |-> NoHost, entry |-> Default]

\* extract_host_header: the host in lower case and without port, or none when
\* the header is missing, empty, too long or holds white space.
HostHeaders == Hosts \cup {NoHost}

Next == \E h \in HostHeaders : SelectUpstreamPeer(h)

Spec == Init /\ [][Next]_vars

-----------------------------------------------------------------------------
(* Properties.                                                             *)

Entries == Domains \cup {Default}

\* The map has names that new accepts, and a request is answered by an entry of
\* it or by the default one.
TypeOK ==
    /\ mappings \in Seq(Domains)
    /\ \A name \in Domains : Valid(name)
    /\ last \in [host : HostHeaders, entry : Entries]

Adjacent(p) == \E j \in 1 .. (Len(p) - 1) : p[j] = Star /\ p[j + 1] = Star
Leading(p) == \E n \in 1 .. Len(p) : \A j \in 1 .. Len(p) : (p[j] = Star) <=> (j <= n)

Covers(name, h) ==
    \/ name = h
    \/ Matches(h, name)
    \/ Len(h) > 2 /\ name = Tail(h)

\* A host is routed to a domain that covers it, unless the domain has two
\* wildcards side by side away from its front; and a host that is covered by a
\* domain whose wildcards all stand in front is never left to the default.
RoutedWhereCovered ==
    LET h == last.host
        e == last.entry
    IN  h # NoHost =>
        /\ e # Default /\ (~Adjacent(e) \/ Leading(e)) => Covers(e, h)
        /\ e = Default => \A name \in Domains : Leading(name) => ~Matches(h, name)

\* The names in the map are those of a configuration.
Named ==
    \A name \in Domains : name \in Seq(ToSet(name)) /\ name # <<>> /\ name # Default

\* The inductive invariant.
IInv == TypeOK /\ Named /\ RoutedWhereCovered
=============================================================================
