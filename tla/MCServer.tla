------------------------------ MODULE MCServer ------------------------------
(***************************************************************************)
(* Instances of Server for TLC.  Every document is an ordinary one changed *)
(* in one respect, or in two that meet in the code; every document is      *)
(* tried with every format that can express it, the command lines with one *)
(* document.                                                               *)
(***************************************************************************)
EXTENDS Server

Plain80 == [tcp |-> TRUE, cert |-> "none", key |-> FALSE, ssl |-> FALSE, h2 |-> "absent"]
Tls443 == [Plain80 EXCEPT !.cert = "c1", !.key = TRUE]

MCListeners ==
    {[tcp |-> TRUE, cert |-> c, key |-> k, ssl |-> s, h2 |-> h] :
        c \in {"none", "c1"}, k \in BOOLEAN, s \in BOOLEAN, h \in {"absent", "yes", "no"}}
    \cup {[l EXCEPT !.tcp = FALSE] : l \in {Plain80, Tls443}}

Upstream1 == [addr |-> "u1", sni |-> FALSE, proto |-> "absent"]
Upstream2 == [addr |-> "u2", sni |-> TRUE, proto |-> "absent"]

MCConnectors ==
    {[addr |-> "u1", sni |-> s, proto |-> p] :
        s \in BOOLEAN, p \in {"absent", "h1-only", "h2-only", "h2-or-h1", "other"}}
    \cup {[Upstream1 EXCEPT !.addr = "bad"]}

MCBalances ==
    {[selection |-> s, key |-> k] :
        s \in Selections \cup {"absent", "other"}, k \in SelectionKeys \cup {"absent", "other"}}

MCRules ==
    {[kind |-> k, buckets |-> b, pattern |-> p] :
        k \in MultiKinds \cup {"any-matching-uri", "other"}, b \in BOOLEAN,
        p \in {"good", "bad", "absent"}}

MCCaches ==
    {[DefaultCache EXCEPT !.enabled = e, !.ttl = t] : e \in BOOLEAN, t \in {-1, 0, 300}}
    \cup {[DefaultCache EXCEPT !.browser = b, !.browserTtl = t] : b \in BOOLEAN, t \in {-1, 0}}
    \cup {[DefaultCache EXCEPT !.shards = n] : n \in {-1, 0}}

Domain1 == [name |-> <<"label", "label">>, upstreams |-> {Upstream1}, balances |-> <<>>,
            cert |-> "c2"]
Default1 == [Domain1 EXCEPT !.name = <<>>, !.cert = "c1"]

MCDomains ==
    {[Domain1 EXCEPT !.name = n] :
        n \in {<<"star", "label">>, <<"label", "star">>, <<"star">>, <<"partial", "label">>,
               <<"label", "bad">>}}
    \cup {[Domain1 EXCEPT !.upstreams = u] : u \in {{}, {[Upstream1 EXCEPT !.proto = "h2-only"]}}}
    \cup {[Domain1 EXCEPT !.cert = c] : c \in {"none", "auto", "c1"}}
    \cup {[Domain1 EXCEPT !.balances = <<[selection |-> "other", key |-> "absent"]>>]}

MCFilters ==
    {[b \in {block} |-> <<f>>] : block \in {"request", "upstream", "other"}, f \in {"good", "bad"}}

AbsBase == [given |-> TRUE, abs |-> TRUE, path |-> <<"srv", "www">>]

Proxy1 ==
    [kind |-> "proxy", sections |-> {"listeners", "connectors"}, listeners |-> <<Plain80>>,
     connectors |-> <<Upstream1, Upstream2>>, balances |-> <<>>, filters |-> <<>>, rules |-> <<>>,
     cache |-> DefaultCache, domains |-> {}, default |-> {}, base |-> NoBase]

\* A service that a TOML file can list.
Single == [Proxy1 EXCEPT !.connectors = <<Upstream1>>]

VHost1 ==
    [Proxy1 EXCEPT !.kind = "vhost", !.sections = {"listeners", "vhosts"}, !.connectors = <<>>,
                   !.domains = {Domain1}, !.default = {Default1}]

Files1 ==
    [Proxy1 EXCEPT !.kind = "files", !.sections = {"listeners", "file-server"},
                   !.connectors = <<>>, !.base = AbsBase]

MCServices ==
    {[s EXCEPT !.listeners = <<l>>] : s \in {Proxy1, Single, VHost1, Files1}, l \in MCListeners}
    \cup {[s EXCEPT !.listeners = <<>>] : s \in {Proxy1, VHost1, Files1}}
    \cup {[Proxy1 EXCEPT !.connectors = <<c>>] : c \in MCConnectors}
    \cup {[Proxy1 EXCEPT !.connectors = cs] : cs \in {<<>>, <<Upstream1, Upstream1>>}}
    \cup {[Single EXCEPT !.listeners = <<l>>, !.filters = f,
                          !.sections = @ \cup {"path-control"}] :
             l \in {Plain80, Tls443}, f \in MCFilters}
    \cup {[s EXCEPT !.balances = <<b>>] : s \in {Proxy1, Single}, b \in MCBalances}
    \cup {[Proxy1 EXCEPT !.balances = [i \in 1..2 |-> [selection |-> "Random", key |-> "absent"]]]}
    \cup {[s EXCEPT !.filters = f, !.sections = @ \cup {"path-control"}] :
             s \in {Proxy1, VHost1}, f \in MCFilters}
    \cup {[s EXCEPT !.rules = <<r>>, !.sections = @ \cup {"rate-limiting"}] :
             s \in {Proxy1, Single, VHost1}, r \in MCRules}
    \cup {[s EXCEPT !.cache = c, !.sections = @ \cup {"cache"}] :
             s \in {Proxy1, Single, VHost1}, c \in MCCaches}
    \cup {[VHost1 EXCEPT !.domains = {d}] : d \in MCDomains}
    \cup {[VHost1 EXCEPT !.default = d] :
             d \in {{}, {[Default1 EXCEPT !.cert = "none"]}, {[Default1 EXCEPT !.upstreams = {}]}}}
    \cup {[Proxy1 EXCEPT !.sections = @ \cup x] : x \in {{"vhosts"}, {"other"}, {"file-server"}}}
    \cup {[Proxy1 EXCEPT !.sections = @ \ {x}] : x \in Proxy1.sections}
    \cup {[Files1 EXCEPT !.base = b] :
             b \in {NoBase, [NoBase EXCEPT !.given = TRUE], [AbsBase EXCEPT !.abs = FALSE, !.path = <<"www">>],
                    [AbsBase EXCEPT !.path = <<"site">>], [AbsBase EXCEPT !.path = <<"none">>]}}

Doc(services) ==
    [threads |-> 2, daemonize |-> FALSE, pid |-> "none", socket |-> "none", services |-> services]

Cli(formats) ==
    [formats |-> formats, validate |-> FALSE, daemonize |-> FALSE, upgrade |-> FALSE,
     pid |-> "none", socket |-> "none", threads |-> {}]

FormatsOf(s) ==
    (IF \A d \in s.domains : d.cert # "auto" THEN {"kdl"} ELSE {})
    \cup (IF Len(s.balances) < 2 /\ \A i \in DOMAIN s.listeners : s.listeners[i].tcp
          THEN {"yaml"} ELSE {})
    \cup (IF /\ s.kind = "proxy" /\ Len(s.connectors) = 1
             /\ \A i \in DOMAIN s.listeners : s.listeners[i].tcp \/ s.listeners[i].cert = "none"
          THEN {"toml"} ELSE {})

\* Services of all kinds, in another order than they are built in.
Mixed == Doc(<<Files1, [VHost1 EXCEPT !.listeners = <<Tls443>>]>>)

Limited ==
    Doc(<<[Proxy1 EXCEPT !.sections = @ \cup {"rate-limiting"},
                         !.rules = <<[kind |-> "source-ip", buckets |-> TRUE,
                                      pattern |-> "absent"]>>]>>)

MCClis ==
    {[Cli({"kdl"}) EXCEPT !.daemonize = d, !.pid = p] : d \in BOOLEAN, p \in {"none", "/a", "rel"}}
    \cup {[Cli({"kdl"}) EXCEPT !.upgrade = u, !.socket = s] : u \in BOOLEAN, s \in {"none", "/a"}}
    \cup {[Cli({f}) EXCEPT !.threads = {3}] : f \in {"kdl", "yaml"}}
    \cup {Cli(f) : f \in {{}, {"kdl", "yaml"}, {"yaml"}}}

MCStarts ==
    UNION {{[doc |-> Doc(<<s>>), cli |-> [Cli({f}) EXCEPT !.validate = TRUE]] :
               f \in FormatsOf(s)} : s \in MCServices}
    \cup {[doc |-> Mixed, cli |-> Cli({f})] : f \in {"kdl", "yaml"}}
    \cup {[doc |-> [Limited EXCEPT !.daemonize = d, !.pid = p, !.socket = "/a"], cli |-> c] :
             d \in BOOLEAN, p \in {"none", "/b"}, c \in MCClis}

MCDisks == {[c1 |-> "good", c2 |-> "good"], [c1 |-> "good", c2 |-> "bad"],
            [c1 |-> "missing", c2 |-> "good"]}

Entry(type, target) == [type |-> type, target |-> target]

MCTree ==
    LET dirs  == {<<>>, <<"srv">>, <<"srv", "www">>, <<"srv", "www", "sub">>, <<"srv", "www", "alt">>,
                 <<"srv", "www2">>}
        files == {<<"srv", "www", "page">>, <<"srv", "www", "sub", "index.html">>,
                  <<"srv", "www2", "page">>}
        links == (<<"site">> :> <<"srv", "www">>)
                 @@ (<<"srv", "www", "ln">> :> <<"srv", "www2", "page">>)
                 @@ (<<"srv", "www", "alt", "index.html">> :> <<"srv", "www", "page">>)
    IN  [p \in dirs \cup files \cup DOMAIN links |->
            IF p \in dirs THEN Entry("dir", <<>>)
            ELSE IF p \in files THEN Entry("file", <<>>) ELSE Entry("link", links[p])]

MCCwd == <<"srv">>

MCUris ==
    {<<"page">>, <<"www", "page">>, <<"sub">>, <<"alt">>, <<"ln">>, <<"none">>, <<"..", "www2", "page">>, <<"sub", "..", "page">>,
     <<>>}
=============================================================================
