----------------------------- MODULE ConfigLoad -----------------------------
(***************************************************************************)
(* From a configuration file and the command line to the Config of the     *)
(* server (config/mod.rs, internal.rs, kdl/mod.rs, yaml.rs, toml.rs,       *)
(* cli.rs).  Pure operators: for each part of a document, whether the      *)
(* format's front end accepts it and what it makes of it.  What is not     *)
(* accepted ends the process.                                              *)
(*                                                                         *)
(* A document is a record:                                                 *)
(*   threads, daemonize, pid, socket    the system section                 *)
(*   services                           a sequence of service records      *)
(* and a service has the fields                                            *)
(*   kind       "proxy", "vhost" or "files": where YAML lists it; what     *)
(*              TOML lists are proxies                                      *)
(*   sections   names of the KDL sections it has                           *)
(*   listeners, connectors, balances, rules, cache                         *)
(*   filters    for each block of path-control its filters                  *)
(*   domains    a set of domains; default: {} or one domain, without name  *)
(*   base       base path of a file server                                 *)
(* Names, paths and settings are abstract: "absent" and "none" stand for   *)
(* what is not written, "other" for what no front end knows, a domain name *)
(* is the sequence of the kinds of its labels.                             *)
(***************************************************************************)
EXTENDS Integers, Sequences

CONSTANT DefaultThreads     \* threads of limiters from YAML, and of a silent file (8)

ASSUME ThreadsAssumption == DefaultThreads \in Nat

-----------------------------------------------------------------------------
(* Listeners: [tcp, cert, key, ssl, h2].                                   *)

ListenerAccepted(fmt, l) ==
    l.tcp =>
        /\ l.key = (l.cert # "none")
        /\ fmt = "kdl" /\ l.h2 = "yes" => l.cert # "none" \/ l.ssl

\* Mutant: the ssl flag is overlooked when no certificate is given.
Listener_SslLost(fmt, l) ==
    [tcp |-> l.tcp, tls |-> l.cert, ssl |-> l.cert # "none", h2 |-> l.h2 = "yes"]

\* HTTP/2 is offered by default only by KDL, with a certificate.  TOML knows
\* neither the ssl flag nor HTTP/2, and serde ignores them.
Listener(fmt, l) ==
    [tcp |-> l.tcp,
     tls |-> l.cert,
     ssl |-> l.cert # "none" \/ (l.ssl /\ fmt # "toml"),
     h2  |-> \/ l.h2 = "yes" /\ fmt # "toml"
             \/ fmt = "kdl" /\ l.cert # "none" /\ l.h2 # "no"]

-----------------------------------------------------------------------------
(* Connectors: [addr, sni, proto].                                         *)

\* HttpPeer::new of pingora panics for an address it cannot resolve.
ConnectorAccepted(fmt, c) ==
    /\ c.addr # "bad"
    /\ fmt = "kdl" =>
          /\ c.proto # "other"
          /\ c.proto \in {"h2-only", "h2-or-h1"} => c.sni

Connector(fmt, c) ==
    [addr |-> c.addr, tls |-> c.sni,
     alpn |-> CASE fmt = "toml"           -> "h1-only"
                [] fmt # "toml" /\ c.proto = "absent" ->
                      IF c.sni THEN "h2-or-h1" ELSE "h1-only"
                [] fmt # "toml" /\ c.proto = "other"  -> "h1-only"
                [] OTHER                  -> c.proto]

-----------------------------------------------------------------------------
(* Load balancing: the load-balance blocks of a service, [selection, key]. *)

HashSelections == {"FNV", "Ketama"}
Selections == {"RoundRobin", "Random"} \cup HashSelections
SelectionKeys == {"UriPath", "SourceAddrAndUriPath"}

\* extract_load_balance.
BalanceAccepted(fmt, b) ==
    fmt = "kdl" =>
        /\ b.selection \in Selections \cup {"absent"}
        /\ b.selection \in HashSelections => b.key \in SelectionKeys

\* YAML falls back to RoundRobin, and to the null selector.
UpstreamOptions(b) ==
    [selection |-> IF b.selection \in Selections THEN b.selection ELSE "RoundRobin",
     selector  |-> IF b.selection \in HashSelections /\ b.key \in SelectionKeys
                   THEN b.key ELSE "null"]

\* A second block makes extract_service panic; YAML cannot have one, and TOML
\* ignores what it has.
BalancesAccepted(fmt, bs) ==
    fmt # "toml" => Len(bs) <= 1 /\ \A i \in DOMAIN bs : BalanceAccepted(fmt, bs[i])

Balance(bs) ==
    IF bs = <<>> THEN UpstreamOptions([selection |-> "absent", key |-> "absent"])
                 ELSE UpstreamOptions(bs[1])

-----------------------------------------------------------------------------
(* Rate limiting rules: [kind, buckets, pattern].                          *)

MultiKinds == {"source-ip", "specific-uri"}

RuleComplete(r) ==
    /\ r.kind \in MultiKinds \cup {"any-matching-uri"}
    /\ r.kind \in MultiKinds => r.buckets
    /\ r.kind # "source-ip" => r.pattern = "good"

\* Mutant: an incomplete rule is left out, as in YAML.
RulesAccepted_Skip(fmt, rules) == TRUE

\* make_rate_limiter fails for what YAML skips.
RulesAccepted(fmt, rules) == fmt = "kdl" => \A i \in DOMAIN rules : RuleComplete(rules[i])

\* The threads of a limiter are those of the file, in YAML always the default;
\* the command line is applied later.  What is skipped leaves its place empty.
Rules(fmt, threads, rules) ==
    [i \in {j \in DOMAIN rules : RuleComplete(rules[j])} |->
        [kind |-> rules[i].kind,
         threads |-> IF fmt = "yaml" THEN DefaultThreads ELSE threads]]

-----------------------------------------------------------------------------
(* Filters: from the blocks of path-control, "other" for what has no known *)
(* name, to their filters, "good" or what Modifiers does not know.         *)

\* The blocks that are read: unknown ones are ignored by every front end, those
\* for requests by From<PathControl> of toml.rs too.
Blocks(fmt) == {"upstream"} \cup (IF fmt = "toml" THEN {} ELSE {"request"})

Filters(fmt, filters) == [b \in DOMAIN filters \cap Blocks(fmt) |-> filters[b]]

-----------------------------------------------------------------------------
(* Cache section: [enabled, ttl, browser, browserTtl, shards].             *)

DefaultCache == [enabled |-> FALSE, ttl |-> 300, browser |-> FALSE, browserTtl |-> 3600,
                 shards |-> 32]

CacheAccepted(fmt, c) ==
    fmt # "toml" =>
        /\ c.ttl >= 0 /\ c.browserTtl >= 0
        /\ c.shards >= IF fmt = "kdl" THEN 1 ELSE 0

-----------------------------------------------------------------------------
(* Domains: [name, upstreams, balances, cert]; cert is "none", "auto" or a *)
(* file.  How a domain balances is read and then not used (VHostRouter).   *)

\* validate_domain_name, is_valid_wildcard_pattern, is_valid_domain_name.  Kinds
\* of labels: "star", "label", "partial" (a star among other characters), "bad".
ValidDomainName(name) ==
    IF \E i \in DOMAIN name : name[i] \in {"star", "partial"}
    THEN /\ Len(name) >= 2
         /\ name[Len(name)] # "star"
         /\ \A i \in DOMAIN name : name[i] \in {"star", "label"}
    ELSE \A i \in DOMAIN name : name[i] = "label"

\* extract_domain_config and extract_ssl_config; a YAML domain without
\* upstreams is left to validate().
DomainAccepted(fmt, d) ==
    /\ \A c \in d.upstreams : ConnectorAccepted(fmt, c)
    /\ BalancesAccepted(fmt, d.balances)
    /\ fmt = "kdl" => d.upstreams # {} /\ d.cert # "auto"

Domain(fmt, d) ==
    [name |-> d.name, upstreams |-> {Connector(fmt, c) : c \in d.upstreams},
     balances |-> d.balances, cert |-> d.cert]

\* extract_vhosts: KDL refuses a bad name; YAML leaves the domain out.
DomainsAccepted(fmt, s) ==
    /\ \A d \in s.domains : DomainAccepted(fmt, d) /\ (fmt = "kdl" => ValidDomainName(d.name))
    /\ s.default # {} /\ \A d \in s.default : DomainAccepted(fmt, d)

Domains(fmt, s) == {Domain(fmt, d) : d \in {e \in s.domains : ValidDomainName(e.name)}}

-----------------------------------------------------------------------------
(* Services.                                                               *)

Sections(kind) ==
    CASE kind = "proxy" -> {"listeners", "connectors", "path-control", "rate-limiting", "cache"}
      [] kind = "vhost" -> {"listeners", "vhosts", "path-control", "rate-limiting", "cache"}
      [] kind = "files" -> {"listeners", "file-server"}

Kinds == {"proxy", "vhost", "files"}

\* extract_services: a KDL service is what its sections make it, in this order.
KdlKind(sections) ==
    CASE sections \subseteq Sections("proxy") -> "proxy"
      [] ~(sections \subseteq Sections("proxy")) /\ sections \subseteq Sections("vhost") -> "vhost"
      [] OTHER -> "files"

KindOf(fmt, s) == IF fmt = "kdl" THEN KdlKind(s.sections) ELSE s.kind

\* Sections a KDL service cannot do without.
Required(kind) ==
    {"listeners"} \cup (CASE kind = "proxy" -> {"connectors"}
                          [] kind = "vhost" -> {"vhosts"}
                          [] kind = "files" -> {"file-server"})

SectionsAccepted(s) ==
    LET kind == KdlKind(s.sections)
    IN  /\ Required(kind) \subseteq s.sections
        /\ s.sections \subseteq Sections(kind)
        /\ s.listeners # <<>>
        /\ kind = "proxy" => s.connectors # <<>>

\* extract_service, extract_vhost_service, extract_file_server, and serde.
ServiceAccepted(fmt, s) ==
    LET kind == KindOf(fmt, s)
    IN  /\ fmt = "kdl" => SectionsAccepted(s)
        /\ fmt = "toml" => Len(s.connectors) = 1
        /\ \A i \in DOMAIN s.listeners : ListenerAccepted(fmt, s.listeners[i])
        /\ kind # "files" => RulesAccepted(fmt, s.rules) /\ CacheAccepted(fmt, s.cache)
        /\ kind = "proxy" =>
              /\ \A i \in DOMAIN s.connectors : ConnectorAccepted(fmt, s.connectors[i])
              /\ BalancesAccepted(fmt, s.balances)
        /\ kind = "vhost" => DomainsAccepted(fmt, s)

\* The configuration of a service.  ProxyConfig of toml.rs has no rules, no
\* balancing and no cache: what the file writes of them is ignored.
ServiceConf(fmt, threads, s) ==
    [kind |-> KindOf(fmt, s),
     listeners |-> [i \in DOMAIN s.listeners |-> Listener(fmt, s.listeners[i])],
     upstreams |-> [i \in DOMAIN s.connectors |-> Connector(fmt, s.connectors[i])],
     options |-> IF fmt = "toml" THEN Balance(<<>>) ELSE Balance(s.balances),
     filters |-> Filters(fmt, s.filters),
     rules |-> IF fmt = "toml" THEN <<>> ELSE Rules(fmt, threads, s.rules),
     cache |-> IF fmt = "toml" THEN DefaultCache ELSE s.cache,
     domains |-> Domains(fmt, s),
     default |-> {Domain(fmt, d) : d \in s.default},
     base |-> s.base]

-----------------------------------------------------------------------------
(* The file, and the layers above it.                                      *)

\* Config::default, which a start without a file keeps.
DefaultConf ==
    [threads |-> DefaultThreads, daemonize |-> FALSE, upgrade |-> FALSE, validate |-> FALSE,
     pid |-> "none", socket |-> "none", services |-> <<>>]

DocAccepted(fmt, doc) ==
    /\ \A i \in DOMAIN doc.services : ServiceAccepted(fmt, doc.services[i])
    /\ fmt = "kdl" => doc.services # <<>>

\* apply_toml takes nothing but the threads from the system section.
ApplyToml(services, doc) ==
    [threads |-> doc.threads, daemonize |-> FALSE, upgrade |-> FALSE, validate |-> FALSE,
     pid |-> "none", socket |-> "none", services |-> services]

\* try_from with extract_system_data, and From<Yaml>.
FileConf(fmt, doc) ==
    LET services == [i \in DOMAIN doc.services |->
                        ServiceConf(fmt, doc.threads, doc.services[i])]
    IN  IF fmt = "toml" THEN ApplyToml(services, doc)
        ELSE [threads |-> doc.threads, daemonize |-> doc.daemonize, upgrade |-> FALSE,
              validate |-> FALSE, pid |-> doc.pid, socket |-> doc.socket,
              services |-> services]

\* Command line and file name different files for the same purpose.
Mismatch(given, current) == given # "none" /\ current # "none" /\ given # current

CliAccepted(conf, cli) == ~Mismatch(cli.pid, conf.pid) /\ ~Mismatch(cli.socket, conf.socket)

\* apply_cli; cli.threads has one element, or none.
ApplyCli(conf, cli) ==
    [threads |-> IF cli.threads = {} THEN conf.threads ELSE CHOOSE n \in cli.threads : TRUE,
     daemonize |-> conf.daemonize \/ cli.daemonize,
     upgrade |-> conf.upgrade \/ cli.upgrade,
     validate |-> conf.validate \/ cli.validate,
     pid |-> IF cli.pid = "none" THEN conf.pid ELSE cli.pid,
     socket |-> IF cli.socket = "none" THEN conf.socket ELSE cli.socket,
     services |-> conf.services]

-----------------------------------------------------------------------------
(* Config::validate and VHostConfig::validate.                             *)

\* validate_domain; exists is the set of certificate files that exist.
ValidDomain(exists, d) ==
    /\ d.upstreams # {}
    /\ d.cert \in {"none", "auto"} \cup exists

ValidVHost(exists, s) ==
    /\ s.listeners # <<>>
    /\ \A d \in s.domains \cup s.default : ValidDomain(exists, d)
    /\ s.cache.enabled => s.cache.ttl # 0
    /\ s.cache.browser => s.cache.browserTtl # 0

Absolute(path) == path \in {"/a", "/b"}

\* Relative paths are only warned of when they are not used.
ValidConf(exists, conf) ==
    /\ \A i \in DOMAIN conf.services :
          conf.services[i].kind = "vhost" => ValidVHost(exists, conf.services[i])
    /\ conf.daemonize => Absolute(conf.pid)
    /\ conf.upgrade => Absolute(conf.socket)
=============================================================================
