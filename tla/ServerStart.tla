----------------------------- MODULE ServerStart -----------------------------
(***************************************************************************)
(* main(): the configuration is loaded, layered and validated, the         *)
(* services are built one after the other, and pingora takes over (main.rs,*)
(* config/mod.rs, utils.rs, the constructors in proxy/mod.rs, files.rs and *)
(* vhost/service.rs).  Every refusal is a panic that ends the process.     *)
(*                                                                         *)
(* Certificate files may come, go and change at any time between the       *)
(* steps.  After a run with --validate-configs the same command may be     *)
(* started without it.                                                     *)
(***************************************************************************)
EXTENDS ConfigLoad

CONSTANTS
    Starts,        \* documents with command lines, records [doc, cli]
    CertFiles,     \* certificate files
    Disks,         \* their states at first
    MaxChanges     \* bound: changes of the certificate files

ListenerType == [tcp : BOOLEAN, cert : CertFiles \cup {"none"}, key : BOOLEAN, ssl : BOOLEAN,
                 h2 : {"absent", "yes", "no"}]

BalanceType == [selection : Selections \cup {"absent", "other"},
                key : SelectionKeys \cup {"absent", "other"}]

CliType == [formats : SUBSET {"kdl", "yaml", "toml"}, validate : BOOLEAN,
            daemonize : BOOLEAN, upgrade : BOOLEAN, pid : STRING, socket : STRING,
            threads : SUBSET Nat]

BaseType == [given : BOOLEAN, abs : BOOLEAN, path : Seq(STRING)]

\* What the documents write of a service.
ServiceTyped(s) ==
    /\ s.kind \in Kinds
    /\ s.listeners \in Seq(ListenerType) /\ s.balances \in Seq(BalanceType)
    /\ DOMAIN s.filters \subseteq {"request", "upstream", "other"} /\ s.base \in BaseType
    /\ \A d \in s.domains \cup s.default : d.cert \in CertFiles \cup {"none", "auto"}

ASSUME StartAssumption ==
    /\ \A s \in Starts :
          /\ s.cli \in CliType
          /\ \A i \in DOMAIN s.doc.services :
                /\ ServiceTyped(s.doc.services[i])
                /\ s.cli.formats = {"toml"} => s.doc.services[i].kind = "proxy"
    /\ CertFiles \cap {"none", "auto"} = {}
    /\ Disks \subseteq [CertFiles -> {"good", "bad", "missing"}]
    /\ MaxChanges \in Nat

VARIABLES
    doc,       \* the document
    cli,       \* Cli: [formats, validate, daemonize, upgrade, pid, socket, threads]
    disk,      \* certificate files: "good", "bad" (do not load) or "missing"
    changes,   \* changes of disk so far
    stage,     \* where main() is
    conf,      \* the Config
    built,     \* the services built so far, by their places in the file
    vetted     \* history: "yes" when --validate-configs had no complaint and no
               \* certificate file has changed since the first start, else "no"

startVars == <<doc, cli, disk, changes, stage, conf, built, vetted>>

-----------------------------------------------------------------------------

StartInit ==
    /\ \E s \in Starts : doc = s.doc /\ cli = s.cli
    /\ disk \in Disks
    /\ changes = 0
    /\ stage = "load"
    /\ conf = DefaultConf
    /\ built = <<>>
    /\ vetted = "no"

\* The one file named, if there is one.
Format == CHOOSE f \in cli.formats : TRUE

\* render_config: more than one file is refused, none leaves the default.
Load ==
    /\ stage = "load"
    /\ IF cli.formats = {}
       THEN conf' = DefaultConf /\ stage' = "layer"
       ELSE IF cli.formats = {Format} /\ DocAccepted(Format, doc)
            THEN conf' = FileConf(Format, doc) /\ stage' = "layer"
            ELSE conf' = conf /\ stage' = "refused"
    /\ UNCHANGED <<doc, cli, disk, changes, built, vetted>>

Layer ==
    /\ stage = "layer"
    /\ IF CliAccepted(conf, cli)
       THEN conf' = ApplyCli(conf, cli) /\ stage' = "validate"
       ELSE conf' = conf /\ stage' = "refused"
    /\ UNCHANGED <<doc, cli, disk, changes, built, vetted>>

Existing == {c \in CertFiles : disk[c] # "missing"}

Validate ==
    /\ stage = "validate"
    /\ stage' = IF ValidConf(Existing, conf) THEN "build" ELSE "refused"
    /\ UNCHANGED <<doc, cli, disk, changes, conf, built, vetted>>

-----------------------------------------------------------------------------
(* Services.                                                               *)

Unbuilt(kind) ==
    {i \in DOMAIN conf.services : i \notin DOMAIN built /\ conf.services[i].kind = kind}

\* Mutant: the services come up in the order of the file.
Due_InFileOrder(i) ==
    /\ i \in DOMAIN conf.services /\ i \notin DOMAIN built
    /\ \A j \in DOMAIN conf.services : j < i => j \in DOMAIN built

\* The service that main() builds next: basic proxies first, then VHosts, then
\* file servers, each in the order of the file.
Due(i) ==
    \E kind \in Kinds :
        /\ i \in Unbuilt(kind)
        /\ \A j \in Unbuilt(kind) : i <= j
        /\ kind # "proxy" => Unbuilt("proxy") = {}
        /\ kind = "files" => Unbuilt("vhost") = {}

AllBuilt == \A i \in DOMAIN conf.services : i \in DOMAIN built

Loads(cert) == cert = "auto" \/ (cert \in CertFiles /\ disk[cert] = "good")

\* populate_listners, and stryvo_vhost_service which alone knows listeners
\* that take the certificate from SNI.
ListenerBuilds(kind, l) ==
    /\ l.tcp /\ l.tls # "none" => Loads(l.tls)
    /\ l.tcp /\ l.tls = "none" /\ kind # "vhost" => ~l.ssl /\ ~l.h2

Speaks(l) == IF l.tcp /\ (l.tls # "none" \/ l.ssl) THEN "tls" ELSE "plain"

\* Modifiers::from_conf, called for basic proxies only.
FiltersBuild(s) == \A b \in DOMAIN s.filters : \A i \in DOMAIN s.filters[b] : s.filters[b][i] = "good"

\* Mutant: a default certificate that does not load is only complained of.
VHostBuilds_Unloaded(s) ==
    /\ ValidVHost(Existing, s)
    /\ \A d \in s.domains : ValidDomainName(d.name)

\* VHostProxyService::new: VHostConfig::validate again, and CertificateManager::new,
\* for which the default domain must have a certificate that loads; VHostRouter::new
\* panics for a bad name.
VHostBuilds(s) ==
    /\ ValidVHost(Existing, s)
    /\ \A d \in s.default : Loads(d.cert)
    /\ \A d \in s.domains : ValidDomainName(d.name)

Builds(s) ==
    /\ \A i \in DOMAIN s.listeners : ListenerBuilds(s.kind, s.listeners[i])
    /\ s.kind = "proxy" => FiltersBuild(s)
    /\ s.kind = "vhost" => VHostBuilds(s)

\* A running service.  Backends are a set ordered by address, into which the
\* first connector of an address goes; a VHost has neither filters nor rules;
\* a domain whose certificate does not load is served with the default one, if
\* that one has loaded.
Service(s) ==
    [kind |-> s.kind,
     speaks |-> [i \in DOMAIN s.listeners |-> Speaks(s.listeners[i])],
     backends |-> {s.upstreams[i].addr : i \in DOMAIN s.upstreams},
     options |-> s.options,
     filters |-> IF s.kind = "proxy" THEN s.filters ELSE <<>>,
     rules |-> IF s.kind = "proxy" THEN s.rules ELSE <<>>,
     routed |-> {d.name : d \in s.domains},
     own |-> {d.name : d \in {e \in s.domains : Loads(e.cert)}},
     fallback |-> {d.cert : d \in {e \in s.default : Loads(e.cert)}},
     base |-> s.base]

\* stryvo_proxy_service, stryvo_vhost_service or stryvo_file_server.
BuildService ==
    /\ stage = "build"
    /\ \E i \in DOMAIN conf.services :
          /\ Due(i)
          /\ IF Builds(conf.services[i])
             THEN /\ built' = [k \in DOMAIN built \cup {i} |->
                                 IF k = i THEN Service(conf.services[i]) ELSE built[k]]
                  /\ stage' = stage
             ELSE built' = built /\ stage' = "refused"
    /\ UNCHANGED <<doc, cli, disk, changes, conf, vetted>>

\* Mutant: validation ends before the services are built.
Bootstrap_Early ==
    /\ stage = "build"
    /\ AllBuilt \/ conf.validate
    /\ IF conf.validate
       THEN stage' = "tested" /\ vetted' = IF changes = 0 THEN "yes" ELSE "no"
       ELSE stage' = "running" /\ vetted' = vetted
    /\ UNCHANGED <<doc, cli, disk, changes, conf, built>>

\* bootstrap() of pingora exits when the server was started to validate only.
Bootstrap ==
    /\ stage = "build"
    /\ AllBuilt
    /\ IF conf.validate
       THEN stage' = "tested" /\ vetted' = IF changes = 0 THEN "yes" ELSE "no"
       ELSE stage' = "running" /\ vetted' = vetted
    /\ UNCHANGED <<doc, cli, disk, changes, conf, built>>

-----------------------------------------------------------------------------
(* Around the process.                                                     *)

\* The same command line again, without --validate-configs.
StartAgain ==
    /\ stage = "tested"
    /\ cli' = [cli EXCEPT !.validate = FALSE]
    /\ stage' = "load"
    /\ conf' = DefaultConf
    /\ built' = <<>>
    /\ UNCHANGED <<doc, disk, changes, vetted>>

ChangeDisk ==
    /\ stage \notin {"running", "refused"}
    /\ changes < MaxChanges
    /\ changes' = changes + 1
    /\ \E c \in CertFiles, state \in {"good", "bad", "missing"} :
          /\ disk[c] # state
          /\ disk' = [disk EXCEPT ![c] = state]
    /\ vetted' = "no"
    /\ UNCHANGED <<doc, cli, stage, conf, built>>

StartNext ==
    \/ Load \/ Layer \/ Validate \/ BuildService \/ Bootstrap
    \/ StartAgain \/ ChangeDisk

-----------------------------------------------------------------------------
(* Properties.                                                             *)

Written(k) == doc.services[k]

\* A running service speaks TLS on exactly the listeners for which the file
\* asks for it, by a certificate or by the ssl flag (which TOML has not),
\* whatever the kind of service: extract_listener and its YAML and TOML
\* counterparts, populate_listners and stryvo_vhost_service agree on what a
\* listener is.  A KDL listener whose name is no socket address is a Unix
\* socket, and plain, whatever else it is given.
TlsAsWritten ==
    stage = "running" =>
        \A k \in DOMAIN built : \A i \in DOMAIN Written(k).listeners :
            LET l == Written(k).listeners[i]
                asked == l.cert # "none" \/ (l.ssl /\ cli.formats # {"toml"})
            IN  (built[k].speaks[i] = "tls") <=> (l.tcp /\ asked)

\* A basic proxy that runs from a KDL file has all rules and connectors that the
\* file writes, the filters of all blocks that have a known name, and the
\* selection it names: what is not understood was refused.  Of YAML it does not
\* hold, which skips rules and replaces selections, nor of TOML, which ignores
\* rules, balancing and request filters.
NothingDropped ==
    stage = "running" /\ cli.formats = {"kdl"} =>
        \A k \in DOMAIN built :
            LET s == built[k]
                w == Written(k)
            IN  s.kind = "proxy" =>
                    /\ [i \in DOMAIN s.rules |-> s.rules[i].kind] =
                          [i \in DOMAIN w.rules |-> w.rules[i].kind]
                    /\ s.filters = [b \in DOMAIN w.filters \ {"other"} |-> w.filters[b]]
                    /\ s.backends = {w.connectors[i].addr : i \in DOMAIN w.connectors}
                    /\ \A i \in DOMAIN w.balances :
                          /\ w.balances[i].selection \in {s.options.selection, "absent"}
                          /\ w.balances[i].selection \in HashSelections =>
                                w.balances[i].key = s.options.selector

\* What --validate-configs accepted starts, unless a certificate file changed
\* in between.
ValidatedStarts == vetted = "yes" => stage # "refused"

\* Every VHost that runs routes every well-named domain of the file, and only
\* such, each with an upstream, and has loaded the certificate of the default
\* domain, which other domains fall back to: files that vanish or break between
\* validate() and the constructor are noticed by the constructor.
VHostReady ==
    stage = "running" =>
        \A k \in DOMAIN built : built[k].kind = "vhost" =>
            LET w == Written(k)
            IN  /\ built[k].routed = {d.name : d \in {e \in w.domains : ValidDomainName(e.name)}}
                /\ \A d \in w.domains : d.name \in built[k].routed => d.upstreams # {}
                /\ \A d \in w.default : d.cert \in built[k].fallback /\ d.upstreams # {}
=============================================================================
