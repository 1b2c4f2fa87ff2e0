---------------------------- MODULE ServerProofs ----------------------------
(***************************************************************************)
(* What Server promises, for every set of documents and command lines, any *)
(* number of services, certificate files and requests.  What was loaded is *)
(* carried through the stages of main(): see IInv.                         *)
(***************************************************************************)
EXTENDS Server, NumberSets, SequenceTheorems, TLAPS

-----------------------------------------------------------------------------
(* The inductive invariant.                                                *)

\* What the file makes of the configuration, and the command line of that.
FileBase == IF cli.formats = {} THEN DefaultConf ELSE FileConf(Format, doc)
Layered == ApplyCli(FileBase, cli)

\* The file and the command line get through Load and Layer.
Readable == cli.formats = {} \/ (cli.formats = {Format} /\ DocAccepted(Format, doc))
Accepted == Readable /\ CliAccepted(FileBase, cli)

\* And, with the certificate files as they are, to the end.
Passes ==
    /\ Accepted
    /\ ValidConf(Existing, Layered)
    /\ \A i \in DOMAIN Layered.services : Builds(Layered.services[i])

\* What the environment gives is what StartAssumption says.
Given ==
    /\ cli \in CliType
    /\ \A i \in DOMAIN doc.services : ServiceTyped(doc.services[i])

Types ==
    /\ disk \in [CertFiles -> {"good", "bad", "missing"}]
    /\ changes \in 0..MaxChanges /\ vetted \in {"yes", "no"}
    /\ stage \in {"load", "layer", "validate", "build", "tested", "running", "refused"}

Late == {"validate", "build", "tested", "running"}

\* The configuration at every stage.
Configured ==
    /\ stage = "layer" => Readable /\ conf = FileBase
    /\ stage \in Late \/ DOMAIN built # {} => Accepted /\ conf = Layered
    /\ stage \in {"load", "layer", "validate"} => DOMAIN built = {}
    /\ stage \in {"tested", "running"} => AllBuilt

\* A service is what its configuration says; only the certificates that its
\* domains got depend on when it was built.
BuiltFrom(b, s) ==
    /\ b.kind = s.kind /\ b.options = s.options /\ b.base = s.base
    /\ b.speaks = [i \in DOMAIN s.listeners |-> Speaks(s.listeners[i])]
    /\ b.backends = {s.upstreams[i].addr : i \in DOMAIN s.upstreams}
    /\ s.kind = "proxy" => b.filters = s.filters /\ b.rules = s.rules
    /\ s.kind # "proxy" => b.filters = <<>> /\ b.rules = <<>>
    /\ b.routed = {d.name : d \in s.domains}
    /\ s.kind = "vhost" =>
          /\ \A d \in s.domains \cup s.default : d.upstreams # {}
          /\ \A d \in s.default : d.cert \in b.fallback

BuiltAs ==
    \A k \in DOMAIN built :
        /\ k \in DOMAIN conf.services
        /\ BuiltFrom(built[k], conf.services[k])
        /\ built[k].kind = "vhost" => Unbuilt("proxy") = {}
        /\ built[k].kind = "files" => Unbuilt("proxy") \cup Unbuilt("vhost") = {}

\* As long as no certificate file has changed, what was valid and what could
\* be built still is and still can.
Unchanged ==
    changes = 0 =>
        /\ stage \in Late \ {"validate"} => ValidConf(Existing, conf)
        /\ \A k \in DOMAIN built : Builds(conf.services[k])

Vetted == vetted = "yes" => changes = 0 /\ Passes /\ stage # "refused"

StartInv == Given /\ Types /\ Configured /\ BuiltAs /\ Unchanged /\ Vetted

\* Only files are ever removed.
TreeInv ==
    /\ DOMAIN tree \subseteq DOMAIN Tree
    /\ \A p \in DOMAIN tree : tree[p] = Tree[p]
    /\ \A p \in DOMAIN Tree : Tree[p].type # "file" => p \in DOMAIN tree

\* What resolve_path found: below the base path, the path asked for if no link
\* leads there, and the only file that a plain request names.
Found(r, full) ==
    /\ IsPrefix(r.base.path, r.path)
    /\ Plain(Append(full, IndexFile)) => r.path \in Named(full)
    /\ Plain(full) =>
          \A p \in Named(full) \cap DOMAIN Tree : Tree[p].type = "file" => p = r.path

FileOk(r) ==
    /\ r.pc \in {"new", "read", "done"} /\ r.status \in {0, 200, 404, 502}
    /\ r.pc # "done" => r.status = 0
    /\ r.pc = "read" => Found(r, Full(r.base, r.uri))

Files == DOMAIN get = Gets /\ \A g \in Gets : FileOk(get[g])

Asked ==
    /\ req \in [Requests -> ReqType(DOMAIN doc.services)]
    /\ \A r \in Requests : req[r].pc # "new" => req[r].svc \in Serving("proxy")

\* A hashing balancer remembers every selection.
Remembered(p, key) == <<p.svc, key>> \in DOMAIN owner /\ owner[<<p.svc, key>>] = p.backend

Owned ==
    \A p \in picked :
        /\ p.svc \in Serving("proxy")
        /\ built[p.svc].options.selection \in HashSelections =>
              /\ built[p.svc].options.selector = "UriPath" => Remembered(p, p.path)
              /\ built[p.svc].options.selector = "null" => Remembered(p, <<>>)

IInv == StartInv /\ TreeInv /\ Files /\ FilesAsAsked /\ Asked /\ Owned

-----------------------------------------------------------------------------
(* The operators of ConfigLoad and ServerStart.                            *)

\* Service, but for the certificates.
LEMMA ServiceFields ==
    ASSUME NEW s
    PROVE  /\ Service(s).kind = s.kind /\ Service(s).options = s.options
           /\ Service(s).base = s.base
           /\ Service(s).speaks = [i \in DOMAIN s.listeners |-> Speaks(s.listeners[i])]
           /\ Service(s).backends = {s.upstreams[i].addr : i \in DOMAIN s.upstreams}
           /\ s.kind = "proxy" => Service(s).filters = s.filters /\ Service(s).rules = s.rules
           /\ s.kind # "proxy" => Service(s).filters = <<>> /\ Service(s).rules = <<>>
           /\ Service(s).routed = {d.name : d \in s.domains}
           /\ Service(s).fallback = {d.cert : d \in {e \in s.default : Loads(e.cert)}}
  BY DEF Service

\* A file's services are those that it writes, each at its place.
LEMMA FileConfFields ==
    ASSUME NEW fmt, NEW d, NEW c, c = FileConf(fmt, d)
    PROVE  /\ c.threads = d.threads
           /\ DOMAIN c.services = DOMAIN d.services
           /\ \A i \in DOMAIN d.services :
                 c.services[i] = ServiceConf(fmt, d.threads, d.services[i])
<1>1. CASE fmt = "toml"
  BY <1>1 DEF FileConf, ApplyToml
<1>2. CASE fmt # "toml"
  BY <1>2 DEF FileConf
<1>3. QED
  BY <1>1, <1>2

\* The command line leaves the services alone.
LEMMA ApplyCliFields ==
    ASSUME NEW c, NEW l
    PROVE  /\ ApplyCli(c, l).services = c.services
           /\ ApplyCli(c, l).validate = (c.validate \/ l.validate)
           /\ ApplyCli(c, l).daemonize = (c.daemonize \/ l.daemonize)
           /\ ApplyCli(c, l).upgrade = (c.upgrade \/ l.upgrade)
  BY DEF ApplyCli

\* A start without a file has no services.
LEMMA NoServices == DOMAIN DefaultConf.services = {}
  BY DEF DefaultConf

\* Every service is of a kind that main() builds.
LEMMA KindsKnown ==
    ASSUME NEW fmt, NEW s, s.kind \in Kinds
    PROVE  KindOf(fmt, s) \in Kinds
  BY DEF KindOf, KdlKind, Kinds

\* Every service that is configured is one of the file's, which its format accepts.
LEMMA LayeredServices ==
    ASSUME Given, Readable
    PROVE  \A i \in DOMAIN Layered.services :
              /\ i \in DOMAIN doc.services
              /\ cli.formats = {Format}
              /\ Layered.services[i] = ServiceConf(Format, doc.threads, doc.services[i])
              /\ ServiceAccepted(Format, doc.services[i])
              /\ Layered.services[i].kind = KindOf(Format, doc.services[i])
              /\ Layered.services[i].kind \in Kinds
<1>1. Layered.services = FileBase.services
  BY ApplyCliFields DEF Layered
<1>2. CASE cli.formats = {}
  BY <1>1, <1>2, NoServices DEF FileBase
<1>3. CASE cli.formats # {}
  <2>1. FileBase = FileConf(Format, doc) /\ cli.formats = {Format} /\ DocAccepted(Format, doc)
    BY <1>3 DEF FileBase, Readable
  <2> SUFFICES ASSUME NEW i \in DOMAIN FileConf(Format, doc).services
               PROVE  /\ i \in DOMAIN doc.services
                      /\ FileConf(Format, doc).services[i] = ServiceConf(Format, doc.threads, doc.services[i])
                      /\ ServiceAccepted(Format, doc.services[i])
                      /\ FileConf(Format, doc).services[i].kind = KindOf(Format, doc.services[i])
                      /\ FileConf(Format, doc).services[i].kind \in Kinds
    BY <1>1, <2>1
  <2>2. /\ i \in DOMAIN doc.services
        /\ FileConf(Format, doc).services[i] = ServiceConf(Format, doc.threads, doc.services[i])
    BY FileConfFields
  <2>3. ServiceAccepted(Format, doc.services[i])
    BY <2>1, <2>2 DEF DocAccepted
  <2>4. doc.services[i].kind \in Kinds
    BY <2>2 DEF Given, ServiceTyped
  <2>5. FileConf(Format, doc).services[i].kind = KindOf(Format, doc.services[i])
    BY <2>2 DEF ServiceConf
  <2>6. QED
    BY <2>2, <2>3, <2>4, <2>5, KindsKnown
<1>4. QED
  BY <1>2, <1>3

-----------------------------------------------------------------------------
(* main() and its surroundings keep StartInv.                              *)

\* A process that has not begun.
LEMMA StartInitInv ==
    ASSUME StartInit
    PROVE  StartInv
<1>1. PICK s \in Starts : doc = s.doc /\ cli = s.cli
  BY DEF StartInit
<1>2. Given
  BY <1>1, StartAssumption DEF Given
<1>3. Types
  BY StartAssumption DEF StartInit, Types
<1>4. DOMAIN built = {} /\ stage = "load" /\ vetted = "no"
  BY DEF StartInit
<1>5. Configured /\ BuiltAs /\ Unchanged /\ Vetted
  BY <1>4 DEF Configured, BuiltAs, Unchanged, Vetted, Late
<1>6. QED
  BY <1>2, <1>3, <1>5 DEF StartInv

\* What the file and the command line say stays as long as they do.
LEMMA SameInput ==
    ASSUME doc' = doc, cli' = cli
    PROVE  /\ FileBase' = FileBase /\ Layered' = Layered /\ Readable' = Readable
           /\ Accepted' = Accepted
           /\ Given => Given'
  BY DEF FileBase, Layered, Readable, Accepted, Given, Format

\* What can be built stays as long as the certificate files do.
LEMMA SameDisk ==
    ASSUME disk' = disk
    PROVE  /\ Existing' = Existing
           /\ \A s : Builds(s)' = Builds(s)
           /\ \A s : Service(s)' = Service(s)
  BY DEF Existing, Builds, ListenerBuilds, VHostBuilds, Loads, Service

\* render_config reads the file.
LEMMA LoadKeeps ==
    ASSUME StartInv, Load
    PROVE  StartInv'
<1>1. /\ stage = "load" /\ DOMAIN built = {} /\ DOMAIN built' = {}
      /\ doc' = doc /\ cli' = cli /\ disk' = disk /\ changes' = changes /\ vetted' = vetted
  BY DEF StartInv, Configured, Load
<1>2. Given' /\ FileBase' = FileBase /\ Readable' = Readable /\ Accepted' = Accepted
      /\ Layered' = Layered
  BY <1>1, SameInput DEF StartInv
<1>3. \/ stage' = "layer" /\ conf' = FileBase /\ Readable
      \/ stage' = "refused" /\ ~Readable
  BY DEF Load, Readable, FileBase
<1>4. Types'
  BY <1>1, <1>3 DEF Types, StartInv
<1>5. Configured' /\ BuiltAs' /\ Unchanged'
  BY <1>1, <1>2, <1>3 DEF Configured, BuiltAs, Unchanged, Late
<1>6. Passes' = Passes
  BY <1>1, <1>2, SameDisk DEF Passes
<1>7. Vetted'
  BY <1>1, <1>2, <1>3, <1>6 DEF Vetted, StartInv, Passes, Accepted
<1>8. QED
  BY <1>2, <1>4, <1>5, <1>7 DEF StartInv

\* apply_cli.
LEMMA LayerKeeps ==
    ASSUME StartInv, Layer
    PROVE  StartInv'
<1>1. /\ stage = "layer" /\ DOMAIN built = {} /\ DOMAIN built' = {} /\ Readable /\ conf = FileBase
      /\ doc' = doc /\ cli' = cli /\ disk' = disk /\ changes' = changes /\ vetted' = vetted
  BY DEF StartInv, Configured, Layer
<1>2. Given' /\ FileBase' = FileBase /\ Readable' = Readable /\ Accepted' = Accepted
      /\ Layered' = Layered
  BY <1>1, SameInput DEF StartInv
<1>3. \/ stage' = "validate" /\ conf' = Layered /\ Accepted
      \/ stage' = "refused" /\ ~Accepted
  BY <1>1 DEF Layer, Layered, Accepted
<1>4. Types'
  BY <1>1, <1>3 DEF Types, StartInv
<1>5. Configured' /\ BuiltAs' /\ Unchanged'
  BY <1>1, <1>2, <1>3 DEF Configured, BuiltAs, Unchanged, Late
<1>6. Passes' = Passes
  BY <1>1, <1>2, SameDisk DEF Passes
<1>7. Vetted'
  BY <1>1, <1>2, <1>3, <1>6 DEF Vetted, StartInv, Passes
<1>8. QED
  BY <1>2, <1>4, <1>5, <1>7 DEF StartInv

\* Config::validate.
LEMMA ValidateKeeps ==
    ASSUME StartInv, Validate
    PROVE  StartInv'
<1>1. /\ stage = "validate" /\ DOMAIN built = {} /\ DOMAIN built' = {} /\ Accepted
      /\ conf = Layered /\ conf' = conf
      /\ doc' = doc /\ cli' = cli /\ disk' = disk /\ changes' = changes /\ vetted' = vetted
  BY DEF StartInv, Configured, Validate, Late
<1>2. Given' /\ FileBase' = FileBase /\ Readable' = Readable /\ Accepted' = Accepted
      /\ Layered' = Layered /\ Existing' = Existing
  BY <1>1, SameInput, SameDisk DEF StartInv
<1>3. \/ stage' = "build" /\ ValidConf(Existing, conf)
      \/ stage' = "refused" /\ ~ValidConf(Existing, conf)
  BY <1>1 DEF Validate
<1>4. Types'
  BY <1>1, <1>3 DEF Types, StartInv
<1>5. Configured' /\ BuiltAs' /\ Unchanged'
  BY <1>1, <1>2, <1>3 DEF Configured, BuiltAs, Unchanged, Late
<1>6. Passes' = Passes
  BY <1>1, <1>2, SameDisk DEF Passes
<1>7. Vetted'
  BY <1>1, <1>2, <1>3, <1>6 DEF Vetted, StartInv, Passes
<1>8. QED
  BY <1>2, <1>4, <1>5, <1>7 DEF StartInv

\* Building a service makes it what its configuration says.
LEMMA BuildsGivesFrom ==
    ASSUME NEW s, Builds(s)
    PROVE  BuiltFrom(Service(s), s)
<1>1. ASSUME s.kind = "vhost"
      PROVE  /\ \A d \in s.domains \cup s.default : d.upstreams # {}
             /\ \A d \in s.default : d.cert \in Service(s).fallback
  <2>1. ValidVHost(Existing, s) /\ \A d \in s.default : Loads(d.cert)
    BY <1>1 DEF Builds, VHostBuilds
  <2>2. \A d \in s.domains \cup s.default : d.upstreams # {}
    BY <2>1 DEF ValidVHost, ValidDomain
  <2>3. \A d \in s.default : d.cert \in Service(s).fallback
    BY <2>1, ServiceFields
  <2>4. QED
    BY <2>2, <2>3
<1>2. QED
  BY <1>1, ServiceFields DEF BuiltFrom

\* One constructor: its service is added, or the process ends.
LEMMA BuildKeeps ==
    ASSUME StartInv, BuildService
    PROVE  StartInv'
<1>1. /\ stage = "build" /\ Accepted /\ conf = Layered /\ conf' = conf
      /\ doc' = doc /\ cli' = cli /\ disk' = disk /\ changes' = changes /\ vetted' = vetted
  BY DEF StartInv, Configured, BuildService, Late
<1>2. Given' /\ FileBase' = FileBase /\ Readable' = Readable /\ Accepted' = Accepted
      /\ Layered' = Layered /\ Existing' = Existing
  BY <1>1, SameInput, SameDisk DEF StartInv
<1>3. PICK i \in DOMAIN conf.services :
         /\ Due(i)
         /\ \/ /\ Builds(conf.services[i])
               /\ built' = [k \in DOMAIN built \cup {i} |->
                              IF k = i THEN Service(conf.services[i]) ELSE built[k]]
               /\ stage' = stage
            \/ ~Builds(conf.services[i]) /\ built' = built /\ stage' = "refused"
  BY DEF BuildService
<1>4. Types'
  BY <1>1, <1>3 DEF Types, StartInv
<1>5. Configured'
  BY <1>1, <1>2, <1>3 DEF Configured, Late
<1>6. Unchanged'
  <2>1. ASSUME changes' = 0
        PROVE  \A k \in DOMAIN built' : Builds(conf.services[k])
    BY <1>1, <1>3, <2>1 DEF StartInv, Unchanged
  <2>2. QED
    BY <1>1, <1>2, <1>3, <2>1, SameDisk DEF StartInv, Unchanged, Late
<1>7. BuiltAs'
  <2>1. DOMAIN built \subseteq DOMAIN built'
    BY <1>3
  <2>2. \A kind : Unbuilt(kind)' \subseteq Unbuilt(kind)
    BY <1>1, <2>1 DEF Unbuilt
  <2>3. SUFFICES ASSUME NEW k \in DOMAIN built'
                 PROVE  /\ k \in DOMAIN conf.services
                        /\ BuiltFrom(built'[k], conf.services[k])
                        /\ built'[k].kind = "vhost" => Unbuilt("proxy")' = {}
                        /\ built'[k].kind = "files" => Unbuilt("proxy")' \cup Unbuilt("vhost")' = {}
    BY <1>1 DEF BuiltAs
  <2>4. CASE k \in DOMAIN built
    <3>1. built'[k] = built[k]
      BY <1>3, <2>4 DEF Due, Unbuilt
    <3>2. /\ k \in DOMAIN conf.services
          /\ BuiltFrom(built[k], conf.services[k])
          /\ built[k].kind = "vhost" => Unbuilt("proxy") = {}
          /\ built[k].kind = "files" => Unbuilt("proxy") \cup Unbuilt("vhost") = {}
      BY <2>4 DEF StartInv, BuiltAs
    <3>3. QED
      BY <2>2, <3>1, <3>2
  <2>5. CASE k \notin DOMAIN built
    <3>1. k = i /\ built'[k] = Service(conf.services[k]) /\ Builds(conf.services[k])
      BY <1>3, <2>5
    <3>2. BuiltFrom(built'[k], conf.services[k])
      BY <3>1, BuildsGivesFrom
    <3>3. built'[k].kind = conf.services[k].kind
      BY <3>2 DEF BuiltFrom
    <3>4. PICK kd \in Kinds :
             /\ k \in Unbuilt(kd)
             /\ kd # "proxy" => Unbuilt("proxy") = {}
             /\ kd = "files" => Unbuilt("vhost") = {}
      BY <1>3, <3>1 DEF Due
    <3>5. kd = conf.services[k].kind
      <4>1. k \in Unbuilt(kd)
        BY <3>4
      <4>2. QED
        BY <4>1 DEF Unbuilt
    <3>6. k \in DOMAIN conf.services
      BY <3>1
    <3>7. built'[k].kind = "vhost" => Unbuilt("proxy")' = {}
      BY <2>2, <3>3, <3>4, <3>5
    <3>8. built'[k].kind = "files" => Unbuilt("proxy")' \cup Unbuilt("vhost")' = {}
      BY <2>2, <3>3, <3>4, <3>5
    <3>9. QED
      BY <3>2, <3>6, <3>7, <3>8
  <2>6. QED
    BY <2>4, <2>5
<1>8. Passes' = Passes
  BY <1>1, <1>2, SameDisk DEF Passes
<1>9. Vetted'
  BY <1>1, <1>2, <1>3, <1>8 DEF Vetted, StartInv, Passes
<1>10. QED
  BY <1>2, <1>4, <1>5, <1>6, <1>7, <1>9 DEF StartInv

\* bootstrap(): all is built, so with the files unchanged all passes.
LEMMA BootstrapKeeps ==
    ASSUME StartInv, Bootstrap
    PROVE  StartInv'
<1>1. /\ stage = "build" /\ Accepted /\ conf = Layered /\ conf' = conf /\ built' = built
      /\ doc' = doc /\ cli' = cli /\ disk' = disk /\ changes' = changes /\ AllBuilt
      /\ stage' \in {"tested", "running"}
  BY DEF StartInv, Configured, Bootstrap, Late
<1>2. Given' /\ FileBase' = FileBase /\ Readable' = Readable /\ Accepted' = Accepted
      /\ Layered' = Layered /\ Existing' = Existing
  BY <1>1, SameInput, SameDisk DEF StartInv
<1>3. vetted' = vetted \/ (vetted' = "yes" /\ changes = 0) \/ vetted' = "no"
  BY DEF Bootstrap
<1>4. Types'
  BY <1>1, <1>3 DEF Types, StartInv
<1>5. Configured'
  BY <1>1, <1>2 DEF Configured, Late, AllBuilt
<1>6. BuiltAs'
  BY <1>1 DEF BuiltAs, Unbuilt, StartInv
<1>7. Unchanged'
  BY <1>1, <1>2, SameDisk DEF Unchanged, StartInv, Late
<1>8. Passes' = Passes
  BY <1>1, <1>2, SameDisk DEF Passes
<1>9. ASSUME changes = 0 PROVE Passes
  <2>1. ValidConf(Existing, Layered)
    BY <1>1, <1>9 DEF StartInv, Unchanged, Late
  <2>2. \A i \in DOMAIN Layered.services : Builds(Layered.services[i])
    BY <1>1, <1>9 DEF StartInv, Unchanged, AllBuilt
  <2>3. QED
    BY <1>1, <2>1, <2>2 DEF Passes
<1>10. Vetted'
  BY <1>1, <1>3, <1>8, <1>9 DEF StartInv, Vetted
<1>11. QED
  BY <1>2, <1>4, <1>5, <1>6, <1>7, <1>10 DEF StartInv

\* The second start differs in the flag alone, which decides nothing before
\* bootstrap().
LEMMA StartAgainKeeps ==
    ASSUME StartInv, StartAgain
    PROVE  StartInv'
<1>1. /\ stage = "tested" /\ stage' = "load" /\ DOMAIN built' = {} /\ disk' = disk
      /\ doc' = doc /\ changes' = changes /\ vetted' = vetted
      /\ cli' = [cli EXCEPT !.validate = FALSE]
  BY DEF StartAgain
<1>2. /\ cli' \in CliType /\ cli'.formats = cli.formats /\ cli'.threads = cli.threads
      /\ cli'.daemonize = cli.daemonize /\ cli'.upgrade = cli.upgrade
      /\ cli'.pid = cli.pid /\ cli'.socket = cli.socket
  BY <1>1 DEF StartInv, Given, CliType
<1>3. Given'
  BY <1>1, <1>2 DEF StartInv, Given
<1>4. FileBase' = FileBase /\ Readable' = Readable
  BY <1>1, <1>2 DEF FileBase, Readable, Format
<1>5. Accepted' = Accepted
  BY <1>2, <1>4 DEF Accepted, CliAccepted
<1>6. Types'
  BY <1>1 DEF Types, StartInv
<1>7. Configured' /\ BuiltAs' /\ Unchanged'
  BY <1>1 DEF Configured, BuiltAs, Unchanged, Late
<1>8. /\ Layered'.services = Layered.services /\ Layered'.daemonize = Layered.daemonize
      /\ Layered'.upgrade = Layered.upgrade /\ Layered'.pid = Layered.pid
      /\ Layered'.socket = Layered.socket
  BY <1>2, <1>4 DEF Layered, ApplyCli
<1>9. Existing' = Existing
  BY <1>1, SameDisk
<1>10. ValidConf(Existing, Layered) => ValidConf(Existing, Layered)'
  BY <1>8, <1>9 DEF ValidConf
<1>11. Passes => Passes'
  BY <1>1, <1>5, <1>8, <1>10, SameDisk DEF Passes
<1>12. Vetted'
  BY <1>1, <1>11 DEF Vetted, StartInv
<1>13. QED
  BY <1>3, <1>6, <1>7, <1>12 DEF StartInv

\* A certificate file changes: nothing is promised about starting any more.
LEMMA ChangeDiskKeeps ==
    ASSUME StartInv, ChangeDisk
    PROVE  StartInv'
<1>1. /\ conf' = conf /\ built' = built /\ stage' = stage /\ doc' = doc /\ cli' = cli
      /\ changes' = changes + 1 /\ changes < MaxChanges /\ vetted' = "no"
  BY DEF ChangeDisk
<1>2. Given' /\ FileBase' = FileBase /\ Readable' = Readable /\ Accepted' = Accepted
      /\ Layered' = Layered
  BY <1>1, SameInput DEF StartInv
<1>3. disk' \in [CertFiles -> {"good", "bad", "missing"}]
  BY DEF StartInv, Types, ChangeDisk
<1>4. changes' \in 0..MaxChanges /\ changes' # 0
  BY <1>1, StartAssumption DEF StartInv, Types
<1>5. Types'
  BY <1>1, <1>3, <1>4 DEF Types, StartInv
<1>6. Configured' /\ BuiltAs' /\ Unchanged' /\ Vetted'
  BY <1>1, <1>2, <1>4 DEF Configured, BuiltAs, Unchanged, Vetted, Unbuilt, AllBuilt, StartInv, Late
<1>7. QED
  BY <1>2, <1>5, <1>6 DEF StartInv

\* Every step of main() and around it.
LEMMA StartInvStep ==
    ASSUME StartInv, StartNext
    PROVE  StartInv'
  BY LoadKeeps, LayerKeeps, ValidateKeeps, BuildKeeps, BootstrapKeeps, StartAgainKeeps,
     ChangeDiskKeeps DEF StartNext

\* The steps of requests leave it alone.
LEMMA StartInvSame ==
    ASSUME StartInv, UNCHANGED startVars
    PROVE  StartInv'
<1>1. /\ conf' = conf /\ built' = built /\ stage' = stage /\ doc' = doc /\ cli' = cli
      /\ changes' = changes /\ vetted' = vetted /\ disk' = disk
  BY DEF startVars
<1>2. Given' /\ FileBase' = FileBase /\ Readable' = Readable /\ Accepted' = Accepted
      /\ Layered' = Layered /\ Existing' = Existing /\ \A s : Builds(s)' = Builds(s)
  BY <1>1, SameInput, SameDisk DEF StartInv
<1>3. Types' /\ Configured' /\ BuiltAs' /\ Unchanged'
  BY <1>1, <1>2 DEF Types, Configured, BuiltAs, Unchanged, Unbuilt, AllBuilt, StartInv, Late
<1>4. Vetted'
  BY <1>1, <1>2 DEF Vetted, Passes, StartInv
<1>5. QED
  BY <1>2, <1>3, <1>4 DEF StartInv

-----------------------------------------------------------------------------
(* Requests of basic proxies.                                              *)

\* A process that runs is not started, and does not read its files again.
LEMMA NotRunning ==
    ASSUME StartNext
    PROVE  stage # "running" /\ doc' = doc
  BY DEF StartNext, Load, Layer, Validate, BuildService, Bootstrap, StartAgain, ChangeDisk

\* Nobody asks before the server runs.
LEMMA AskedStart ==
    ASSUME Asked, Owned, StartNext, UNCHANGED selectVars
    PROVE  Asked' /\ Owned'
<1>1. stage # "running" /\ doc' = doc /\ req' = req /\ picked' = picked
  BY NotRunning DEF selectVars
<1>2. picked = {} /\ \A r \in Requests : req[r].pc = "new"
  BY <1>1 DEF Asked, Owned, Serving
<1>3. QED
  BY <1>1, <1>2 DEF Asked, Owned

\* The steps of others change no request.
LEMMA AskedSame ==
    ASSUME Asked, Owned, UNCHANGED startVars, UNCHANGED selectVars
    PROVE  Asked' /\ Owned'
<1>1. /\ stage' = stage /\ doc' = doc /\ built' = built
      /\ req' = req /\ picked' = picked /\ owner' = owner
  BY DEF selectVars, startVars
<1>2. QED
  BY <1>1 DEF Asked, Owned, Serving, Remembered

\* request_filter.
LEMMA RequestFilterKeeps ==
    ASSUME StartInv, Asked, Owned, UNCHANGED startVars,
           NEW r \in Requests, NEW k \in Serving("proxy"), NEW path \in Paths, NEW addr \in Addrs,
           RequestFilter(r, k, path, addr)
    PROVE  Asked' /\ Owned'
<1>1. stage' = stage /\ doc' = doc /\ built' = built /\ picked' = picked /\ owner' = owner
  BY DEF RequestFilter, startVars
<1>2. k \in DOMAIN doc.services
  <2>1. k \in DOMAIN built
    BY DEF Serving
  <2>2. k \in DOMAIN Layered.services /\ Readable
    BY <2>1 DEF StartInv, Configured, BuiltAs, Accepted
  <2>3. QED
    BY <2>2, LayeredServices DEF StartInv
<1>3. PICK nanos \in Nanos :
         req' = [req EXCEPT ![r] = [pc |-> "peer", svc |-> k, path |-> <<path>>,
                                    addr |-> <<addr>>, buf |-> <<nanos>>,
                                    tries |-> req[r].tries]]
  BY DEF RequestFilter
<1>4. [pc |-> "peer", svc |-> k, path |-> <<path>>, addr |-> <<addr>>, buf |-> <<nanos>>,
       tries |-> req[r].tries] \in ReqType(DOMAIN doc.services)
  BY <1>2 DEF Asked, ReqType
<1>5. req' \in [Requests -> ReqType(DOMAIN doc.services)]
  BY <1>3, <1>4 DEF Asked
<1>6. \A q \in Requests : req'[q].pc # "new" => req'[q].svc \in Serving("proxy")
  BY <1>3 DEF Asked
<1>7. Serving("proxy")' = Serving("proxy")
  BY <1>1 DEF Serving
<1>8. QED
  BY <1>1, <1>5, <1>6, <1>7 DEF Asked, Owned, Remembered

\* upstream_peer: a key that was seen keeps its backend, another one is
\* remembered.
LEMMA UpstreamPeerKeeps ==
    ASSUME StartInv, Asked, Owned, UNCHANGED startVars,
           NEW r \in Requests, NEW k \in Serving("proxy"), req[r].svc = k,
           UpstreamPeer(r, built[k].options, built[k].backends)
    PROVE  Asked' /\ Owned'
<1>1. stage' = stage /\ doc' = doc /\ built' = built /\ Serving("proxy")' = Serving("proxy")
  BY DEF Serving, startVars
<1>2. req' = [req EXCEPT ![r] = [pc |-> "sent", svc |-> req[r].svc, path |-> req[r].path,
                                 addr |-> req[r].addr, buf |-> <<>>, tries |-> req[r].tries + 1]]
  BY DEF UpstreamPeer
<1>3. [pc |-> "sent", svc |-> req[r].svc, path |-> req[r].path, addr |-> req[r].addr,
       buf |-> <<>>, tries |-> req[r].tries + 1] \in ReqType(DOMAIN doc.services)
  BY DEF Asked, ReqType
<1>4. req' \in [Requests -> ReqType(DOMAIN doc.services)]
  BY <1>2, <1>3 DEF Asked
<1>5. \A q \in Requests : req'[q].pc # "new" => req'[q].svc \in Serving("proxy")
  BY <1>2 DEF Asked
<1>6. Asked'
  BY <1>1, <1>4, <1>5 DEF Asked
<1>7. PICK key : key = <<req[r].svc, Key(built[k].options.selector, req[r])>>
  OBVIOUS
<1>8. PICK b \in built[k].backends :
         /\ built[k].options.selection \in HashSelections =>
               /\ key \in DOMAIN owner => b = owner[key]
               /\ owner' = [q \in DOMAIN owner \cup {key} |-> IF q = key THEN b ELSE owner[q]]
         /\ built[k].options.selection \notin HashSelections => owner' = owner
         /\ picked' = picked \cup {[svc |-> req[r].svc, path |-> req[r].path,
                                    addr |-> req[r].addr, backend |-> b]}
  BY <1>7 DEF UpstreamPeer, HashSelections
<1>9. ASSUME NEW x, x \in DOMAIN owner
      PROVE  x \in DOMAIN owner' /\ owner'[x] = owner[x]
  BY <1>8, <1>9
<1>10. ASSUME NEW p \in picked'
       PROVE  /\ p.svc \in Serving("proxy")
              /\ built[p.svc].options.selection \in HashSelections =>
                    /\ built[p.svc].options.selector = "UriPath" => Remembered(p, p.path)'
                    /\ built[p.svc].options.selector = "null" => Remembered(p, <<>>)'
  <2>1. CASE p \in picked
    BY <1>9, <2>1 DEF Owned, Remembered
  <2>2. CASE p \notin picked
    <3>1. p.svc = k /\ p.path = req[r].path /\ p.backend = b
      BY <1>8, <2>2
    <3>2. ASSUME built[k].options.selection \in HashSelections
          PROVE  key \in DOMAIN owner' /\ owner'[key] = b
      BY <1>8, <3>2
    <3>3. built[k].options.selector = "UriPath" => key = <<p.svc, p.path>>
      BY <1>7, <3>1 DEF Key
    <3>4. built[k].options.selector = "null" => key = <<p.svc, <<>>>>
      BY <1>7, <3>1 DEF Key
    <3>5. QED
      BY <3>1, <3>2, <3>3, <3>4 DEF Remembered
  <2>3. QED
    BY <2>1, <2>2
<1>11. QED
  BY <1>1, <1>6, <1>10 DEF Owned

\* A request that fails, or asks again.
LEMMA PcKeeps ==
    ASSUME StartInv, Asked, Owned, UNCHANGED startVars, UNCHANGED <<owner, picked>>,
           NEW r \in Requests, req[r].pc # "new",
           NEW pc \in {"peer", "failed"}, req' = [req EXCEPT ![r].pc = pc]
    PROVE  Asked' /\ Owned'
<1>1. /\ stage' = stage /\ doc' = doc /\ built' = built /\ picked' = picked /\ owner' = owner
      /\ Serving("proxy")' = Serving("proxy")
  BY DEF Serving, startVars
<1>2. req' \in [Requests -> ReqType(DOMAIN doc.services)]
  BY DEF Asked, ReqType
<1>3. \A q \in Requests : req'[q].svc = req[q].svc /\ (q # r => req'[q].pc = req[q].pc)
  BY DEF Asked, ReqType
<1>4. \A q \in Requests : req'[q].pc # "new" => req'[q].svc \in Serving("proxy")
  BY <1>3 DEF Asked
<1>5. QED
  BY <1>1, <1>2, <1>4 DEF Asked, Owned, Remembered

\* All steps of basic proxies.
LEMMA ProxyKeeps ==
    ASSUME StartInv, Asked, Owned, ProxyStep
    PROVE  Asked' /\ Owned'
<1>1. UNCHANGED startVars
  BY DEF ProxyStep
<1>2. PICK r \in Requests :
         \/ \E k \in Serving("proxy"), path \in Paths, addr \in Addrs :
               RequestFilter(r, k, path, addr)
         \/ \E k \in Serving("proxy") :
               /\ req[r].svc = k
               /\ \/ UpstreamPeer(r, built[k].options, built[k].backends)
                  \/ NoBackend(r, built[k].backends)
         \/ PeerAgain(r)
  BY DEF ProxyStep
<1>3. ASSUME NEW k \in Serving("proxy"), NoBackend(r, built[k].backends)
      PROVE  Asked' /\ Owned'
  BY <1>1, <1>3, PcKeeps DEF NoBackend
<1>4. ASSUME PeerAgain(r)
      PROVE  Asked' /\ Owned'
  BY <1>1, <1>4, PcKeeps DEF PeerAgain
<1>5. QED
  BY <1>1, <1>2, <1>3, <1>4, RequestFilterKeeps, UpstreamPeerKeeps

-----------------------------------------------------------------------------
(* What the invariant says of a server that runs.                          *)

\* A service that runs, what it was built from and what the file writes of it.
LEMMA RunsFromFile ==
    ASSUME StartInv, NEW k \in DOMAIN built
    PROVE  /\ k \in DOMAIN doc.services
           /\ cli.formats = {Format}
           /\ conf.services[k] = ServiceConf(Format, doc.threads, doc.services[k])
           /\ ServiceAccepted(Format, doc.services[k])
           /\ ServiceTyped(doc.services[k])
           /\ BuiltFrom(built[k], conf.services[k])
           /\ conf.services[k].kind = KindOf(Format, doc.services[k])
           /\ built[k].kind \in Kinds
<1>1. Given /\ Accepted /\ conf = Layered /\ k \in DOMAIN conf.services
      /\ BuiltFrom(built[k], conf.services[k])
  BY DEF StartInv, Configured, BuiltAs
<1>2. /\ k \in DOMAIN doc.services
      /\ cli.formats = {Format}
      /\ conf.services[k] = ServiceConf(Format, doc.threads, doc.services[k])
      /\ ServiceAccepted(Format, doc.services[k])
      /\ conf.services[k].kind = KindOf(Format, doc.services[k])
      /\ conf.services[k].kind \in Kinds
  BY <1>1, LayeredServices DEF Accepted
<1>3. ServiceTyped(doc.services[k])
  BY <1>1, <1>2 DEF Given
<1>4. QED
  BY <1>1, <1>2, <1>3 DEF BuiltFrom

\* Listeners, from the file to the service.
LEMMA InvTls ==
    ASSUME StartInv
    PROVE  TlsAsWritten
<1>1. SUFFICES ASSUME NEW k \in DOMAIN built, NEW i \in DOMAIN doc.services[k].listeners,
                      NEW l, l = doc.services[k].listeners[i]
               PROVE  (built[k].speaks[i] = "tls") <=>
                         (l.tcp /\ (l.cert # "none" \/ (l.ssl /\ cli.formats # {"toml"})))
  BY DEF TlsAsWritten, Written
<1>2. l \in ListenerType
  BY <1>1, RunsFromFile DEF ServiceTyped
<1>3. /\ conf.services[k] = ServiceConf(Format, doc.threads, doc.services[k])
      /\ BuiltFrom(built[k], conf.services[k]) /\ cli.formats = {Format}
  BY RunsFromFile
<1>a. cli.formats # {"toml"} <=> Format # "toml"
  BY <1>3
<1>4. /\ i \in DOMAIN conf.services[k].listeners
      /\ conf.services[k].listeners[i] = Listener(Format, l)
  BY <1>1, <1>3 DEF ServiceConf
<1>5. built[k].speaks[i] = Speaks(Listener(Format, l))
  BY <1>3, <1>4 DEF BuiltFrom
<1>6. QED
  BY <1>2, <1>5, <1>a DEF Speaks, Listener, ListenerType

\* The selection of an accepted KDL service is the one it names.
LEMMA BalanceNamed ==
    ASSUME NEW bs, NEW i \in DOMAIN bs, NEW S, bs \in Seq(S), BalancesAccepted("kdl", bs)
    PROVE  /\ bs[i].selection \in {Balance(bs).selection, "absent"}
           /\ bs[i].selection \in HashSelections => bs[i].key = Balance(bs).selector
<1>1. i = 1 /\ bs # <<>>
  BY DEF BalancesAccepted
<1>2. Balance(bs) = UpstreamOptions(bs[i]) /\ BalanceAccepted("kdl", bs[i])
  BY <1>1 DEF Balance, BalancesAccepted
<1>3. QED
  BY <1>2 DEF UpstreamOptions, BalanceAccepted, Selections, HashSelections, SelectionKeys

\* Rules, filters, connectors and balancing, from a KDL file to the service.
LEMMA InvNothingDropped ==
    ASSUME StartInv
    PROVE  NothingDropped
<1>1. SUFFICES ASSUME cli.formats = {"kdl"}, NEW k \in DOMAIN built, built[k].kind = "proxy"
               PROVE  LET s == built[k]
                          w == doc.services[k]
                      IN  /\ [i \in DOMAIN s.rules |-> s.rules[i].kind] =
                                [i \in DOMAIN w.rules |-> w.rules[i].kind]
                          /\ s.filters = [b \in DOMAIN w.filters \ {"other"} |-> w.filters[b]]
                          /\ s.backends = {w.connectors[i].addr : i \in DOMAIN w.connectors}
                          /\ \A i \in DOMAIN w.balances :
                                /\ w.balances[i].selection \in {s.options.selection, "absent"}
                                /\ w.balances[i].selection \in HashSelections =>
                                      w.balances[i].key = s.options.selector
  BY Zenon DEF NothingDropped, Written
<1>2. PICK c, s, w : c = conf.services[k] /\ s = built[k] /\ w = doc.services[k]
  OBVIOUS
<1>3. /\ c = ServiceConf(Format, doc.threads, w) /\ ServiceAccepted(Format, w) /\ ServiceTyped(w)
      /\ cli.formats = {Format} /\ c.kind = KindOf(Format, w) /\ c.kind = "proxy"
      /\ s.filters = c.filters /\ s.rules = c.rules /\ s.options = c.options
      /\ s.backends = {c.upstreams[i].addr : i \in DOMAIN c.upstreams}
  <2>1. /\ c = ServiceConf(Format, doc.threads, w) /\ ServiceAccepted(Format, w)
        /\ ServiceTyped(w) /\ cli.formats = {Format} /\ c.kind = KindOf(Format, w)
        /\ BuiltFrom(s, c)
    BY <1>2, RunsFromFile
  <2>2. s.kind = "proxy"
    BY <1>1, <1>2
  <2>3. QED
    BY <2>1, <2>2 DEF BuiltFrom
<1>4. Format = "kdl"
  BY <1>1, <1>3
<1>5. s.filters = [b \in DOMAIN w.filters \ {"other"} |-> w.filters[b]]
  <2>1. s.filters = Filters("kdl", w.filters)
    BY <1>3, <1>4 DEF ServiceConf
  <2>2. DOMAIN w.filters \cap Blocks("kdl") = DOMAIN w.filters \ {"other"}
    BY <1>3 DEF Blocks, ServiceTyped
  <2>3. QED
    BY <2>1, <2>2 DEF Filters
<1>6. s.backends = {w.connectors[i].addr : i \in DOMAIN w.connectors}
  <2>1. c.upstreams = [i \in DOMAIN w.connectors |-> Connector(Format, w.connectors[i])]
    BY <1>3 DEF ServiceConf
  <2>2. \A i \in DOMAIN w.connectors : c.upstreams[i].addr = w.connectors[i].addr
    BY <2>1 DEF Connector
  <2>3. DOMAIN c.upstreams = DOMAIN w.connectors
    BY <2>1
  <2>4. s.backends = {c.upstreams[i].addr : i \in DOMAIN c.upstreams}
    BY <1>3
  <2>5. QED
    BY <2>2, <2>3, <2>4
<1>7. /\ s.rules = Rules(Format, doc.threads, w.rules) /\ s.options = Balance(w.balances)
      /\ RulesAccepted("kdl", w.rules) /\ BalancesAccepted("kdl", w.balances)
  BY <1>3, <1>4 DEF ServiceAccepted, ServiceConf
<1>8. /\ DOMAIN s.rules = DOMAIN w.rules
      /\ \A i \in DOMAIN w.rules : s.rules[i].kind = w.rules[i].kind
  <2>1. \A i \in DOMAIN w.rules : RuleComplete(w.rules[i])
    BY <1>7 DEF RulesAccepted
  <2>2. {j \in DOMAIN w.rules : RuleComplete(w.rules[j])} = DOMAIN w.rules
    BY <2>1
  <2>3. s.rules = [i \in DOMAIN w.rules |->
                      [kind |-> w.rules[i].kind,
                       threads |-> IF Format = "yaml" THEN DefaultThreads ELSE doc.threads]]
    BY <1>7, <2>2, Zenon DEF Rules
  <2>4. QED
    BY <2>3
<1>9. [i \in DOMAIN s.rules |-> s.rules[i].kind] = [i \in DOMAIN w.rules |-> w.rules[i].kind]
  BY <1>8
<1>10. \A i \in DOMAIN w.balances :
          /\ w.balances[i].selection \in {s.options.selection, "absent"}
          /\ w.balances[i].selection \in HashSelections =>
                w.balances[i].key = s.options.selector
  BY <1>3, <1>7, BalanceNamed DEF ServiceTyped
<1>11. QED
  BY <1>2, <1>5, <1>6, <1>9, <1>10

\* Domains, from the file to the router.
LEMMA InvVHostReady ==
    ASSUME StartInv
    PROVE  VHostReady
<1>1. SUFFICES ASSUME NEW k \in DOMAIN built, built[k].kind = "vhost"
               PROVE  LET w == doc.services[k]
                      IN  /\ built[k].routed =
                                {d.name : d \in {e \in w.domains : ValidDomainName(e.name)}}
                          /\ \A d \in w.domains : d.name \in built[k].routed => d.upstreams # {}
                          /\ \A d \in w.default :
                                d.cert \in built[k].fallback /\ d.upstreams # {}
  BY Zenon DEF VHostReady, Written
<1>2. PICK c, w : c = conf.services[k] /\ w = doc.services[k]
  OBVIOUS
<1>3. c = ServiceConf(Format, doc.threads, w) /\ BuiltFrom(built[k], c)
  BY <1>2, RunsFromFile
<1>4. c.domains = Domains(Format, w) /\ c.default = {Domain(Format, d) : d \in w.default}
  BY <1>3 DEF ServiceConf
<1>5. /\ built[k].routed = {d.name : d \in c.domains}
      /\ \A d \in c.domains \cup c.default : d.upstreams # {}
      /\ \A d \in c.default : d.cert \in built[k].fallback
  BY <1>1, <1>3 DEF BuiltFrom
<1>6. ASSUME NEW d
      PROVE  /\ Domain(Format, d).name = d.name /\ Domain(Format, d).cert = d.cert
             /\ Domain(Format, d).upstreams # {} => d.upstreams # {}
  BY DEF Domain
<1>7. PICK valid : valid = {e \in w.domains : ValidDomainName(e.name)}
  OBVIOUS
<1>8. c.domains = {Domain(Format, d) : d \in valid}
  BY <1>4, <1>7, Zenon DEF Domains
<1>9. built[k].routed = {d.name : d \in valid}
  BY <1>5, <1>6, <1>8
<1>10. ASSUME NEW d \in w.domains, d.name \in built[k].routed
       PROVE  d.upstreams # {}
  <2>1. ValidDomainName(d.name)
    BY <1>7, <1>9, <1>10
  <2>2. Domain(Format, d) \in c.domains
    BY <1>7, <1>8, <2>1
  <2>3. QED
    BY <1>5, <1>6, <2>2
<1>11. \A d \in w.default : d.cert \in built[k].fallback /\ d.upstreams # {}
  BY <1>4, <1>5, <1>6
<1>12. QED
  BY <1>2, <1>7, <1>9, <1>10, <1>11

\* Two selections with one key are remembered as one.
LEMMA InvSticky ==
    ASSUME Owned
    PROVE  Sticky
<1>1. SUFFICES ASSUME NEW p \in picked, NEW q \in picked, p.svc = q.svc,
                      built[p.svc].options.selection \in HashSelections,
                      \/ built[p.svc].options.selector = "UriPath" /\ p.path = q.path
                      \/ built[p.svc].options.selector = "null"
               PROVE  p.backend = q.backend
  BY DEF Sticky
<1>2. QED
  BY <1>1 DEF Owned, Remembered

-----------------------------------------------------------------------------
(* Paths.                                                                  *)

\* Whatever obeys the recursion of Canonicalize is what it computes.
LEMMA ReachUnique ==
    ASSUME NEW N \in Nat, NEW path, NEW w,
           w = [n \in 0..N |-> IF n = 0 THEN {<<>>} ELSE Walk(w[n - 1], path[n])]
    PROVE  (CHOOSE r : r = [n \in 0..N |-> IF n = 0 THEN {<<>>} ELSE Walk(r[n - 1], path[n])]) = w
<1>1. PICK r : r = CHOOSE q : q = [n \in 0..N |-> IF n = 0 THEN {<<>>} ELSE Walk(q[n - 1], path[n])]
  OBVIOUS
<1>2. r = [n \in 0..N |-> IF n = 0 THEN {<<>>} ELSE Walk(r[n - 1], path[n])]
  BY <1>1, Zenon
<1>3. PICK S : S = {n \in Nat : n <= N => r[n] = w[n]}
  OBVIOUS
<1>4. 0 \in S
  BY <1>2, <1>3
<1>5. ASSUME NEW n \in Nat, n \in S PROVE n + 1 \in S
  <2>1. ASSUME n + 1 <= N PROVE r[n + 1] = w[n + 1]
    <3>1. r[n] = w[n] /\ n + 1 \in 0..N /\ n + 1 # 0 /\ (n + 1) - 1 = n
      BY <1>3, <1>5, <2>1
    <3>2. r[n + 1] = Walk(r[n], path[n + 1])
      BY <1>2, <3>1
    <3>3. w[n + 1] = Walk(w[n], path[n + 1])
      BY <3>1
    <3>4. QED
      BY <3>1, <3>2, <3>3
  <2>2. QED
    BY <1>3, <1>5, <2>1
<1>6. \A n \in Nat : n \in S
  BY <1>4, <1>5, SetInduction
<1>7. \A n \in 0..N : r[n] = w[n]
  <2>1. ASSUME NEW n \in 0..N PROVE r[n] = w[n]
    <3>1. n \in Nat /\ n <= N
      OBVIOUS
    <3>2. n \in S
      BY <1>6, <3>1
    <3>3. QED
      BY <1>3, <3>1, <3>2
  <2>2. QED
    BY <2>1
<1>8. r = w
  BY <1>2, <1>7
<1>9. QED
  BY <1>1, <1>8

\* A path and what is below it.
LEMMA AppendedPath ==
    ASSUME NEW p \in Seq(STRING), NEW e \in STRING
    PROVE  /\ Append(p, e) \in Seq(STRING) /\ Append(p, e) # <<>>
           /\ Front(Append(p, e)) = p
           /\ Len(Append(p, e)) = Len(p) + 1 /\ Append(p, e)[Len(p) + 1] = e
           /\ \A n \in 1..Len(p) : Append(p, e)[n] = p[n]
<1>1. /\ Append(p, e) \in Seq(STRING) /\ Append(p, e) # <<>>
      /\ Len(Append(p, e)) = Len(p) + 1 /\ Append(p, e)[Len(p) + 1] = e
      /\ \A n \in 1..Len(p) : Append(p, e)[n] = p[n] /\ Append(p, e)[n] \in STRING
      /\ Len(p) \in Nat
  OBVIOUS
<1>2. Front(Append(p, e)) = SubSeq(Append(p, e), 1, Len(p))
  BY <1>1 DEF Front
<1>3. /\ SubSeq(Append(p, e), 1, Len(p)) \in Seq(STRING)
      /\ Len(SubSeq(Append(p, e), 1, Len(p))) = Len(p)
      /\ \A n \in 1..Len(p) : SubSeq(Append(p, e), 1, Len(p))[n] = p[n]
  BY <1>1, SubSeqProperties
<1>4. Front(Append(p, e)) = p
  BY <1>2, <1>3, SeqEqual
<1>5. QED
  BY <1>1, <1>4

\* The beginnings of a path.
LEMMA Beginnings ==
    ASSUME NEW q \in Seq(STRING)
    PROVE  /\ SubSeq(q, 1, 0) = <<>> /\ SubSeq(q, 1, Len(q)) = q
           /\ \A n \in 0..Len(q) : SubSeq(q, 1, n) \in Seq(STRING)
           /\ \A n \in 1..Len(q) :
                 q[n] \in STRING /\ SubSeq(q, 1, n) = Append(SubSeq(q, 1, n - 1), q[n])
<1>1. SubSeq(q, 1, 0) = <<>> /\ SubSeq(q, 1, Len(q)) = q
  BY SubSeqEmpty, SubSeqFull
<1>2. ASSUME NEW n \in 0..Len(q)
      PROVE  /\ SubSeq(q, 1, n) \in Seq(STRING) /\ Len(SubSeq(q, 1, n)) = n
             /\ \A i \in 1..n : SubSeq(q, 1, n)[i] = q[i]
  <2>1. \A i \in 1..n : q[i] \in STRING
    OBVIOUS
  <2>2. QED
    BY <2>1, SubSeqProperties
<1>3. ASSUME NEW n \in 1..Len(q)
      PROVE  SubSeq(q, 1, n) = Append(SubSeq(q, 1, n - 1), q[n])
  <2>1. PICK p : p = SubSeq(q, 1, n - 1)
    OBVIOUS
  <2>2. PICK t : t = SubSeq(q, 1, n)
    OBVIOUS
  <2>3. n - 1 \in 0..Len(q) /\ n \in 0..Len(q) /\ q[n] \in STRING
    OBVIOUS
  <2>4. p \in Seq(STRING) /\ Len(p) = n - 1 /\ \A i \in 1..(n - 1) : p[i] = q[i]
    BY <1>2, <2>1, <2>3
  <2>5. t \in Seq(STRING) /\ Len(t) = n /\ \A i \in 1..n : t[i] = q[i]
    BY <1>2, <2>2, <2>3
  <2>6. /\ Append(p, q[n]) \in Seq(STRING) /\ Len(Append(p, q[n])) = n
        /\ \A i \in 1..n : Append(p, q[n])[i] = q[i]
    BY <2>3, <2>4, AppendedPath
  <2>7. t = Append(p, q[n])
    BY <2>5, <2>6, SeqEqual
  <2>8. QED
    BY <2>1, <2>2, <2>7
<1>4. QED
  BY <1>1, <1>2, <1>3

\* What lies in a directory lies in one that exists.
LEMMA ParentExists ==
    ASSUME TreeInv, NEW p \in Seq(STRING), NEW e \in STRING, Append(p, e) \in DOMAIN Tree
    PROVE  p \in DOMAIN Tree /\ p \in DOMAIN tree /\ tree[p].type = "dir" /\ Tree[p].type = "dir"
<1>1. p \in DOMAIN Tree /\ Tree[p].type = "dir"
  <2>1. PICK c : c = Append(p, e)
    OBVIOUS
  <2>2. c # <<>> /\ Front(c) = p /\ c \in DOMAIN Tree
    BY <2>1, AppendedPath
  <2>3. QED
    BY <2>2, TreeAssumption
<1>2. p \in DOMAIN tree
  BY <1>1 DEF TreeInv
<1>3. QED
  BY <1>1, <1>2 DEF TreeInv

\* One component further, without link or "..".
LEMMA WalkDown ==
    ASSUME TreeInv, NEW p \in Seq(STRING), NEW e \in STRING, e # Up
    PROVE  /\ Walk({p} \cap DOMAIN tree, e) \subseteq Enter(Append(p, e))
           /\ p \in DOMAIN tree /\ tree[p].type = "dir" =>
                 Walk({p} \cap DOMAIN tree, e) = Enter(Append(p, e))
           /\ (Append(p, e) \in DOMAIN Tree => Tree[Append(p, e)].type # "link") =>
                 Walk({p} \cap DOMAIN tree, e) = {Append(p, e)} \cap DOMAIN tree
<1>1. PICK D : D = {q \in {p} \cap DOMAIN tree : tree[q].type = "dir"}
  OBVIOUS
<1>2. Walk({p} \cap DOMAIN tree, e) = UNION {Enter(Append(x, e)) : x \in D}
  BY <1>1 DEF Walk
<1>3. D = {} \/ D = {p}
  BY <1>1
<1>4. Walk({p} \cap DOMAIN tree, e) \subseteq Enter(Append(p, e))
  BY <1>2, <1>3
<1>5. ASSUME p \in DOMAIN tree, tree[p].type = "dir"
      PROVE  Walk({p} \cap DOMAIN tree, e) = Enter(Append(p, e))
  <2>1. D = {p}
    BY <1>1, <1>5
  <2>2. QED
    BY <1>2, <2>1
<1>6. ASSUME Append(p, e) \in DOMAIN Tree => Tree[Append(p, e)].type # "link"
      PROVE  Walk({p} \cap DOMAIN tree, e) = {Append(p, e)} \cap DOMAIN tree
  <2>1. CASE Append(p, e) \in DOMAIN tree
    <3>1. Append(p, e) \in DOMAIN Tree /\ tree[Append(p, e)].type # "link"
      BY <1>6, <2>1 DEF TreeInv
    <3>2. Enter(Append(p, e)) = {Append(p, e)}
      BY <2>1, <3>1 DEF Enter
    <3>3. p \in DOMAIN tree /\ tree[p].type = "dir"
      BY <3>1, ParentExists
    <3>4. QED
      BY <1>5, <2>1, <3>2, <3>3
  <2>2. CASE Append(p, e) \notin DOMAIN tree
    <3>1. Enter(Append(p, e)) = {}
      BY <2>2 DEF Enter
    <3>2. QED
      BY <1>4, <2>2, <3>1
  <2>3. QED
    BY <2>1, <2>2
<1>7. QED
  BY <1>4, <1>5, <1>6

\* Canonicalize on a plain path, which it leaves alone, and one component after it.
LEMMA PlainStep ==
    ASSUME TreeInv, NEW q \in Seq(STRING), Plain(q)
    PROVE  /\ {SubSeq(q, 1, 0)} \cap DOMAIN tree = {<<>>}
           /\ \A n \in 1..Len(q) :
                 {SubSeq(q, 1, n)} \cap DOMAIN tree =
                     Walk({SubSeq(q, 1, n - 1)} \cap DOMAIN tree, q[n])
<1>1. <<>> \in DOMAIN tree
  BY TreeAssumption DEF TreeInv
<1>2. ASSUME NEW n \in 1..Len(q)
      PROVE  {SubSeq(q, 1, n)} \cap DOMAIN tree =
                 Walk({SubSeq(q, 1, n - 1)} \cap DOMAIN tree, q[n])
  <2>1. PICK p, e : p = SubSeq(q, 1, n - 1) /\ e = q[n]
    OBVIOUS
  <2>2. p \in Seq(STRING) /\ e \in STRING /\ SubSeq(q, 1, n) = Append(p, e)
    BY <2>1, Beginnings
  <2>3. n \in 0..Len(q) /\ n \in DOMAIN q
    OBVIOUS
  <2>4. e # Up /\ (Append(p, e) \in DOMAIN Tree => Tree[Append(p, e)].type # "link")
    BY <2>1, <2>2, <2>3 DEF Plain
  <2>5. Walk({p} \cap DOMAIN tree, e) = {Append(p, e)} \cap DOMAIN tree
    BY <2>2, <2>4, WalkDown
  <2>6. QED
    BY <2>1, <2>2, <2>5
<1>3. QED
  BY <1>1, <1>2, Beginnings

\* Canonicalize leaves a plain path alone.
LEMMA PlainPath ==
    ASSUME TreeInv, NEW q \in Seq(STRING), Plain(q)
    PROVE  Canonicalize(q) = {q} \cap DOMAIN tree
<1>1. PICK N : N = Len(q)
  OBVIOUS
<1>2. N \in Nat
  BY <1>1
<1>3. PICK w : w = [n \in 0..N |-> {SubSeq(q, 1, n)} \cap DOMAIN tree]
  OBVIOUS
<1>4. ASSUME NEW n \in 0..N
      PROVE  w[n] = IF n = 0 THEN {<<>>} ELSE Walk(w[n - 1], q[n])
  <2>1. CASE n = 0
    BY <1>3, <2>1, PlainStep
  <2>2. CASE n # 0
    <3>1. n \in 1..N /\ n - 1 \in 0..N
      BY <1>2, <2>2
    <3>2. {SubSeq(q, 1, n)} \cap DOMAIN tree = Walk({SubSeq(q, 1, n - 1)} \cap DOMAIN tree, q[n])
      BY <1>1, <3>1, PlainStep
    <3>3. w[n - 1] = {SubSeq(q, 1, n - 1)} \cap DOMAIN tree
      BY <1>3, <3>1
    <3>4. w[n] = {SubSeq(q, 1, n)} \cap DOMAIN tree
      BY <1>3
    <3>5. QED
      BY <2>2, <3>2, <3>3, <3>4
  <2>3. QED
    BY <2>1, <2>2
<1>5. w = [n \in 0..N |-> IF n = 0 THEN {<<>>} ELSE Walk(w[n - 1], q[n])]
  BY <1>3, <1>4
<1>6. Canonicalize(q) = w[N]
  <2>1. Canonicalize(q) =
          (CHOOSE r : r = [n \in 0..N |-> IF n = 0 THEN {<<>>} ELSE Walk(r[n - 1], q[n])])[N]
    BY <1>1, Zenon DEF Canonicalize
  <2>2. QED
    BY <1>2, <1>5, <2>1, ReachUnique, Zenon
<1>7. w[N] = {q} \cap DOMAIN tree
  <2>1. w[N] = {SubSeq(q, 1, N)} \cap DOMAIN tree
    BY <1>2, <1>3
  <2>2. SubSeq(q, 1, N) = q
    BY <1>1, Beginnings
  <2>3. QED
    BY <2>1, <2>2
<1>8. QED
  BY <1>6, <1>7

\* One component after a plain path.
LEMMA PlainThen ==
    ASSUME TreeInv, NEW q \in Seq(STRING), Plain(q), NEW e \in STRING
    PROVE  Canonicalize(Append(q, e)) = Walk({q} \cap DOMAIN tree, e)
<1>1. PICK N, M, a : N = Len(q) /\ a = Append(q, e) /\ M = N + 1
  OBVIOUS
<1>2. /\ N \in Nat /\ M \in Nat /\ a \in Seq(STRING) /\ Len(a) = M /\ a[M] = e
      /\ \A n \in 1..N : a[n] = q[n]
  <2>1. /\ Append(q, e) \in Seq(STRING) /\ Len(Append(q, e)) = Len(q) + 1
        /\ Append(q, e)[Len(q) + 1] = e /\ \A n \in 1..Len(q) : Append(q, e)[n] = q[n]
    BY AppendedPath
  <2>2. Len(q) \in Nat /\ Len(q) + 1 \in Nat
    BY LenProperties
  <2>3. QED
    BY <1>1, <2>1, <2>2, Zenon
<1>3. PICK w : w = [n \in 0..M |-> IF n <= N THEN {SubSeq(q, 1, n)} \cap DOMAIN tree
                                             ELSE Walk({q} \cap DOMAIN tree, e)]
  OBVIOUS
<1>4. ASSUME NEW n \in 0..M
      PROVE  w[n] = IF n = 0 THEN {<<>>} ELSE Walk(w[n - 1], a[n])
  <2>1. CASE n = 0
    <3>1. w[n] = {SubSeq(q, 1, 0)} \cap DOMAIN tree
      BY <1>2, <1>3, <2>1
    <3>2. QED
      BY <2>1, <3>1, PlainStep
  <2>2. CASE n \in 1..N
    <3>1. n - 1 \in 0..M /\ n - 1 <= N /\ n <= N /\ n # 0 /\ a[n] = q[n]
      BY <1>1, <1>2, <2>2
    <3>2. {SubSeq(q, 1, n)} \cap DOMAIN tree = Walk({SubSeq(q, 1, n - 1)} \cap DOMAIN tree, q[n])
      BY <1>1, <2>2, PlainStep
    <3>3. w[n - 1] = {SubSeq(q, 1, n - 1)} \cap DOMAIN tree
      BY <1>3, <3>1
    <3>4. w[n] = {SubSeq(q, 1, n)} \cap DOMAIN tree
      BY <1>3, <3>1
    <3>5. QED
      BY <3>1, <3>2, <3>3, <3>4
  <2>3. CASE n = M
    <3>1. n - 1 = N /\ N \in 0..M /\ n # 0 /\ ~(n <= N)
      BY <1>1, <1>2, <2>3
    <3>2. w[N] = {SubSeq(q, 1, N)} \cap DOMAIN tree
      BY <1>2, <1>3, <3>1
    <3>3. SubSeq(q, 1, N) = q
      BY <1>1, Beginnings
    <3>4. w[n] = Walk({q} \cap DOMAIN tree, e)
      BY <1>3, <3>1
    <3>5. QED
      BY <1>2, <2>3, <3>1, <3>2, <3>3, <3>4
  <2>4. n = 0 \/ n \in 1..N \/ n = M
    <3>1. N \in Nat /\ M = N + 1
      BY <1>1, <1>2
    <3>2. QED
      BY <3>1
  <2>5. QED
    BY <2>1, <2>2, <2>3, <2>4
<1>5. w = [n \in 0..M |-> IF n = 0 THEN {<<>>} ELSE Walk(w[n - 1], a[n])]
  BY <1>3, <1>4
<1>6. Canonicalize(a) = w[M]
  <2>1. Canonicalize(a) =
          (CHOOSE r : r = [n \in 0..M |-> IF n = 0 THEN {<<>>} ELSE Walk(r[n - 1], a[n])])[M]
    BY <1>2, Zenon DEF Canonicalize
  <2>2. M \in Nat
    BY <1>2
  <2>3. QED
    BY <1>5, <2>1, <2>2, ReachUnique, Zenon
<1>7. w[M] = Walk({q} \cap DOMAIN tree, e)
  <2>1. M \in 0..M /\ ~(M <= N)
    BY <1>1, <1>2
  <2>2. QED
    BY <1>3, <2>1
<1>8. QED
  BY <1>1, <1>6, <1>7

\* The directory of a plain path is one.
LEMMA PlainFront ==
    ASSUME NEW q \in Seq(STRING), NEW e \in STRING, Plain(Append(q, e))
    PROVE  Plain(q)
<1>1. PICK a, N : a = Append(q, e) /\ N = Len(q)
  OBVIOUS
<1>2. /\ a \in Seq(STRING) /\ N \in Nat /\ Len(a) = N + 1 /\ DOMAIN q = 1..N /\ DOMAIN a = 1..(N + 1)
      /\ \A n \in 1..N : a[n] = q[n] /\ q[n] \in STRING
  <2>1. /\ Append(q, e) \in Seq(STRING) /\ Len(Append(q, e)) = Len(q) + 1
        /\ \A n \in 1..Len(q) : Append(q, e)[n] = q[n]
    BY AppendedPath
  <2>2. /\ Len(q) \in Nat /\ DOMAIN q = 1..Len(q) /\ \A n \in 1..Len(q) : q[n] \in STRING
        /\ DOMAIN Append(q, e) = 1..Len(Append(q, e))
    BY <2>1, LenProperties
  <2>3. QED
    BY <1>1, <2>1, <2>2, Zenon
<1>3. ASSUME NEW n \in 0..N PROVE SubSeq(a, 1, n) = SubSeq(q, 1, n)
  <2>1. \A i \in 1..n : a[i] = q[i] /\ q[i] \in STRING /\ a[i] \in STRING
    <3>1. \A i \in 1..n : i \in 1..N
      BY <1>2
    <3>2. QED
      BY <1>2, <3>1, Zenon
  <2>2. /\ SubSeq(a, 1, n) \in Seq(STRING) /\ Len(SubSeq(a, 1, n)) = n
        /\ \A i \in 1..n : SubSeq(a, 1, n)[i] = a[i]
    BY <1>2, <2>1, SubSeqProperties
  <2>3. /\ SubSeq(q, 1, n) \in Seq(STRING) /\ Len(SubSeq(q, 1, n)) = n
        /\ \A i \in 1..n : SubSeq(q, 1, n)[i] = q[i]
    BY <1>2, <2>1, SubSeqProperties
  <2>4. QED
    BY <2>1, <2>2, <2>3, SeqEqual
<1>4. \A i \in 1..N : q[i] # Up
  BY <1>1, <1>2 DEF Plain
<1>5. ASSUME NEW n \in 0..N, SubSeq(q, 1, n) \in DOMAIN Tree
      PROVE  Tree[SubSeq(q, 1, n)].type # "link"
  <2>1. n \in 0..(N + 1)
    BY <1>2
  <2>2. QED
    BY <1>1, <1>2, <1>3, <1>5, <2>1 DEF Plain
<1>6. QED
  BY <1>1, <1>2, <1>4, <1>5 DEF Plain

\* What is below the base path begins with it.
LEMMA Below ==
    ASSUME NEW b \in Seq(STRING), NEW u \in Seq(STRING), NEW e \in STRING
    PROVE  /\ b \o u \in Seq(STRING)
           /\ IsPrefix(b, b \o u) /\ IsPrefix(b, Append(b \o u, e))
<1>1. PICK f, N, M : f = b \o u /\ N = Len(b) /\ M = Len(u)
  OBVIOUS
<1>2. /\ f \in Seq(STRING) /\ N \in Nat /\ M \in Nat /\ Len(f) = N + M
      /\ \A i \in 1..N : f[i] = b[i]
  BY <1>1, ConcatProperties, LenProperties
<1>3. PICK a : a = Append(f, e)
  OBVIOUS
<1>4. a \in Seq(STRING) /\ Len(a) = N + M + 1 /\ \A i \in 1..N : a[i] = b[i]
  <2>1. \A i \in 1..N : i \in 1..Len(f)
    BY <1>2
  <2>2. /\ Append(f, e) \in Seq(STRING) /\ Len(Append(f, e)) = Len(f) + 1
        /\ \A i \in 1..Len(f) : Append(f, e)[i] = f[i]
    BY <1>2, AppendedPath
  <2>3. a \in Seq(STRING) /\ Len(a) = Len(f) + 1 /\ \A i \in 1..Len(f) : a[i] = f[i]
    BY <1>3, <2>2, Zenon
  <2>4. Len(a) = N + M + 1
    BY <1>2, <2>3
  <2>5. \A i \in 1..N : a[i] = b[i]
    BY <1>2, <2>1, <2>3, Zenon
  <2>6. QED
    BY <2>3, <2>4, <2>5
<1>5. ASSUME NEW t \in Seq(STRING), N <= Len(t), \A i \in 1..N : t[i] = b[i]
      PROVE  IsPrefix(b, t)
  <2>1. \A i \in 1..N : b[i] \in STRING /\ t[i] \in STRING
    BY <1>1, <1>5
  <2>2. /\ SubSeq(t, 1, N) \in Seq(STRING) /\ Len(SubSeq(t, 1, N)) = N
        /\ \A i \in 1..N : SubSeq(t, 1, N)[i] = t[i]
    BY <1>2, <2>1, SubSeqProperties
  <2>3. SubSeq(b, 1, N) = b
    BY <1>1, Beginnings
  <2>4. SubSeq(t, 1, N) = b
    BY <1>1, <1>5, <2>2, SeqEqual
  <2>5. QED
    BY <1>1, <1>5, <2>3, <2>4 DEF IsPrefix
<1>6. N <= Len(f) /\ N <= Len(a)
  BY <1>2, <1>4
<1>7. QED
  BY <1>1, <1>2, <1>3, <1>4, <1>5, <1>6

-----------------------------------------------------------------------------
(* The file server.                                                        *)

\* Whether a plain path leads to a directory.
LEMMA PlainIsDir ==
    ASSUME TreeInv, NEW q \in Seq(STRING), Plain(q)
    PROVE  IsDir(q) <=> q \in DOMAIN tree /\ tree[q].type = "dir"
  BY PlainPath DEF IsDir

\* What resolve_path is to find: see ServedAsAsked.
Finds(base, full, found) ==
    /\ \A p \in found : IsPrefix(base.path, p)
    /\ Plain(Append(full, IndexFile)) => found \subseteq Named(full)
    /\ Plain(full) =>
          \A x \in Named(full) \cap DOMAIN Tree : Tree[x].type = "file" =>
             /\ x \in DOMAIN tree => x \in found
             /\ found \subseteq {x}

\* Every path begins with the empty one.
LEMMA EmptyPrefix == ASSUME NEW t \in Seq(STRING) PROVE IsPrefix(<<>>, t)
<1>1. PICK u : u = <<>> \o t
  OBVIOUS
<1>2. u = t
  BY <1>1, ConcatEmptySeq
<1>3. IsPrefix(<<>>, <<>> \o t)
  <2>1. <<>> \in Seq(STRING) /\ IndexFile \in STRING
    BY EmptySeq, TreeAssumption
  <2>2. QED
    BY <2>1, Below
<1>4. QED
  BY <1>1, <1>2, <1>3

\* resolve_path with a base path that is absolute, or empty.
LEMMA ResolveFinds ==
    ASSUME TreeInv, NEW base \in BaseType, NEW uri \in Seq(STRING), Comparable(base, uri)
    PROVE  Finds(base, Full(base, uri), ResolvePath(base, uri))
<1>3. PICK full : full = Full(base, uri)
  OBVIOUS
<1>1. PICK index : index = Append(full, IndexFile)
  OBVIOUS
<1>2. /\ full \in Seq(STRING) /\ base.path \in Seq(STRING) /\ IndexFile \in STRING
      /\ IndexFile # Up /\ IsPrefix(base.path, full) /\ IsPrefix(base.path, index)
  <2>1. /\ base.path \in Seq(STRING) /\ IndexFile \in STRING /\ IndexFile # Up
        /\ Cwd \in Seq(STRING)
    BY TreeAssumption DEF BaseType
  <2>2. CASE base.abs
    <3>1. full = base.path \o uri
      BY <1>3, <2>2 DEF Full
    <3>2. QED
      BY <1>1, <2>1, <3>1, Below
  <2>3. CASE ~base.abs
    <3>1. base.path = <<>> /\ full = (Cwd \o base.path) \o uri
      BY <1>3, <2>3 DEF Full, Comparable
    <3>2. Cwd \o base.path \in Seq(STRING)
      BY <2>1, ConcatProperties
    <3>3. full \in Seq(STRING)
      BY <3>1, <3>2, ConcatProperties
    <3>4. index \in Seq(STRING)
      BY <1>1, <2>1, <3>3, AppendedPath
    <3>5. IsPrefix(base.path, full) /\ IsPrefix(base.path, index)
      BY <3>1, <3>3, <3>4, EmptyPrefix
    <3>6. QED
      BY <2>1, <3>3, <3>5
  <2>4. QED
    BY <2>2, <2>3
<1>4. ResolvePath(base, uri) =
         {p \in Canonicalize(IF IsDir(full) THEN index ELSE full) :
             Comparable(base, uri) /\ IsPrefix(base.path, p)}
  BY <1>1, <1>3, Zenon DEF ResolvePath
<1>5. \A p \in ResolvePath(base, uri) : IsPrefix(base.path, p)
  BY <1>4
<1>6. ASSUME Plain(index)
      PROVE  ResolvePath(base, uri) \subseteq Named(full)
  <2>1. Plain(full)
    BY <1>1, <1>2, <1>6, PlainFront
  <2>2. Canonicalize(full) = {full} \cap DOMAIN tree
    BY <1>2, <2>1, PlainPath
  <2>3. index \in Seq(STRING)
    BY <1>1, <1>2, AppendedPath
  <2>4. Canonicalize(index) = {index} \cap DOMAIN tree
    BY <1>6, <2>3, PlainPath
  <2>5. QED
    BY <1>1, <1>4, <2>2, <2>4 DEF Named
<1>7. ASSUME Plain(full), NEW x \in Named(full), x \in DOMAIN Tree, Tree[x].type = "file"
      PROVE  /\ x \in DOMAIN tree => x \in ResolvePath(base, uri)
             /\ ResolvePath(base, uri) \subseteq {x}
  <2>1. Canonicalize(full) = {full} \cap DOMAIN tree
    BY <1>2, <1>7, PlainPath
  <2>2. IsDir(full) <=> full \in DOMAIN tree /\ tree[full].type = "dir"
    BY <1>2, <1>7, PlainIsDir
  <2>3. CASE x = full
    <3>1. ~IsDir(full)
      BY <1>7, <2>2, <2>3 DEF TreeInv
    <3>2. QED
      BY <1>2, <1>4, <2>1, <2>3, <3>1
  <2>4. CASE x = index
    <3>1. full \in DOMAIN tree /\ tree[full].type = "dir"
      BY <1>1, <1>2, <1>7, <2>4, ParentExists
    <3>2. Canonicalize(index) = Walk({full} \cap DOMAIN tree, IndexFile)
      BY <1>1, <1>2, <1>7, PlainThen
    <3>3. Walk({full} \cap DOMAIN tree, IndexFile) = {index} \cap DOMAIN tree
      BY <1>1, <1>2, <1>7, <2>4, WalkDown
    <3>4. QED
      BY <1>2, <1>4, <2>2, <2>4, <3>1, <3>2, <3>3
  <2>5. QED
    BY <1>1, <1>7, <2>3, <2>4 DEF Named
<1>8. Finds(base, full, ResolvePath(base, uri))
  BY <1>1, <1>5, <1>6, <1>7 DEF Finds
<1>9. QED
  BY <1>3, <1>8

\* Where a base path is relative nothing is found.
LEMMA RelativeFindsNothing ==
    ASSUME NEW base, NEW uri, ~Comparable(base, uri)
    PROVE  ResolvePath(base, uri) = {}
  BY DEF ResolvePath

\* The steps of others.
LEMMA FilesSame ==
    ASSUME TreeInv, Files, FilesAsAsked, UNCHANGED fileVars
    PROVE  TreeInv' /\ Files' /\ FilesAsAsked'
<1>1. tree' = tree /\ get' = get
  BY DEF fileVars
<1>2. TreeInv' /\ Files'
  BY <1>1 DEF TreeInv, Files, FileOk, Found
<1>3. FilesAsAsked'
  BY <1>1 DEF FilesAsAsked, ServedAsAsked
<1>4. QED
  BY <1>2, <1>3

\* A step that changes one request.
LEMMA OneKeeps ==
    ASSUME TreeInv, Files, FilesAsAsked, NEW g \in Gets, NEW r,
           get' = [get EXCEPT ![g] = r], tree' = tree,
           FileOk(r), ServedAsAsked(r, Full(r.base, r.uri))
    PROVE  TreeInv' /\ Files' /\ FilesAsAsked'
<1>1. DOMAIN get' = Gets /\ \A h \in Gets : get'[h] = IF h = g THEN r ELSE get[h]
  BY DEF Files
<1>2. \A h \in Gets : FileOk(get'[h])
  BY <1>1 DEF Files
<1>3. \A h \in Gets : ServedAsAsked(get'[h], Full(get'[h].base, get'[h].uri))
  BY <1>1, Zenon DEF FilesAsAsked
<1>4. Files'
  BY <1>1, <1>2 DEF Files, FileOk, Found
<1>5. FilesAsAsked'
  BY <1>3 DEF FilesAsAsked, ServedAsAsked
<1>6. TreeInv'
  BY DEF TreeInv
<1>7. QED
  BY <1>4, <1>5, <1>6

\* request_filter of the file server.
LEMMA AskKeeps ==
    ASSUME TreeInv, Files, FilesAsAsked, NEW g \in Gets, NEW base \in BaseType,
           NEW uri \in Seq(STRING), Ask(g, base, uri)
    PROVE  TreeInv' /\ Files' /\ FilesAsAsked'
<1>1. PICK full : full = Full(base, uri)
  OBVIOUS
<1>2. PICK found : found = ResolvePath(base, uri)
  OBVIOUS
<1>3. tree' = tree
  BY DEF Ask
<1>0. Comparable(base, uri) => Finds(base, full, found)
  BY <1>1, <1>2, ResolveFinds
<1>4. CASE base.given /\ found # {}
  <2>1. PICK r : r = [pc |-> "read", base |-> base, uri |-> uri,
                      path |-> CHOOSE p \in found : TRUE, status |-> 0]
    OBVIOUS
  <2>2. get' = [get EXCEPT ![g] = r]
    BY <1>2, <1>4, <2>1 DEF Ask
  <2>3. /\ r.pc = "read" /\ r.base = base /\ r.uri = uri /\ r.status = 0
        /\ r.path \in found
    BY <1>4, <2>1
  <2>4. Comparable(base, uri)
    BY <1>2, <1>4, RelativeFindsNothing
  <2>5. /\ IsPrefix(base.path, r.path)
        /\ Plain(Append(full, IndexFile)) => r.path \in Named(full)
        /\ Plain(full) =>
              \A x \in Named(full) \cap DOMAIN Tree : Tree[x].type = "file" => x = r.path
    BY <1>0, <2>3, <2>4 DEF Finds
  <2>6. FileOk(r)
    BY <1>1, <2>3, <2>4, <2>5 DEF FileOk, Found
  <2>7. ServedAsAsked(r, Full(r.base, r.uri))
    BY <2>3 DEF ServedAsAsked
  <2>8. QED
    BY <1>3, <2>2, <2>6, <2>7, OneKeeps
<1>5. CASE ~(base.given /\ found # {})
  <2>1. PICK r : r = Answer(base, uri, <<>>, IF base.given THEN 404 ELSE 502)
    OBVIOUS
  <2>2. get' = [get EXCEPT ![g] = r]
    BY <1>2, <1>5, <2>1 DEF Ask
  <2>3. /\ r.pc = "done" /\ r.base = base /\ r.uri = uri /\ r.status \in {404, 502}
        /\ r.status = 404 => base.given
    BY <2>1 DEF Answer
  <2>4. ASSUME r.status = 404, Comparable(base, uri), Plain(full), NEW p \in Named(full) \cap DOMAIN tree
        PROVE  tree[p].type # "file"
    <3>1. found = {}
      BY <1>5, <2>3, <2>4
    <3>2. p \in DOMAIN Tree /\ tree[p] = Tree[p]
      BY <2>4 DEF TreeInv
    <3>3. QED
      BY <1>0, <2>4, <3>1, <3>2 DEF Finds
  <2>5. FileOk(r)
    BY <2>3 DEF FileOk
  <2>6. ServedAsAsked(r, full)
    BY <2>3, <2>4 DEF ServedAsAsked
  <2>7. Full(r.base, r.uri) = full
    BY <1>1, <2>3
  <2>8. QED
    BY <1>3, <2>2, <2>5, <2>6, <2>7, OneKeeps
<1>6. QED
  BY <1>4, <1>5

\* serve_file, with the file there or gone.
LEMMA ServeFileKeeps ==
    ASSUME TreeInv, Files, FilesAsAsked, NEW g \in Gets, ServeFile(g)
    PROVE  TreeInv' /\ Files' /\ FilesAsAsked'
<1>1. PICK r : r = Answer(get[g].base, get[g].uri, get[g].path,
                          IF get[g].path \in DOMAIN tree /\ tree[get[g].path].type = "file"
                          THEN 200 ELSE 404)
  OBVIOUS
<1>2. get' = [get EXCEPT ![g] = r] /\ tree' = tree /\ get[g].pc = "read"
  BY <1>1 DEF ServeFile
<1>3. /\ r.pc = "done" /\ r.base = get[g].base /\ r.uri = get[g].uri /\ r.path = get[g].path
      /\ r.status \in {200, 404}
      /\ r.status = 404 => ~(r.path \in DOMAIN tree /\ tree[r.path].type = "file")
  BY <1>1 DEF Answer
<1>4. PICK full : full = Full(r.base, r.uri)
  OBVIOUS
<1>5. Found(get[g], full)
  BY <1>2, <1>3, <1>4 DEF Files, FileOk
<1>6. /\ IsPrefix(r.base.path, r.path)
      /\ Plain(Append(full, IndexFile)) => r.path \in Named(full)
      /\ Plain(full) =>
            \A p \in Named(full) \cap DOMAIN Tree : Tree[p].type = "file" => p = r.path
  BY <1>3, <1>5 DEF Found
<1>7. FileOk(r)
  BY <1>3 DEF FileOk
<1>8. ASSUME r.status = 404, Plain(full), NEW p \in Named(full) \cap DOMAIN tree
      PROVE  tree[p].type # "file"
  <2>1. p \in DOMAIN Tree /\ tree[p] = Tree[p]
    BY <1>8 DEF TreeInv
  <2>2. QED
    BY <1>3, <1>6, <1>8, <2>1
<1>9. ServedAsAsked(r, full)
  BY <1>6, <1>8 DEF ServedAsAsked
<1>10. QED
  BY <1>2, <1>4, <1>7, <1>9, OneKeeps

\* A file is removed.
LEMMA RemoveFileKeeps ==
    ASSUME TreeInv, Files, FilesAsAsked, NEW f, RemoveFile(f)
    PROVE  TreeInv' /\ Files' /\ FilesAsAsked'
<1>1. /\ f \in DOMAIN tree /\ tree[f].type = "file" /\ get' = get
      /\ tree' = [q \in DOMAIN tree \ {f} |-> tree[q]]
  BY DEF RemoveFile
<1>2. DOMAIN tree' \subseteq DOMAIN tree /\ \A p \in DOMAIN tree' : tree'[p] = tree[p]
  BY <1>1
<1>3. TreeInv'
  <2>1. ASSUME NEW p \in DOMAIN Tree, Tree[p].type # "file"
        PROVE  p \in DOMAIN tree'
    BY <1>1, <2>1 DEF TreeInv
  <2>2. QED
    BY <1>2, <2>1 DEF TreeInv
<1>4. Files'
  BY <1>1 DEF Files, FileOk, Found
<1>5. FilesAsAsked'
  BY <1>1, <1>2 DEF FilesAsAsked, ServedAsAsked
<1>6. QED
  BY <1>3, <1>4, <1>5

\* All steps of file servers.
LEMMA FileKeeps ==
    ASSUME StartInv, TreeInv, Files, FilesAsAsked, FileStep
    PROVE  TreeInv' /\ Files' /\ FilesAsAsked'
<1>1. ASSUME NEW k \in Serving("files"), NEW g \in Gets, NEW uri \in Uris, Ask(g, built[k].base, uri)
      PROVE  TreeInv' /\ Files' /\ FilesAsAsked'
  <2>1. k \in DOMAIN built
    BY DEF Serving
  <2>2. /\ conf.services[k] = ServiceConf(Format, doc.threads, doc.services[k])
        /\ ServiceTyped(doc.services[k]) /\ BuiltFrom(built[k], conf.services[k])
    BY <2>1, RunsFromFile
  <2>3. conf.services[k].base = doc.services[k].base
    BY <2>2 DEF ServiceConf
  <2>4. built[k].base \in BaseType /\ uri \in Seq(STRING)
    BY <2>2, <2>3, TreeAssumption DEF BuiltFrom, ServiceTyped
  <2>5. QED
    BY <1>1, <2>4, AskKeeps
<1>2. QED
  BY <1>1, ServeFileKeeps, RemoveFileKeeps DEF FileStep

-----------------------------------------------------------------------------
(* The theorems.                                                           *)

\* The first state.
LEMMA InitIInv == Init => IInv
<1>1. SUFFICES ASSUME Init PROVE IInv
  OBVIOUS
<1>2. StartInv
  BY <1>1, StartInitInv DEF Init
<1>3. TreeInv
  BY <1>1 DEF Init, FileInit, TreeInv
<1>4. /\ DOMAIN get = Gets
      /\ \A g \in Gets : get[g].pc = "new" /\ get[g].status = 0
  BY <1>1 DEF Init, FileInit, NotAsked
<1>5. Files
  BY <1>4 DEF Files, FileOk
<1>6. FilesAsAsked
  BY <1>4 DEF FilesAsAsked, ServedAsAsked
<1>7. Asked /\ Owned
  BY <1>1 DEF Init, SelectInit, Asked, Owned, ReqType
<1>8. QED
  BY <1>2, <1>3, <1>5, <1>6, <1>7 DEF IInv

\* Every step of the server.
LEMMA NextIInv == IInv /\ [Next]_vars => IInv'
<1>1. SUFFICES ASSUME StartInv, TreeInv, Files, FilesAsAsked, Asked, Owned, [Next]_vars
               PROVE  IInv'
  BY DEF IInv
<1>2. CASE StartStep
  <2>1. StartNext /\ UNCHANGED fileVars /\ UNCHANGED selectVars
    BY <1>2 DEF StartStep
  <2>2. QED
    BY <1>1, <2>1, StartInvStep, FilesSame, AskedStart DEF IInv
<1>3. CASE FileStep
  <2>1. UNCHANGED startVars /\ UNCHANGED selectVars
    BY <1>3 DEF FileStep
  <2>2. QED
    BY <1>1, <1>3, <2>1, StartInvSame, FileKeeps, AskedSame DEF IInv
<1>4. CASE ProxyStep
  <2>1. UNCHANGED startVars /\ UNCHANGED fileVars
    BY <1>4 DEF ProxyStep
  <2>2. QED
    BY <1>1, <1>4, <2>1, StartInvSame, FilesSame, ProxyKeeps DEF IInv
<1>5. CASE UNCHANGED vars
  <2>1. UNCHANGED startVars /\ UNCHANGED fileVars /\ UNCHANGED selectVars
    BY <1>5 DEF vars
  <2>2. QED
    BY <1>1, <2>1, StartInvSame, FilesSame, AskedSame DEF IInv
<1>6. QED
  BY <1>1, <1>2, <1>3, <1>4, <1>5 DEF Next

\* The types.
LEMMA InvTypeOK ==
    ASSUME IInv
    PROVE  TypeOK
<1>1. StartInv /\ TreeInv /\ Files /\ Asked
  BY DEF IInv
<1>2. cli \in CliType /\ Types
  BY <1>1 DEF StartInv, Given
<1>3. DOMAIN built \subseteq DOMAIN conf.services
  BY <1>1 DEF StartInv, BuiltAs
<1>4. \A k \in DOMAIN built :
         /\ k \in DOMAIN doc.services
         /\ built[k].kind \in Kinds
  BY <1>1, RunsFromFile
<1>5. \A k \in DOMAIN built :
         /\ built[k].kind = "vhost" => Unbuilt("proxy") = {}
         /\ built[k].kind = "files" => Unbuilt("proxy") \cup Unbuilt("vhost") = {}
  BY <1>1 DEF StartInv, BuiltAs
<1>6. DOMAIN tree \subseteq DOMAIN Tree
  BY <1>1 DEF TreeInv
<1>7. \A g \in Gets : get[g].pc \in {"new", "read", "done"} /\ get[g].status \in {0, 200, 404, 502}
  BY <1>1 DEF Files, FileOk
<1>8. QED
  BY <1>1, <1>2, <1>3, <1>4, <1>5, <1>6, <1>7 DEF TypeOK, Types, Asked

\* What was validated starts.
LEMMA InvVetted ==
    ASSUME StartInv
    PROVE  ValidatedStarts
  BY DEF StartInv, Vetted, ValidatedStarts

\* The invariant holds in every state of a process, from its first load on.
THEOREM Invariant == Spec => []IInv
  BY InitIInv, NextIInv, PTL DEF Spec

\* Types hold, services come up kind by kind in the order of main(), and a
\* request is served by a service that runs.
THEOREM ServerTypeCorrect == Spec => []TypeOK
<1>1. IInv => TypeOK
  BY InvTypeOK
<1>2. QED
  BY <1>1, Invariant, PTL

\* Whatever the document, its format and the command line: TLS is spoken on
\* exactly the listeners for which the file asks for it.
THEOREM TlsExactlyAsWritten == Spec => []TlsAsWritten
<1>1. IInv => TlsAsWritten
  BY InvTls DEF IInv
<1>2. QED
  BY <1>1, Invariant, PTL

\* A basic proxy from a KDL file has all rules, connectors, filters of known blocks
\* and the selection that are written: the front end refuses what it does not know.
THEOREM KdlDropsNothing == Spec => []NothingDropped
<1>1. IInv => NothingDropped
  BY InvNothingDropped DEF IInv
<1>2. QED
  BY <1>1, Invariant, PTL

\* A start that --validate-configs went through is not refused, as long as the
\* certificate files stay.
THEOREM ValidationHolds == Spec => []ValidatedStarts
<1>1. IInv => ValidatedStarts
  BY InvVetted DEF IInv
<1>2. QED
  BY <1>1, Invariant, PTL

\* A VHost that runs routes exactly the well-named domains, each with upstreams,
\* with a default certificate that was loaded, however files changed meanwhile.
THEOREM VHostsAreReady == Spec => []VHostReady
<1>1. IInv => VHostReady
  BY InvVHostReady DEF IInv
<1>2. QED
  BY <1>1, Invariant, PTL

\* For every tree, base path and request path: what is sent is the file asked
\* for, and 404 means that there is none.
THEOREM FilesServedAsAsked == Spec => []FilesAsAsked
<1>1. IInv => FilesAsAsked
  BY DEF IInv
<1>2. QED
  BY <1>1, Invariant, PTL

\* The key of a hashing selection decides alone, for any number of requests,
\* services and retries.
THEOREM SelectionsStick == Spec => []Sticky
<1>1. IInv => Sticky
  BY InvSticky DEF IInv
<1>2. QED
  BY <1>1, Invariant, PTL
=============================================================================
