------------------------------- MODULE AutoSsl -------------------------------
(***************************************************************************)
(* Automatic TLS of a VHost proxy: VHostProxyService::new (load, install   *)
(* and subscribe at start), the ACME manager that obtains certificates,    *)
(* the listener thread that reloads them into the TLS layer, and the       *)
(* handshakes, across crashes of the process                               *)
(* (proxy/vhost/service.rs, proxy/mod.rs stryvo_vhost_service).            *)
(***************************************************************************)
EXTENDS AcmeManager, CertificateManager

CONSTANTS
    MaxDay,      \* bound: days that pass
    MaxCrashes   \* bound: crashes of the process

ASSUME AutoSslBounds == MaxDay \in Nat /\ MaxCrashes \in Nat

VARIABLES
    crashes    \* crashes so far

vars == <<day, files, acmeVars, certVars, phase, crashes>>

-----------------------------------------------------------------------------
(* Start.                                                                  *)

\* VHostProxyService::new: CertificateManager::new, add_pending_domains and
\* initialize, on a runtime of its own.
Start ==
    /\ phase = "down"
    /\ phase' = "loading"
    /\ Initialize
    /\ New
    /\ UNCHANGED <<day, account, authorized, orders, failures, crashes>>

\* Mutant: certificates found on disk are not installed.
EagerInstall_Skipped == {}

\* The certificates that initialize loaded and that can be installed.
EagerInstall == {d \in DOMAIN managed : LoadsAcceptor(d)}

\* They are installed, then the service subscribes to certificate events.
Subscribe ==
    /\ phase = "loading"
    /\ phase' = "starting"
    /\ InstallAll(EagerInstall)
    /\ UNCHANGED <<day, files, acmeVars, crashes>>

\* stryvo_vhost_service spawns the thread of the startup acquisition, as the
\* last thing before it returns.
Spawn ==
    /\ phase = "starting"
    /\ phase' = "built"
    /\ task' = [task EXCEPT !["startup"] = Asleep(day)]
    /\ UNCHANGED <<day, files, managed, pending, challenges, events, account, authorized,
                   orders, failures, certVars, crashes>>

\* It returns: its runtime is dropped, which cancels the daily task at an await,
\* and the server runs its listeners.
Serve ==
    /\ phase = "built"
    /\ AtAwait
    /\ phase' = "serving"
    /\ task' = [task EXCEPT !["renewal"] = Ended]
    /\ UNCHANGED <<day, files, managed, pending, challenges, events, account, authorized,
                   orders, failures, certVars, crashes>>

\* The listener thread: events are taken in order, one reload at a time.
Receive ==
    /\ reload.pc = "idle"
    /\ events # <<>>
    /\ events' = Tail(events)
    /\ reload' = [NoReload EXCEPT !.pc = "load", !.dom = Head(events)]
    /\ UNCHANGED <<day, files, managed, pending, challenges, task, account,
                   authorized, orders, failures, certificates, tlsReal, intermediates,
                   locks, shake, phase, crashes>>

Crash ==
    /\ phase # "down"
    /\ crashes < MaxCrashes
    /\ crashes' = crashes + 1
    /\ phase' = "down"
    /\ managed' = [d \in {} |-> None]
    /\ pending' = {}
    /\ challenges' = {}
    /\ events' = <<>>
    /\ task' = [t \in Tasks |-> Ended]
    /\ certificates' = [d \in Domains |-> Bootstrap]
    /\ tlsReal' = {}
    /\ intermediates' = [d \in Domains |-> {}]
    /\ locks' = {}
    /\ reload' = NoReload
    /\ shake' = [c \in Clients |-> NoShake]
    /\ UNCHANGED <<day, files, account, authorized, orders, failures>>

Tick ==
    /\ day < MaxDay
    /\ day' = day + 1
    /\ UNCHANGED <<files, acmeVars, certVars, phase, crashes>>

-----------------------------------------------------------------------------
Init ==
    /\ day = 0
    /\ files = [d \in Domains |-> [key |-> None, crt |-> None]]
    /\ managed = [d \in {} |-> None]
    /\ pending = {}
    /\ challenges = {}
    /\ events = <<>>
    /\ task = [t \in Tasks |-> Ended]
    /\ account = [d \in Domains |-> None]
    /\ authorized = {}
    /\ orders = 0
    /\ failures = 0
    /\ certificates = [d \in Domains |-> Bootstrap]
    /\ tlsReal = {}
    /\ intermediates = [d \in Domains |-> {}]
    /\ locks = {}
    /\ reload = NoReload
    /\ shake = [c \in Clients |-> NoShake]
    /\ phase = "down"
    /\ crashes = 0

Acme == (Startup \/ Daily) /\ UNCHANGED <<certVars, phase, crashes>>
Tls == Reload /\ UNCHANGED <<acmeVars, phase, crashes>>
Connect ==
    /\ phase = "serving"
    /\ \E c \in Clients : Handshake(c)
    /\ UNCHANGED <<acmeVars, phase, crashes>>

Next == Start \/ Subscribe \/ Spawn \/ Serve \/ Acme \/ Receive \/ Tls \/ Connect \/ Crash \/ Tick

Spec == Init /\ [][Next]_vars

\* The process is started again, its threads run, and days pass.
FairSpec ==
    /\ Spec
    /\ WF_vars(Start) /\ WF_vars(Subscribe) /\ WF_vars(Spawn) /\ WF_vars(Serve)
    /\ WF_vars(Startup /\ UNCHANGED <<certVars, phase, crashes>>)
    /\ WF_vars(Daily /\ UNCHANGED <<certVars, phase, crashes>>)
    /\ WF_vars(Receive) /\ WF_vars(Tls)
    /\ WF_vars(Tick)

-----------------------------------------------------------------------------
(* Properties.                                                             *)

TaskSteps == {"sleep", "next", "renew", "order", "validate", "finalize", "key_open",
              "key_write", "download", "crt_open", "crt_write", "install", "ended"}

TaskSet == [pc : TaskSteps, back : {"next", "renew"}, since : Nat, todo : SUBSET Domains,
            dom : Domains \cup {None}, order : Nat, cert : Certificates \cup {None}]

\* A task that works on a domain has one.
TaskOK(r) ==
    /\ r \in TaskSet
    /\ r.pc \notin {"sleep", "next", "renew", "ended"} => r.dom \in Domains

FilesOK == files \in [Domains -> [key : Nat \cup {None, Torn},
                                  crt : Certificates \cup {None, Torn}]]

ManagedOK ==
    /\ DOMAIN managed \subseteq Domains
    /\ \A d \in DOMAIN managed : managed[d] \in Certificates

TasksOK ==
    /\ task = [t \in Tasks |-> task[t]]
    /\ \A t \in Tasks : TaskOK(task[t])

EventsOK == events \in Seq(Domains) /\ Len(events) <= Capacity

ReloadOK ==
    /\ reload \in [pc : {"idle", "load", "swap", "config", "chain", "release"},
                   dom : Domains \cup {None}, acceptor : Acceptors \cup {None}]
    /\ reload.pc # "idle" => reload.dom \in Domains
    /\ reload.pc \notin {"idle", "load"} => reload.acceptor \in Acceptors

ShakesOK ==
    /\ shake \in [Clients -> [pc : {"idle", "chain", "done"}, dom : Domains \cup {None},
                              acceptor : Acceptors \cup {None, Bootstrap, Default},
                              chain : SUBSET Domains]]
    /\ \A c \in Clients : shake[c].pc # "idle" => shake[c].dom \in Domains

\* Files, maps, tasks and handshakes hold values of their kind, and the channel
\* no more than its capacity; a task or a reload that works on a domain has one,
\* and what is managed is a certificate, although it is read back from a file.
TypeOK ==
    /\ day \in Nat /\ orders \in Nat /\ failures \in Nat /\ crashes \in Nat
    /\ phase \in {"down", "loading", "starting", "built", "serving"}
    /\ pending \subseteq Domains /\ authorized \subseteq Domains
    /\ challenges \subseteq Nat
    /\ account \in [Domains -> Certificates \cup {None}]
    /\ FilesOK /\ ManagedOK /\ TasksOK /\ EventsOK
    /\ certificates \in [Domains -> Acceptors \cup {Bootstrap}]
    /\ tlsReal \subseteq Domains
    /\ intermediates \in [Domains -> SUBSET Domains]
    /\ locks \subseteq {"certificates", "tls_configs"}
    /\ ReloadOK /\ ShakesOK

Real(d) == certificates[d] # Bootstrap

Working(r) == r.pc \notin {"sleep", "ended"}

IsPairOf(acceptor, d) ==
    acceptor.cert.dom = d /\ acceptor.key = acceptor.cert.key

\* An acceptor in use for a domain, or in a handshake that asked for it, has a
\* certificate of that domain and the private key that belongs to it, although
\* the .key file is overwritten before the new .crt file is downloaded and
\* written, and although handshakes go on during a reload.
KeyPairMatches ==
    /\ \A d \in Domains : Real(d) => IsPairOf(certificates[d], d)
    /\ \A c \in Clients :
          shake[c].acceptor \notin {None, Bootstrap, Default} =>
              IsPairOf(shake[c].acceptor, shake[c].dom)

\* While the process runs, no certificate in use is replaced by one that
\* expires earlier, nor by the bootstrap certificate.
NeverDowngraded ==
    [][phase # "down" /\ phase' # "down" =>
          \A d \in Domains : Real(d) =>
              /\ Real(d)'
              /\ certificates'[d].cert.exp >= certificates[d].cert.exp]_vars

\* From some point on every handshake is presented its domain's own
\* certificate, whenever the process crashed: between the .key and the .crt
\* file, in the middle of a write, or before the listener reloaded it; a
\* reload, during which handshakes get the default certificate, ends.  This is
\* what run_startup_acquisition_after brings about, on two conditions that the
\* code does not see to: its 5 seconds are enough for the listeners to come up
\* (a validation that fails is not tried again), and no start goes on over
\* midnight (the daily check would take the pending domains, and is cancelled
\* with the runtime it runs on).
EventuallyServed ==
    (/\ [](Working(task["startup"]) => phase = "serving")
     /\ []~Working(task["renewal"]))
        => \A d \in Domains : <>[](Presented(d) \notin {Bootstrap, Default})

\* A certificate that comes near its end is replaced while the process runs
\* (when another midnight follows within the bound).
RenewedInTime ==
    \A d \in Domains :
        (Real(d) /\ NeedsRenewal(certificates[d].cert) /\ day < MaxDay)
            ~> (Real(d) /\ ~NeedsRenewal(certificates[d].cert))

-----------------------------------------------------------------------------
(* The inductive invariant of TypeOK, KeyPairMatches and NeverDowngraded.  *)

Busy(r) == r.pc \notin {"sleep", "next", "renew", "ended"}

\* A task that has domains to get a first certificate for, or is at one.
HasFirst(r) == (Busy(r) /\ r.back = "next") \/ (r.pc = "next" /\ r.todo # {})

\* The startup task is spawned when the daily one may still run.  The pending
\* domains go to the one of them that drains first, the other has managed
\* domains only: never do both work on a domain.
TasksApart ==
    /\ phase \in {"down", "loading", "starting"} => task["startup"].pc = "ended"
    /\ phase \in {"down", "serving"} => task["renewal"].pc = "ended"
    /\ \A t \in Tasks : Working(task[t]) => pending = {}
    /\ ~(HasFirst(task["startup"]) /\ HasFirst(task["renewal"]))
    /\ Busy(task["startup"]) => task["startup"].dom \notin DOMAIN managed
    /\ task["startup"].pc # "renew" /\ task["startup"].back = "next"
    /\ task["renewal"].back = "renew" =>
          /\ task["renewal"].todo \subseteq DOMAIN managed
          /\ Busy(task["renewal"]) => task["renewal"].dom \in DOMAIN managed
    /\ task["renewal"].pc \in {"sleep", "next", "ended"} => task["renewal"].back = "next"
    /\ task["renewal"].pc = "renew" => task["renewal"].back = "renew"

\* Before the service subscribes, nothing was sent and nothing is installed.
Unsubscribed ==
    phase \in {"down", "loading"} =>
        events = <<>> /\ reload.pc = "idle" /\ \A d \in Domains : ~Real(d)

\* No certificate expires later than one made today.
Made(cert) == cert.exp <= day + Lifetime

\* A domain's files, acceptor and account entry are its own, and what is in
\* use does not expire later than what is on disk.
DomainGood(d) ==
    /\ Parses(d) => files[d].crt.dom = d /\ Made(files[d].crt)
    /\ account[d] # None => account[d].dom = d /\ Made(account[d])
    /\ Real(d) => IsPairOf(certificates[d], d) /\ Made(certificates[d].cert)
    /\ Real(d) /\ Parses(d) => certificates[d].cert.exp <= files[d].crt.exp

\* An acceptor about to be swapped in lies between the one in use and the files.
ReloadGood ==
    reload.pc = "swap" =>
        LET d == reload.dom
            cert == reload.acceptor.cert
        IN  /\ IsPairOf(reload.acceptor, d) /\ Made(cert)
            /\ Real(d) => certificates[d].cert.exp <= cert.exp
            /\ Parses(d) => cert.exp <= files[d].crt.exp

\* Nothing of domain d expires later than cert.
Newest(cert, d) ==
    /\ Parses(d) => files[d].crt.exp <= cert.exp
    /\ Real(d) => certificates[d].cert.exp <= cert.exp
    /\ reload.pc = "swap" /\ reload.dom = d => reload.acceptor.cert.exp <= cert.exp

\* A certificate on its way into the files is the domain's own and the newest.
TaskGood(r) ==
    /\ r.pc \in {"key_open", "key_write", "download"} =>
          /\ r.cert \in Certificates /\ r.cert.dom = r.dom
          /\ Made(r.cert) /\ Newest(r.cert, r.dom)
    /\ r.pc \in {"crt_open", "crt_write"} =>
          account[r.dom] \in Certificates /\ Newest(account[r.dom], r.dom)
    /\ r.pc = "install" => Parses(r.dom)

ShakeGood(c) ==
    shake[c].acceptor \notin {None, Bootstrap, Default} =>
        IsPairOf(shake[c].acceptor, shake[c].dom)

IInv ==
    /\ TypeOK
    /\ TasksApart /\ Unsubscribed
    /\ \A d \in Domains : DomainGood(d)
    /\ ReloadGood
    /\ \A t \in Tasks : TaskGood(task[t])
    /\ \A c \in Clients : ShakeGood(c)
=============================================================================
