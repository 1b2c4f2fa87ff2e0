-------------------------- MODULE CertificateManager --------------------------
(***************************************************************************)
(* CertificateManager (proxy/vhost/certificate_manager.rs): the acceptors, *)
(* TLS configurations and intermediate certificates per domain, each map   *)
(* behind a lock of its own; hot reload of one domain; and the SNI         *)
(* callback of TLS handshakes, which reads the three maps one after the    *)
(* other with try_read.                                                    *)
(***************************************************************************)
EXTENDS CertFiles

CONSTANTS
    Clients,     \* connections in a TLS handshake
    Bootstrap,   \* the self-signed acceptor of an auto-SSL domain
    Default      \* the acceptor of the default domain

\* None of these is an acceptor made from files.
ASSUME AcceptorAssumption == {None, Bootstrap, Default} \cap Acceptors = {}

VARIABLES
    certificates,   \* domain -> acceptor
    tlsReal,        \* tls_configs: domains whose entry names the real files
    intermediates,  \* domain -> cached chain, {} when there is none
    locks,          \* maps held by the writer
    reload,         \* the reload in progress
    shake           \* the handshake of each client

certVars == <<certificates, tlsReal, intermediates, locks, reload, shake>>

NoReload == [pc |-> "idle", dom |-> None, acceptor |-> None]
NoShake == [pc |-> "idle", dom |-> None, acceptor |-> None, chain |-> {}]

\* CertificateManager::new gives every auto-SSL domain the bootstrap acceptor
\* and no chain.
New ==
    /\ certificates' = [d \in Domains |-> Bootstrap]
    /\ tlsReal' = {}
    /\ intermediates' = [d \in Domains |-> {}]
    /\ locks' = {}
    /\ reload' = NoReload
    /\ shake' = [c \in Clients |-> NoShake]

\* The service reloads the domains in installed before anybody else can see
\* the maps.
InstallAll(installed) ==
    /\ certificates' = [d \in Domains |-> IF d \in installed
                                          THEN Acceptor(files[d].crt, files[d].key)
                                          ELSE certificates[d]]
    /\ tlsReal' = installed
    /\ intermediates' = [d \in Domains |-> IF d \in installed
                                           THEN files[d].crt.rest ELSE {}]
    /\ UNCHANGED <<locks, reload, shake>>

-----------------------------------------------------------------------------
(* reload_domain_certificate_with_paths, called for domain d.  The lock on *)
(* certificates is held to the end, the one on tls_configs too.            *)

\* Mutant: the reload falls back to the bootstrap acceptor.
ReloadLoad_Bootstrap ==
    /\ reload.pc = "load"
    /\ reload' = [reload EXCEPT !.pc = "swap", !.acceptor = Bootstrap]
    /\ UNCHANGED <<day, files, certificates, tlsReal, intermediates, locks, shake>>

\* The acceptor is built from the files; when that fails nothing is changed.
ReloadLoad ==
    /\ reload.pc = "load"
    /\ reload' = IF LoadsAcceptor(reload.dom)
                 THEN [reload EXCEPT !.pc = "swap",
                          !.acceptor = Acceptor(files[reload.dom].crt, files[reload.dom].key)]
                 ELSE NoReload
    /\ UNCHANGED <<day, files, certificates, tlsReal, intermediates, locks, shake>>

ReloadSwap ==
    /\ reload.pc = "swap"
    /\ locks' = locks \cup {"certificates"}
    /\ certificates' = [certificates EXCEPT ![reload.dom] = reload.acceptor]
    /\ reload' = [reload EXCEPT !.pc = "config"]
    /\ UNCHANGED <<day, files, tlsReal, intermediates, shake>>

ReloadConfig ==
    /\ reload.pc = "config"
    /\ locks' = locks \cup {"tls_configs"}
    /\ tlsReal' = tlsReal \cup {reload.dom}
    /\ reload' = [reload EXCEPT !.pc = "chain"]
    /\ UNCHANGED <<day, files, certificates, intermediates, shake>>

\* What follows the leaf in the .crt file of d.
ChainInFile(d) == IF Parses(d) THEN files[d].crt.rest ELSE {}

ReloadChain ==
    /\ reload.pc = "chain"
    /\ intermediates' = [intermediates EXCEPT ![reload.dom] = ChainInFile(reload.dom)]
    /\ reload' = [reload EXCEPT !.pc = "release"]
    /\ UNCHANGED <<day, files, certificates, tlsReal, locks, shake>>

ReloadRelease ==
    /\ reload.pc = "release"
    /\ locks' = {}
    /\ reload' = NoReload
    /\ UNCHANGED <<day, files, certificates, tlsReal, intermediates, shake>>

Reload == ReloadLoad \/ ReloadSwap \/ ReloadConfig \/ ReloadChain \/ ReloadRelease

-----------------------------------------------------------------------------
(* certificate_callback, for a client that asks for domain d.              *)

\* get_certificate_sync: a map that is being written counts as one without
\* the domain, and the default certificate stands in.
Presented(d) == IF "certificates" \in locks THEN Default ELSE certificates[d]

ShakeCertificate(c, d) ==
    /\ shake[c].pc = "idle"
    /\ shake' = [shake EXCEPT ![c] =
                    [@ EXCEPT !.pc = "chain", !.dom = d, !.acceptor = Presented(d)]]
    /\ UNCHANGED <<day, files, certificates, tlsReal, intermediates, locks, reload>>

\* The cached chain of the domain, or what follows the leaf in its .crt file;
\* also when the certificate is the default one.
\* (domain_intermediates is locked within one step of the reload only.)
ShakeChain(c) ==
    /\ shake[c].pc = "chain"
    /\ LET d == shake[c].dom
           fromFile == "tls_configs" \notin locks /\ d \in tlsReal
       IN  shake' = [shake EXCEPT ![c] =
                        [@ EXCEPT !.pc = "done",
                                  !.chain = IF intermediates[d] # {} THEN intermediates[d]
                                            ELSE IF fromFile THEN ChainInFile(d) ELSE {}]]
    /\ UNCHANGED <<day, files, certificates, tlsReal, intermediates, locks, reload>>

ShakeEnd(c) ==
    /\ shake[c].pc = "done"
    /\ shake' = [shake EXCEPT ![c] = NoShake]
    /\ UNCHANGED <<day, files, certificates, tlsReal, intermediates, locks, reload>>

Handshake(c) ==
    (\E d \in Domains : ShakeCertificate(c, d)) \/ ShakeChain(c) \/ ShakeEnd(c)
=============================================================================
