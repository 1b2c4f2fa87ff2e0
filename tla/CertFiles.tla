------------------------------ MODULE CertFiles ------------------------------
(***************************************************************************)
(* The certificate directory of the ACME manager, shared by the manager    *)
(* that writes it (AcmeManager) and the TLS layer that reads it            *)
(* (CertificateManager): for every auto-SSL domain a .key and a .crt file  *)
(* (acme/certificate.rs, CertificateManager::load_ssl_acceptor).           *)
(*                                                                         *)
(* A private key is the number of the order it was made for.  A            *)
(* certificate names its domain, its key, the day it expires, and rest:    *)
(* the certificates that follow the leaf in its .crt file.                 *)
(***************************************************************************)
EXTENDS Naturals, Sequences, FiniteSets

CONSTANTS
    Domains,      \* configured domains with auto_ssl
    RenewalDays,  \* AcmeConfig.renewal_days
    None,         \* no file, no value
    Torn          \* a file that was truncated and not written

ASSUME RenewalAssumption == RenewalDays \in Nat

Certificates == [dom : Domains, key : Nat, exp : Nat, rest : SUBSET Domains]

ASSUME FileValueAssumption ==
    /\ None # Torn
    /\ {None, Torn} \cap Nat = {} /\ {None, Torn} \cap Certificates = {}

VARIABLES
    day,     \* Utc::now(), in days
    files    \* files[d].key and files[d].crt

\* A certificate of rest = {} is followed by nothing.
Certificate(d, key, exp, rest) == [dom |-> d, key |-> key, exp |-> exp, rest |-> rest]

\* X509::from_pem succeeds on the .crt file of d.
Parses(d) == files[d].crt \notin {None, Torn}

\* CertificateInfo::from_files: the .key file has to exist, it is not read.
FromFilesOk(d) == Parses(d) /\ files[d].key # None

\* from_files fails on a .crt file that is there.
Invalid(d) == files[d].crt # None /\ ~FromFilesOk(d)

\* needs_renewal.  A certificate that had expired when it was read is not
\* is_valid; it also lies under the threshold.
NeedsRenewal(cert) == cert.exp <= day + RenewalDays

\* Mutant: the key is not checked against the certificate.
LoadsAcceptor_Unchecked(d) == Parses(d) /\ files[d].key # None

\* load_ssl_acceptor of explicit paths: both files exist, parse, and
\* check_private_key agrees.
LoadsAcceptor(d) == Parses(d) /\ files[d].key = files[d].crt.key

\* What an SslAcceptor presents.
Acceptor(cert, key) == [cert |-> cert, key |-> key]

Acceptors == [cert : Certificates, key : Nat]
=============================================================================
