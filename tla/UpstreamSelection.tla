-------------------------- MODULE UpstreamSelection --------------------------
(***************************************************************************)
(* Which backend of a basic proxy a request goes to (request_filter and    *)
(* upstream_peer of proxy/mod.rs, request_selector.rs).                    *)
(*                                                                         *)
(* The balancer belongs to pingora-load-balancing: a hashing one sends the *)
(* same key to the same backend, and which that is, is chosen the first    *)
(* time a key is seen; the others choose any.                              *)
(***************************************************************************)
EXTENDS Naturals, Sequences

CONSTANTS
    Requests,      \* requests of basic proxies
    Paths,         \* their URI paths
    Addrs,         \* client addresses
    Nanos,         \* what elapsed() may say
    MaxTries       \* bound: calls of upstream_peer for one request

VARIABLES
    req,       \* of every request: [pc, svc, path, addr, buf, tries]
    owner,     \* backend of every <<service, key>> seen
    picked     \* history: [svc, path, addr, backend] of every selection

\* A request of one of the given services, or of none yet.
ReqType(services) ==
    [pc : {"new", "peer", "sent", "failed"}, svc : services \cup {0},
     path : {<<>>} \cup {<<p>> : p \in Paths}, addr : {<<>>} \cup {<<a>> : a \in Addrs},
     buf : {<<>>} \cup {<<n>> : n \in Nanos}, tries : Nat]

selectVars == <<req, owner, picked>>

SelectInit ==
    /\ req = [r \in Requests |-> [pc |-> "new", svc |-> 0, path |-> <<>>, addr |-> <<>>,
                                  buf |-> <<>>, tries |-> 0]]
    /\ owner = <<>>
    /\ picked = {}

\* request_filter: the time since the line before goes into the selector buffer.
RequestFilter(r, svc, path, addr) ==
    /\ req[r].pc = "new"
    /\ \E nanos \in Nanos :
          req' = [req EXCEPT ![r] = [pc |-> "peer", svc |-> svc, path |-> <<path>>,
                                     addr |-> <<addr>>, buf |-> <<nanos>>,
                                     tries |-> req[r].tries]]
    /\ UNCHANGED <<owner, picked>>

\* Mutant: the path is written behind what is in the buffer.
Key_Buffered(selector, q) ==
    CASE selector = "null" -> <<>>
      [] selector = "UriPath" -> q.buf \o q.path
      [] selector = "SourceAddrAndUriPath" -> q.buf \o q.addr \o q.path

\* null_selector, uri_path_selector, source_addr_and_uri_path_selector.  Only the
\* last one writes into the buffer, and appends.
Key(selector, q) ==
    CASE selector = "null" -> <<>>
      [] selector = "UriPath" -> q.path
      [] selector = "SourceAddrAndUriPath" -> q.buf \o q.addr \o q.path

\* upstream_peer: select and clear the buffer.
UpstreamPeer(r, options, backends) ==
    /\ req[r].pc = "peer"
    /\ LET key == <<req[r].svc, Key(options.selector, req[r])>>
           hashing == options.selection \in {"FNV", "Ketama"}
       IN  \E b \in backends :
              /\ hashing /\ key \in DOMAIN owner => b = owner[key]
              /\ owner' = IF hashing THEN [k \in DOMAIN owner \cup {key} |->
                                              IF k = key THEN b ELSE owner[k]]
                                     ELSE owner
              /\ picked' = picked \cup {[svc |-> req[r].svc, path |-> req[r].path,
                                            addr |-> req[r].addr, backend |-> b]}
    /\ req' = [req EXCEPT ![r] = [pc |-> "sent", svc |-> req[r].svc, path |-> req[r].path,
                                  addr |-> req[r].addr, buf |-> <<>>, tries |-> req[r].tries + 1]]

\* select finds nothing: the request fails.
NoBackend(r, backends) ==
    /\ req[r].pc = "peer"
    /\ backends = {}
    /\ req' = [req EXCEPT ![r].pc = "failed"]
    /\ UNCHANGED <<owner, picked>>

\* pingora asks again when a reused connection turns out to be closed.
PeerAgain(r) ==
    /\ req[r].pc = "sent"
    /\ req[r].tries < MaxTries
    /\ req' = [req EXCEPT ![r].pc = "peer"]
    /\ UNCHANGED <<owner, picked>>
=============================================================================
