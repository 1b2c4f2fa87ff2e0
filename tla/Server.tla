------------------------------- MODULE Server -------------------------------
(***************************************************************************)
(* The process from its start to the requests that its basic proxies and   *)
(* file servers answer: ServerStart with FileServer and UpstreamSelection, *)
(* which work with the settings that the start gave to the services.       *)
(***************************************************************************)
EXTENDS ServerStart, FileServer, UpstreamSelection

vars == <<startVars, fileVars, selectVars>>

Init == StartInit /\ FileInit /\ SelectInit

\* The services of a kind that run.
Serving(kind) == {k \in DOMAIN built : stage = "running" /\ built[k].kind = kind}

StartStep == StartNext /\ UNCHANGED <<fileVars, selectVars>>

FileStep ==
    /\ \/ \E k \in Serving("files"), g \in Gets, uri \in Uris : Ask(g, built[k].base, uri)
       \/ \E g \in Gets : ServeFile(g)
       \/ Serving("files") # {} /\ \E p \in DOMAIN tree : RemoveFile(p)
    /\ UNCHANGED <<startVars, selectVars>>

ProxyStep ==
    /\ \E r \in Requests :
          \/ \E k \in Serving("proxy"), path \in Paths, addr \in Addrs : RequestFilter(r, k, path, addr)
          \/ \E k \in Serving("proxy") :
                /\ req[r].svc = k
                /\ \/ UpstreamPeer(r, built[k].options, built[k].backends)
                   \/ NoBackend(r, built[k].backends)
          \/ PeerAgain(r)
    /\ UNCHANGED <<startVars, fileVars>>

Next == StartStep \/ FileStep \/ ProxyStep

Spec == Init /\ [][Next]_vars

-----------------------------------------------------------------------------
(* Properties.                                                             *)

\* Types; services come up kind by kind, a request is served by one that runs.
TypeOK ==
    /\ cli \in CliType
    /\ disk \in [CertFiles -> {"good", "bad", "missing"}]
    /\ changes \in 0..MaxChanges /\ vetted \in {"yes", "no"}
    /\ stage \in {"load", "layer", "validate", "build", "tested", "running", "refused"}
    /\ DOMAIN built \subseteq DOMAIN conf.services
    /\ \A k \in DOMAIN built :
          /\ k \in DOMAIN doc.services
          /\ built[k].kind \in Kinds
          /\ built[k].kind = "vhost" => Unbuilt("proxy") = {}
          /\ built[k].kind = "files" => Unbuilt("proxy") \cup Unbuilt("vhost") = {}
    /\ DOMAIN tree \subseteq DOMAIN Tree
    /\ \A g \in Gets : get[g].pc \in {"new", "read", "done"} /\ get[g].status \in {0, 200, 404, 502}
    /\ req \in [Requests -> ReqType(DOMAIN doc.services)]
    /\ \A r \in Requests : req[r].pc # "new" => req[r].svc \in Serving("proxy")

\* With a hashing selection the key that the file names decides alone: all
\* requests for a path go to one backend, in any order and when pingora asks
\* again, and without a key (YAML) all requests do.  It does not hold for
\* SourceAddrAndUriPath, whose key begins with what request_filter left in the
\* buffer.
Sticky ==
    \A p, q \in picked :
        LET o == built[p.svc].options
        IN  (/\ p.svc = q.svc
             /\ o.selection \in HashSelections
             /\ \/ o.selector = "UriPath" /\ p.path = q.path
                \/ o.selector = "null")
            => p.backend = q.backend
=============================================================================
