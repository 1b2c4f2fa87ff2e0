--------------------------- MODULE RequestPipeline ---------------------------
(***************************************************************************)
(* The path of a request through a proxy: cache lookup, refusals, upstream *)
(* exchange, response header and body filters, and the store of what was   *)
(* collected (proxy/pipeline.rs, proxy/header_utils.rs, compression.rs,    *)
(* the ProxyHttp implementations of proxy/mod.rs and vhost/service.rs).    *)
(*                                                                         *)
(* The cache is used through its promise (module ResponseCache): a lookup  *)
(* may always miss, a hit has the header of one stored response and the    *)
(* body of the same or a later one, all stored under the key asked for.    *)
(*                                                                         *)
(* A chunk of a body names its response and its place; coding is how the   *)
(* upstream encoded it.  An answer is sent in pieces, each of them a stream *)
(* of its own when the proxy compressed it.  Types of responses are        *)
(* compressible.                                                           *)
(***************************************************************************)
EXTENDS Naturals, Sequences, SequencesExt

CONSTANTS
    Requests,      \* requests in progress
    Keys,          \* cache keys
    Challenge,     \* the key of an ACME challenge path, or none of Keys
    Codings,       \* codings that clients ask for and upstreams use
    Identity,      \* no coding, a member of Codings
    Sizes,         \* sizes of chunks
    MinSize,       \* ClientCompression::compress leaves smaller data alone (150)
    MaxFileSize,   \* max_file_size of the cache
    MaxChunks,     \* bound: chunks of a response
    MaxFetches,    \* bound: upstream exchanges
    BrowserCache,  \* browser_cache_enabled
    UpstreamFields,\* names of other header fields that upstreams send
    Modifiers,     \* the response modifiers of a basic proxy, in order
    None           \* no value

ASSUME PipelineAssumption ==
    /\ Identity \in Codings
    /\ Sizes \subseteq Nat \ {0} /\ MinSize \in Nat /\ MaxFileSize \in Nat
    /\ MaxChunks \in Nat /\ MaxFetches \in Nat
    /\ BrowserCache \in BOOLEAN
    /\ \A i \in DOMAIN Modifiers : Modifiers[i].kind \in {"remove", "upsert"}

VARIABLES
    vhost,     \* the proxy is a VHostProxyService, not a StryvoProxyService
    ctx,       \* StryvoContext of every request, and where it is
    fetched,   \* history: the upstream responses so far
    spawned,   \* put_cache tasks that were spawned and have not run
    stored     \* what put_cache stored, in order

vars == <<vhost, ctx, fetched, spawned, stored>>

-----------------------------------------------------------------------------
(* Headers: status, cache-control and content-encoding, and whose values   *)
(* each of the other fields has.                                           *)

\* The other fields as the upstream sends them.
AsSent == [name \in UpstreamFields |-> {"upstream"}]

Header(status, control, coding) ==
    [status |-> status, control |-> control, coding |-> coding, fields |-> AsSent]

Chunk(n, i, size, coding) == [rsp |-> n, place |-> i, size |-> size, coding |-> coding]

SizeOf(body) == SumFunction([i \in DOMAIN body |-> body[i].size])

\* RemoveHeaderKeyRegex takes out the names that match, UpsertHeader adds or
\* replaces one, append_header adds a value.
RemoveHeaderKeyRegex(fields, names) == [name \in DOMAIN fields \ names |-> fields[name]]

UpsertHeader(fields, names) ==
    [name \in DOMAIN fields \cup names |-> IF name \in names THEN {"proxy"} ELSE fields[name]]

AppendHeader(fields, new) ==
    [name \in DOMAIN fields \cup {new} |->
        IF name # new THEN fields[name]
        ELSE (IF new \in DOMAIN fields THEN fields[new] ELSE {}) \cup {"proxy"}]

CacheFields(fields, browser) ==
    LET replaced == UpsertHeader(fields, {"server", "x-cache"})
    IN  IF browser THEN replaced ELSE AppendHeader(replaced, "pragma")

\* set_cache_headers: server, x-cache and cache-control are replaced whatever
\* they were.
SetCacheHeaders(header, browser) ==
    [header EXCEPT !.control = IF browser THEN "public" ELSE "no-store",
                   !.fields = CacheFields(header.fields, browser)]

\* compress leaves such data alone.
TooSmall(size) == size < MinSize

\* ClientCompression::compress: what it is given becomes one complete stream.
Compress(body, coding) ==
    [body |-> body, coding |-> IF TooSmall(SizeOf(body)) THEN Identity ELSE coding]

\* update_compression_headers announces a coding, unless it is none.
UpdateCompressionHeaders(header, coding) ==
    IF coding = Identity THEN header ELSE [header EXCEPT !.coding = coding]

\* select_encoding and should_compress: the client's coding, unless the
\* upstream used one already.
SelectEncoding(header, accept) == IF header.coding = Identity THEN accept ELSE Identity

Modified(fields) ==
    FoldLeft(LAMBDA f, m : IF m.kind = "remove" THEN RemoveHeaderKeyRegex(f, m.names)
                           ELSE UpsertHeader(f, m.names),
             fields, Modifiers)

\* process_response_filters; a VHost proxy has no modifiers.
ProcessResponseFilters(header) ==
    [header EXCEPT !.fields = IF vhost THEN header.fields ELSE Modified(header.fields)]

\* new_ctx.  The VHost context never learns of browser_cache_enabled.
NewCtx == [pc |-> "new", key |-> None, accept |-> Identity, status |-> None,
           shouldCache |-> FALSE, header |-> None, body |-> <<>>, coding |-> Identity,
           rsp |-> 0, todo |-> <<>>, sent |-> None, out |-> <<>>]

\* The context of a request that was given up, with what was collected.
Dropped(pc) == [NewCtx EXCEPT !.pc = pc]

\* Mutant: the setting is not copied into the context.
CtxBrowserCache_Unset == FALSE

CtxBrowserCache == BrowserCache /\ ~vhost

-----------------------------------------------------------------------------
(* request_filter.                                                         *)

\* A VHost proxy answers challenge paths by itself, before the cache.
AnswerChallenge(r) ==
    /\ vhost
    /\ ctx[r].pc = "new"
    /\ ctx' = [ctx EXCEPT ![r] = [@ EXCEPT !.pc = "answered", !.key = Challenge]]
    /\ UNCHANGED <<vhost, fetched, spawned, stored>>

StoredFor(k) == {n \in DOMAIN stored : stored[n].key = k}

\* Mutant: bodies are returned as they are stored.
Decoded_Raw(body) == body

\* get_cache finds out how a body is encoded from its first bytes.
Decoded(body) == [i \in DOMAIN body |-> [body[i] EXCEPT !.coding = Identity]]

\* A hit, with a header and a body.  The answer is sent at once.
LookupHit(r, k, accept) ==
    /\ ctx[r].pc = "new"
    /\ vhost => k # Challenge
    /\ \E h, b \in StoredFor(k) :
          /\ h <= b
          /\ ctx' = [ctx EXCEPT ![r] =
                [@ EXCEPT !.pc = "answered", !.key = k, !.accept = accept, !.status = "HIT",
                    !.sent = SetCacheHeaders(
                        UpdateCompressionHeaders([stored[h].header EXCEPT !.coding = Identity],
                                                 accept),
                        CtxBrowserCache),
                    !.out = <<Compress(Decoded(stored[b].body), accept)>>]]
    /\ UNCHANGED <<vhost, fetched, spawned, stored>>

\* The key is that of the request, should_cache_response is set for any of them.
LookupMiss(r, k, accept) ==
    /\ ctx[r].pc = "new"
    /\ vhost => k # Challenge
    /\ ctx' = [ctx EXCEPT ![r] =
                  [@ EXCEPT !.pc = IF vhost THEN "peer" ELSE "filters", !.key = k,
                            !.accept = accept, !.status = "MISS", !.shouldCache = TRUE]]
    /\ UNCHANGED <<vhost, fetched, spawned, stored>>

\* Rate limiting, then request filters: 429, 401 or an error.
Refuse(r) ==
    /\ ctx[r].pc = "filters"
    /\ ctx' = [ctx EXCEPT ![r] = Dropped("refused")]
    /\ UNCHANGED <<vhost, fetched, spawned, stored>>

Admit(r) ==
    /\ ctx[r].pc = "filters"
    /\ ctx' = [ctx EXCEPT ![r].pc = "peer"]
    /\ UNCHANGED <<vhost, fetched, spawned, stored>>

-----------------------------------------------------------------------------
(* Upstream exchange.                                                      *)

\* fail_to_connect: the error is not marked for a retry.
FailToConnect(r) ==
    /\ ctx[r].pc = "peer"
    /\ ctx' = [ctx EXCEPT ![r] = Dropped("failed")]
    /\ UNCHANGED <<vhost, fetched, spawned, stored>>

\* error_while_proxy.
ErrorWhileProxy(r) ==
    /\ ctx[r].pc = "body"
    /\ ctx' = [ctx EXCEPT ![r] = Dropped("failed")]
    /\ UNCHANGED <<vhost, fetched, spawned, stored>>

Bodies(n, coding) ==
    {[i \in DOMAIN sizes |-> Chunk(n, i, sizes[i], coding)] : sizes \in BoundedSeq(Sizes, MaxChunks)}

\* Mutant: the header is taken after its cache-control was replaced.
KeptHeader_After(up, shown) == IF up.status = 200 THEN shown ELSE None

\* process_cache_status keeps the header the upstream sent, of a 200 only; a
\* VHost proxy then keeps, of any response, the header the client is shown.
KeptHeader(up, shown) ==
    IF vhost THEN shown ELSE IF up.status = 200 THEN up ELSE None

\* Header filter: process_cache_status, process_compression_setup, modifiers.
ResponseHeader(r, status, control, coding) ==
    /\ ctx[r].pc = "peer"
    /\ Len(fetched) < MaxFetches
    /\ \E body \in Bodies(Len(fetched) + 1, coding) :
          LET up == Header(status, control, coding)
              chosen == SelectEncoding(up, ctx[r].accept)
              shown == ProcessResponseFilters(
                           UpdateCompressionHeaders(SetCacheHeaders(up, BrowserCache), chosen))
          IN  /\ ctx' = [ctx EXCEPT ![r] =
                            [@ EXCEPT !.pc = "body", !.rsp = Len(fetched) + 1, !.todo = body,
                                      !.coding = chosen, !.sent = shown,
                                      !.header = KeptHeader(up, shown)]]
              /\ fetched' = Append(fetched, [key |-> ctx[r].key, header |-> up, body |-> body])
    /\ UNCHANGED <<vhost, spawned, stored>>

\* Mutant: what was collected is stored with every chunk.
AtEnd_Always(eof) == TRUE

AtEnd(eof) == eof

\* What is collected of a response, before compression.
Collected(c, chunks) == IF c.shouldCache THEN c.body \o chunks ELSE c.body

\* The task that stores it, with a header that names no coding.
PutTask(c, body) ==
    [key |-> c.key, body |-> body, header |-> [c.header EXCEPT !.coding = Identity]]

\* Body filter, with the next chunk or, at the end, without.  At the end what
\* was collected is handed to a task, and the context is reset.
BodyFilter(r, eof) ==
    /\ ctx[r].pc = "body"
    /\ eof => Len(ctx[r].todo) <= 1
    /\ ~eof => ctx[r].todo # <<>>
    /\ LET c == ctx[r]
           now == IF c.todo = <<>> THEN <<>> ELSE <<Head(c.todo)>>
           body == Collected(c, now)
           store == AtEnd(eof) /\ c.shouldCache /\ c.header # None /\ body # <<>>
       IN  /\ ctx' = [ctx EXCEPT ![r] =
                 [@ EXCEPT !.pc = IF eof THEN "answered" ELSE "body",
                           !.todo = IF now = <<>> THEN c.todo ELSE Tail(c.todo),
                           !.body = IF eof THEN <<>> ELSE body,
                           !.shouldCache = c.shouldCache /\ ~eof,
                           !.header = IF eof THEN None ELSE c.header,
                           !.out = c.out \o [i \in DOMAIN now |->
                                               Compress(<<now[i]>>, c.coding)]]]
           /\ spawned' = IF store THEN spawned \cup {PutTask(c, body)} ELSE spawned
    /\ UNCHANGED <<vhost, fetched, stored>>

\* The spawned put_cache.
PutCache(p) ==
    /\ spawned' = spawned \ {p}
    /\ stored' = IF SizeOf(p.body) > MaxFileSize \/ p.header.control = "no-store"
                 THEN stored ELSE Append(stored, p)
    /\ UNCHANGED <<vhost, ctx, fetched>>

\* The connection takes another request.
NextRequest(r) ==
    /\ ctx[r].pc \in {"answered", "refused", "failed"}
    /\ ctx' = [ctx EXCEPT ![r] = NewCtx]
    /\ UNCHANGED <<vhost, fetched, spawned, stored>>

-----------------------------------------------------------------------------
Init ==
    /\ vhost \in BOOLEAN
    /\ ctx = [r \in Requests |-> NewCtx]
    /\ fetched = <<>>
    /\ spawned = {}
    /\ stored = <<>>

RequestFilter(r) ==
    \/ AnswerChallenge(r)
    \/ \E k \in Keys, accept \in Codings : LookupHit(r, k, accept) \/ LookupMiss(r, k, accept)
    \/ Refuse(r) \/ Admit(r)

Exchange(r) ==
    \/ FailToConnect(r) \/ ErrorWhileProxy(r)
    \/ \E status \in {200, 404}, control \in {"public", "no-store"}, coding \in Codings :
          ResponseHeader(r, status, control, coding)
    \/ \E eof \in BOOLEAN : BodyFilter(r, eof)

Next ==
    \/ \E r \in Requests : RequestFilter(r) \/ Exchange(r) \/ NextRequest(r)
    \/ \E p \in spawned : PutCache(p)

Spec == Init /\ [][Next]_vars

-----------------------------------------------------------------------------
(* Properties.                                                             *)

\* The fields that are kept of a header: a basic proxy keeps them as the upstream
\* sent them, a VHost proxy after set_cache_headers.
KeptFields(header) ==
    IF vhost THEN SetCacheHeaders(header, BrowserCache).fields ELSE header.fields

\* What is stored is the complete body of one response that was fetched for
\* the key it is stored under, whichever exchanges broke off meanwhile, with
\* the header fields of that response, before the modifiers.
StoredWhole ==
    \A n \in DOMAIN stored :
        \E m \in DOMAIN fetched :
            /\ fetched[m].key = stored[n].key
            /\ fetched[m].body = stored[n].body
            /\ KeptFields(fetched[m].header) = stored[n].header.fields

\* The upstream response that stored entry n was made from.
Source(n) == fetched[stored[n].body[1].rsp]

\* Nothing is stored that the upstream sent with no-store, although the
\* client is shown another cache-control.
NoStoreHonoured == \A n \in DOMAIN stored : Source(n).header.control # "no-store"

\* A basic proxy stores successful responses only, none with no-store: the
\* decision is made of the header as it was before it was changed for the
\* client.
OnlyStorableStored ==
    ~vhost => NoStoreHonoured /\ \A n \in DOMAIN stored : Source(n).header.status = 200

\* The coding that an answer was to be compressed with.
Chosen(c) == IF c.status = "HIT" THEN c.accept ELSE c.coding

\* The chunks that an answer carries.
Carried(c) == IF c.status = "HIT" THEN c.out[1].body ELSE [i \in DOMAIN c.out |-> c.out[i].body[1]]

\* A client that decodes one stream can read the answer: the bytes are in the
\* coding the header names, as they came from the upstream or as one stream of
\* the proxy's.
Decodable(c) ==
    LET In(coding) == \A i \in DOMAIN Carried(c) : Carried(c)[i].coding = coding
    IN  \/ In(c.sent.coding) /\ \A n \in DOMAIN c.out : c.out[n].coding = Identity
        \/ In(Identity) /\ Len(c.out) = 1 /\ c.out[1].coding = c.sent.coding

\* A finished answer, from the cache or from the upstream, carries the body of
\* one whole response that was fetched for the key asked for.  It is decodable
\* when nothing was to be compressed, or when what was came in one piece that is
\* not too small: body chunks are compressed one by one.
AnswerReadable ==
    \A r \in Requests :
        ctx[r].pc = "answered" /\ ctx[r].sent # None =>
            LET c == ctx[r]
                onePiece == Len(c.out) = 1 /\ ~TooSmall(SizeOf(c.out[1].body))
            IN  /\ \E m \in DOMAIN fetched :
                      fetched[m].key = c.key /\ Decoded(Carried(c)) = Decoded(fetched[m].body)
                /\ Chosen(c) = Identity \/ onePiece => Decodable(c)

\* A basic proxy tells browsers the same of a hit, which is answered from the
\* context, and of a miss, which is answered from the configuration.
BrowserToldAlike ==
    \A r \in Requests :
        ~vhost /\ ctx[r].pc = "answered" /\ ctx[r].sent # None =>
            (ctx[r].sent.control = "public") = BrowserCache

-----------------------------------------------------------------------------
(* The inductive invariant of the four properties.                         *)

Chunks == [rsp : Nat, place : Nat, size : Sizes, coding : Codings]
Pieces == [body : Seq(Chunks), coding : Codings]

\* The fields that set_cache_headers makes of the upstream's.
Told == CacheFields(AsSent, BrowserCache)
HitFields == {CacheFields(fields, browser) : fields \in {AsSent, Told}, browser \in BOOLEAN}

HeadersWith(fields) == [status : {200, 404}, control : {"public", "no-store"},
                        coding : Codings, fields : fields]
UpHeaders == HeadersWith({AsSent})
KeptHeaders == HeadersWith({AsSent, Told})
ShownHeaders == HeadersWith({Told, Modified(Told)} \cup HitFields)

CtxSet ==
    [pc : {"new", "filters", "peer", "body", "answered", "refused", "failed"},
     key : Keys \cup {None, Challenge}, accept : Codings, status : {None, "HIT", "MISS"},
     shouldCache : BOOLEAN, header : KeptHeaders \cup {None}, body : Seq(Chunks),
     coding : Codings, rsp : Nat, todo : Seq(Chunks), sent : ShownHeaders \cup {None},
     out : Seq(Pieces)]

FetchSet == [key : Keys, header : UpHeaders, body : Seq(Chunks)]
PutSet == [key : Keys, body : Seq(Chunks), header : KeptHeaders]

TypeOK ==
    /\ vhost \in BOOLEAN
    /\ ctx \in [Requests -> CtxSet]
    /\ fetched \in Seq(FetchSet)
    /\ spawned \subseteq PutSet
    /\ stored \in Seq(PutSet)

\* The chunks of a response know whose they are and how they are encoded.
FetchGood ==
    \A m \in DOMAIN fetched : \A i \in DOMAIN fetched[m].body :
        /\ fetched[m].body[i].rsp = m
        /\ fetched[m].body[i].coding = fetched[m].header.coding

\* What was sent so far of response f: its first chunks, each compressed alone.
OutGood(c, f, n) ==
    /\ DOMAIN c.out = 1 .. n
    /\ \A i \in 1 .. n : c.out[i] = Compress(<<f.body[i]>>, c.coding)
    /\ c.sent.coding = IF c.coding = Identity THEN f.header.coding ELSE c.coding
    /\ c.coding # Identity => f.header.coding = Identity

ToldGood(c) == (c.sent.control = "public") = BrowserCache

\* A context in the middle of response f: what was collected and what is to
\* come are its body, and the header kept is the one that process_cache_status
\* and the header filter left.
Exchanging(c, f) ==
    /\ f.key = c.key
    /\ f.body = c.body \o c.todo
    /\ c.sent \in ShownHeaders /\ (vhost => c.sent.fields = Told)
    /\ c.header = KeptHeader(f.header, c.sent)
    /\ c.status = "MISS" /\ OutGood(c, f, Len(c.body)) /\ ToldGood(c)

\* An answer from response f: its chunks in one piece, or what was sent of it.
AnswerGood(c, f) ==
    /\ f.key = c.key
    /\ IF c.status = "HIT"
       THEN c.out = <<Compress(Decoded(f.body), c.accept)>> /\ c.sent.coding = c.accept
       ELSE OutGood(c, f, Len(f.body))

CtxGood(c) ==
    /\ c.pc = "new" => c = NewCtx
    /\ c.pc \in {"filters", "peer", "body"} => c.key \in Keys /\ c.shouldCache
    /\ c.pc \in {"filters", "peer"} => c.body = <<>> /\ c.out = <<>> /\ c.status = "MISS"
    /\ c.pc = "body" => c.rsp \in DOMAIN fetched /\ Exchanging(c, fetched[c.rsp])
    /\ c.pc = "answered" /\ c.sent # None =>
          /\ ~vhost => ToldGood(c)
          /\ \E m \in DOMAIN fetched : AnswerGood(c, fetched[m])

\* What is to be stored is a whole response, of a basic proxy a successful
\* one with its own cache-control.
PutGood(p) ==
    \E m \in DOMAIN fetched :
        LET f == fetched[m]
        IN  /\ f.key = p.key /\ f.body = p.body /\ f.body # <<>>
            /\ p.header.fields = IF vhost THEN Told ELSE AsSent
            /\ ~vhost => f.header.status = 200 /\ p.header.control = f.header.control

IInv ==
    /\ TypeOK
    /\ FetchGood
    /\ \A r \in Requests : CtxGood(ctx[r])
    /\ \A p \in spawned : PutGood(p)
    /\ \A n \in DOMAIN stored : PutGood(stored[n]) /\ stored[n].header.control # "no-store"
=============================================================================
