------------------------ MODULE RequestPipelineProofs ------------------------
(***************************************************************************)
(* Proofs about RequestPipeline: for any requests, keys, codings, sizes    *)
(* and modifiers, what is stored is a whole response that may be stored,   *)
(* and clients are told what they get.                                     *)
(***************************************************************************)
EXTENDS RequestPipeline, SequenceTheorems, TLAPS

-----------------------------------------------------------------------------
(* Sequences.                                                              *)

\* Moving the head of what is to come to the end of what was collected.
LEMMA MoveHead ==
    ASSUME NEW S, NEW s \in Seq(S), NEW t \in Seq(S), t # <<>>
    PROVE  /\ (s \o <<Head(t)>>) \o Tail(t) = s \o t
           /\ s \o <<Head(t)>> \in Seq(S) /\ Tail(t) \in Seq(S)
           /\ Len(t) <= 1 => t = <<Head(t)>>
<1>1. Head(t) \in S /\ Tail(t) \in Seq(S) /\ <<Head(t)>> \in Seq(S) /\ Len(t) \in Nat \ {0}
  BY HeadTailProperties, EmptySeq
<1>2. <<Head(t)>> \o Tail(t) = t
  <2>1. /\ <<Head(t)>> \o Tail(t) \in Seq(S)
        /\ Len(<<Head(t)>> \o Tail(t)) = Len(t)
    BY <1>1, HeadTailProperties, ConcatProperties
  <2>2. ASSUME NEW i \in 1..Len(t) PROVE (<<Head(t)>> \o Tail(t))[i] = t[i]
    BY <1>1
  <2>3. QED
    BY <2>1, <2>2, SeqEqual
<1>3. (s \o <<Head(t)>>) \o Tail(t) = s \o t
  BY <1>1, <1>2, ConcatAssociative
<1>4. ASSUME Len(t) <= 1 PROVE t = <<Head(t)>>
  <2>0. Head(t) = t[1]
    BY EmptySeq, LenProperties, HeadTailProperties
  <2>1. Len(t) = 1
    <3>1. Len(t) \in Nat \ {0}
      BY <1>1
    <3>2. \A n \in Nat \ {0} : n <= 1 => n = 1
      OBVIOUS
    <3>3. QED
      BY <1>4, <3>1, <3>2, Zenon
  <2>2. Len(<<Head(t)>>) = 1 /\ <<Head(t)>>[1] = Head(t)
    OBVIOUS
  <2>3. QED
    BY <1>1, <2>0, <2>1, <2>2, SeqEqual
<1>5. QED
  BY <1>1, <1>3, <1>4, ConcatProperties

\* Where what is to come begins.
LEMMA HeadInConcat ==
    ASSUME NEW S, NEW s \in Seq(S), NEW t \in Seq(S), t # <<>>
    PROVE  /\ Head(t) \in S
           /\ Len(s) + 1 \in DOMAIN (s \o t) /\ (s \o t)[Len(s) + 1] = Head(t)
<1>1. Len(s) \in Nat /\ Len(t) \in Nat \ {0} /\ Head(t) = t[1] /\ Head(t) \in S
  BY EmptySeq, LenProperties, HeadTailProperties
<1>2. Len(s \o t) = Len(s) + Len(t) /\ s \o t \in Seq(S)
      /\ \A i \in 1 .. Len(s) + Len(t) : (s \o t)[i] = IF i <= Len(s) THEN s[i] ELSE t[i - Len(s)]
  BY ConcatProperties
<1>3. Len(s) + 1 \in 1..Len(s) + Len(t) /\ Len(s) + 1 - Len(s) = 1 /\ ~(Len(s) + 1 <= Len(s))
  BY <1>1
<1>4. QED
  BY <1>1, <1>2, <1>3, LenProperties

-----------------------------------------------------------------------------
(* Frames: what stays good when responses are added.                       *)

Extended ==
    /\ vhost' = vhost
    /\ DOMAIN fetched \subseteq DOMAIN fetched'
    /\ \A m \in DOMAIN fetched : fetched'[m] = fetched[m]

\* A context and a task to store do not care about later responses.
LEMMA StaysGood ==
    ASSUME Extended
    PROVE  /\ \A c : CtxGood(c) => CtxGood(c)'
           /\ \A p : PutGood(p) => PutGood(p)'
<1>1. ASSUME NEW c, CtxGood(c) PROVE CtxGood(c)'
  <2>1. \A m \in DOMAIN fetched : AnswerGood(c, fetched[m]) => AnswerGood(c, fetched[m])'
    BY DEF Extended, AnswerGood, OutGood
  <2>2. \A m \in DOMAIN fetched : Exchanging(c, fetched[m]) => Exchanging(c, fetched[m])'
    BY DEF Extended, Exchanging, OutGood, ToldGood, KeptHeader
  <2>3. QED
    BY <1>1, <2>1, <2>2 DEF Extended, CtxGood, ToldGood
<1>2. ASSUME NEW p, PutGood(p) PROVE PutGood(p)'
  BY <1>2 DEF Extended, PutGood
<1>3. QED
  BY <1>1, <1>2

\* A step that gives one request a good context and stores nothing.
LEMMA CtxMoves ==
    ASSUME IInv, Extended, fetched' \in Seq(FetchSet), FetchGood',
           NEW r \in Requests, NEW c \in CtxSet, ctx' = [ctx EXCEPT ![r] = c], CtxGood(c)',
           spawned' \subseteq PutSet, \A p \in spawned' : p \in spawned \/ PutGood(p),
           UNCHANGED stored
    PROVE  IInv'
<1>1. /\ TypeOK /\ \A u \in Requests : CtxGood(ctx[u])
      /\ \A p \in spawned : PutGood(p)
      /\ \A n \in DOMAIN stored : PutGood(stored[n]) /\ stored[n].header.control # "no-store"
  BY DEF IInv
<1>2. TypeOK'
  BY <1>1 DEF TypeOK, Extended
<1>3. ASSUME NEW u \in Requests PROVE CtxGood(ctx[u])'
  <2>1. CASE u = r
    <3>1. ctx'[u] = c
      BY <1>1, <2>1 DEF TypeOK
    <3>2. QED
      BY <3>1
  <2>2. CASE u # r
    <3>1. PICK b : b = ctx[u]
      OBVIOUS
    <3>2. CtxGood(b)' /\ ctx'[u] = b
      BY <1>1, <2>2, <3>1, StaysGood DEF TypeOK
    <3>3. QED
      BY <3>2
  <2>3. QED
    BY <2>1, <2>2
<1>4. \A p \in spawned' : PutGood(p)'
  BY <1>1, StaysGood
<1>5. ASSUME NEW n \in DOMAIN stored'
      PROVE  PutGood(stored[n])' /\ stored'[n].header.control # "no-store"
  <2>1. PICK p : p = stored[n]
    OBVIOUS
  <2>2. PutGood(p)' /\ stored'[n] = p /\ p.header.control # "no-store"
    BY <1>1, <2>1, StaysGood
  <2>3. QED
    BY <2>2 DEF PutGood
<1>6. QED
  BY <1>2, <1>3, <1>4, <1>5 DEF IInv

\* A step of one request that changes nothing but its context.
LEMMA OwnCtx ==
    ASSUME IInv, NEW r \in Requests, NEW c \in CtxSet, ctx' = [ctx EXCEPT ![r] = c], CtxGood(c),
           UNCHANGED <<vhost, fetched, spawned, stored>>
    PROVE  IInv'
<1>1. TypeOK /\ FetchGood
  BY DEF IInv
<1>2. Extended
  BY DEF Extended
<1>3. CtxGood(c)' /\ FetchGood'
  BY <1>1, <1>2, StaysGood DEF FetchGood
<1>4. fetched' \in Seq(FetchSet) /\ spawned' \subseteq PutSet
  BY <1>1 DEF TypeOK
<1>5. QED
  BY <1>2, <1>3, <1>4, CtxMoves

-----------------------------------------------------------------------------
(* The steps.                                                              *)

\* A new context is good.
LEMMA NewGood == NewCtx \in CtxSet /\ CtxGood(NewCtx)
<1>1. NewCtx \in CtxSet
  BY EmptySeq, PipelineAssumption DEF NewCtx, CtxSet
<1>2. CtxGood(NewCtx)
  BY DEF NewCtx, CtxGood
<1>3. QED
  BY <1>1, <1>2

\* At first there are new contexts only.
LEMMA InitGood == Init => IInv
<1> SUFFICES ASSUME Init PROVE IInv
  OBVIOUS
<1>1. TypeOK
  BY NewGood, EmptySeq DEF Init, TypeOK
<1>2. FetchGood /\ \A n \in DOMAIN stored : FALSE
  BY DEF Init, FetchGood
<1>3. \A r \in Requests : CtxGood(ctx[r])
  BY NewGood DEF Init
<1>4. QED
  BY <1>1, <1>2, <1>3 DEF IInv, Init

\* Steps that end a request, begin one, or refuse it.
LEMMA PlainStep ==
    ASSUME IInv, NEW r \in Requests,
           \/ AnswerChallenge(r) \/ Refuse(r) \/ Admit(r) \/ FailToConnect(r)
           \/ ErrorWhileProxy(r) \/ NextRequest(r)
           \/ \E k \in Keys, accept \in Codings : LookupMiss(r, k, accept)
    PROVE  IInv'
<1>1. TypeOK /\ ctx[r] \in CtxSet /\ CtxGood(ctx[r])
  BY DEF IInv, TypeOK
<1>2. CASE AnswerChallenge(r)
  <2>1. PICK c : c = [ctx[r] EXCEPT !.pc = "answered", !.key = Challenge]
    OBVIOUS
  <2>2. ctx[r].sent = None
    BY <1>1, <1>2 DEF CtxGood, AnswerChallenge, NewCtx
  <2>3. c \in CtxSet /\ c.pc = "answered" /\ c.sent = None
    BY <1>1, <2>1, <2>2 DEF CtxSet
  <2>4. CtxGood(c)
    BY <2>3 DEF CtxGood
  <2>5. QED
    BY <1>2, <2>1, <2>3, <2>4, OwnCtx DEF AnswerChallenge
<1>3. CASE Refuse(r) \/ FailToConnect(r) \/ ErrorWhileProxy(r)
  <2>1. PICK pc \in {"refused", "failed"} :
            ctx' = [ctx EXCEPT ![r] = Dropped(pc)] /\ UNCHANGED <<vhost, fetched, spawned, stored>>
    BY <1>3 DEF Refuse, FailToConnect, ErrorWhileProxy
  <2>2. Dropped(pc) \in CtxSet /\ Dropped(pc).pc = pc
    BY NewGood DEF Dropped, NewCtx, CtxSet
  <2>3. CtxGood(Dropped(pc))
    BY <2>1, <2>2 DEF CtxGood
  <2>4. QED
    BY <2>1, <2>2, <2>3, OwnCtx
<1>4. CASE Admit(r)
  <2>1. PICK c : c = [ctx[r] EXCEPT !.pc = "peer"]
    OBVIOUS
  <2>2. /\ c \in CtxSet /\ c.pc = "peer" /\ ctx' = [ctx EXCEPT ![r] = c]
        /\ c.key = ctx[r].key /\ c.shouldCache = ctx[r].shouldCache
        /\ c.body = ctx[r].body /\ c.out = ctx[r].out /\ c.status = ctx[r].status
    BY <1>1, <1>4, <2>1 DEF CtxSet, Admit
  <2>3. CtxGood(c)
    BY <1>1, <1>4, <2>2 DEF CtxGood, Admit
  <2>4. QED
    BY <1>4, <2>2, <2>3, OwnCtx DEF Admit
<1>5. CASE NextRequest(r)
  BY <1>5, NewGood, OwnCtx DEF NextRequest
<1>6. ASSUME NEW k \in Keys, NEW accept \in Codings, LookupMiss(r, k, accept) PROVE IInv'
  <2>1. PICK c : c = [ctx[r] EXCEPT !.pc = IF vhost THEN "peer" ELSE "filters", !.key = k,
                            !.accept = accept, !.status = "MISS", !.shouldCache = TRUE]
    OBVIOUS
  <2>a. ctx[r] = NewCtx
    BY <1>1, <1>6 DEF CtxGood, LookupMiss
  <2>2. ctx[r].body = <<>> /\ ctx[r].out = <<>>
    BY <2>a DEF NewCtx
  <2>3. /\ c \in CtxSet /\ c.pc \in {"peer", "filters"} /\ ctx' = [ctx EXCEPT ![r] = c]
        /\ c.key \in Keys /\ c.shouldCache = TRUE
        /\ c.body = <<>> /\ c.out = <<>> /\ c.status = "MISS"
    BY <1>1, <1>6, <2>1, <2>2 DEF CtxSet, LookupMiss
  <2>4. CtxGood(c)
    BY <2>3 DEF CtxGood
  <2>5. QED
    BY <1>6, <2>3, <2>4, OwnCtx DEF LookupMiss
<1>7. QED
  BY <1>2, <1>3, <1>4, <1>5, <1>6

\* set_cache_headers, of the fields as they were sent or as they were told.
LEMMA CacheHeaders ==
    ASSUME NEW header \in KeptHeaders, NEW browser \in BOOLEAN
    PROVE  LET told == SetCacheHeaders(header, browser)
           IN  /\ told \in [status : {200, 404}, control : {"public", "no-store"},
                            coding : Codings, fields : HitFields]
               /\ told.status = header.status /\ told.coding = header.coding
               /\ told.fields = CacheFields(header.fields, browser)
               /\ told.control = IF browser THEN "public" ELSE "no-store"
<1>1. PICK told : told = SetCacheHeaders(header, browser)
  OBVIOUS
<1>2. header.fields \in {AsSent, Told}
  BY DEF KeptHeaders, HeadersWith
<1>3. PICK fields : fields = CacheFields(header.fields, browser)
  OBVIOUS
<1>4. fields \in HitFields
  BY <1>2, <1>3 DEF HitFields
<1>5. told = [header EXCEPT !.control = IF browser THEN "public" ELSE "no-store",
                            !.fields = fields]
  BY <1>1, <1>3 DEF SetCacheHeaders
<1>6. header \in [status : {200, 404}, control : {"public", "no-store"},
                   coding : Codings, fields : {AsSent, Told}]
  BY DEF KeptHeaders, HeadersWith
<1>7. PICK control \in {"public", "no-store"} :
          control = IF browser THEN "public" ELSE "no-store"
  OBVIOUS
<1>8. /\ told \in [status : {200, 404}, control : {"public", "no-store"},
                   coding : Codings, fields : HitFields]
      /\ told.status = header.status /\ told.coding = header.coding
      /\ told.fields = fields /\ told.control = control
  BY <1>4, <1>5, <1>6, <1>7
<1>9. QED
  BY <1>1, <1>3, <1>7, <1>8, Zenon

\* A body that get_cache decoded is one of chunks without a coding.
LEMMA DecodedBody ==
    ASSUME NEW body \in Seq(Chunks)
    PROVE  /\ Decoded(body) \in Seq(Chunks) /\ DOMAIN Decoded(body) = DOMAIN body
           /\ \A i \in DOMAIN body :
                 /\ Decoded(body)[i] = [body[i] EXCEPT !.coding = Identity]
                 /\ Decoded(body)[i].coding = Identity
<1>1. DOMAIN body = 1..Len(body) /\ Len(body) \in Nat
  BY LenProperties
<1>2. Decoded(body) = [i \in 1..Len(body) |-> [body[i] EXCEPT !.coding = Identity]]
  BY <1>1 DEF Decoded
<1>3. \A i \in 1..Len(body) : /\ [body[i] EXCEPT !.coding = Identity] \in Chunks
                              /\ [body[i] EXCEPT !.coding = Identity].coding = Identity
  <2>1. \A i \in 1..Len(body) : body[i] \in Chunks
    BY <1>1, ElementOfSeq
  <2>2. QED
    BY <2>1, PipelineAssumption DEF Chunks
<1>4. Decoded(body) \in [1..Len(body) -> Chunks]
  BY <1>2, <1>3
<1>5. QED
  BY <1>1, <1>2, <1>3, <1>4, SeqDef

\* What compress makes of a sequence of chunks is a piece.
LEMMA CompressedPiece ==
    ASSUME NEW body \in Seq(Chunks), NEW coding \in Codings
    PROVE  /\ Compress(body, coding) \in Pieces /\ Compress(body, coding).body = body
           /\ coding = Identity => Compress(body, coding).coding = Identity
           /\ ~TooSmall(SizeOf(body)) => Compress(body, coding).coding = coding
BY PipelineAssumption DEF Compress, Pieces

\* A hit is the body of one response for the key, in one piece, and browsers are
\* told the setting.
LEMMA HitStep ==
    ASSUME IInv, NEW r \in Requests, NEW k \in Keys, NEW accept \in Codings,
           LookupHit(r, k, accept)
    PROVE  IInv'
<1> DEFINE HitSent(h) == SetCacheHeaders(
               UpdateCompressionHeaders([stored[h].header EXCEPT !.coding = Identity], accept),
               CtxBrowserCache)
<1>1. TypeOK /\ ctx[r] \in CtxSet /\ CtxGood(ctx[r]) /\ stored \in Seq(PutSet)
  BY DEF IInv, TypeOK
<1>2. PICK h \in DOMAIN stored, b \in DOMAIN stored :
          /\ stored[b].key = k
          /\ ctx' = [ctx EXCEPT ![r] =
                    [@ EXCEPT !.pc = "answered", !.key = k, !.accept = accept, !.status = "HIT",
                              !.sent = HitSent(h),
                              !.out = <<Compress(Decoded(stored[b].body), accept)>>]]
  BY DEF LookupHit, StoredFor
<1> HIDE DEF HitSent
<1>a. stored[h] \in PutSet /\ stored[b] \in PutSet
  BY <1>1, ElementOfSeq, LenProperties
<1>3. PICK sent : sent = HitSent(h)
  OBVIOUS
<1>4. /\ sent \in ShownHeaders /\ sent.coding = accept
      /\ ~vhost => (sent.control = "public") = BrowserCache
  <2>1. stored[h].header \in KeptHeaders
    BY <1>a DEF PutSet
  <2>2. PICK plain : plain = [stored[h].header EXCEPT !.coding = Identity]
    OBVIOUS
  <2>3. plain \in KeptHeaders /\ plain.coding = Identity
    BY <2>1, <2>2, PipelineAssumption DEF KeptHeaders, HeadersWith
  <2>4. PICK header : header = UpdateCompressionHeaders(plain, accept)
    OBVIOUS
  <2>5. header \in KeptHeaders /\ header.coding = accept
    BY <2>3, <2>4 DEF UpdateCompressionHeaders, KeptHeaders, HeadersWith
  <2>6. sent = SetCacheHeaders(header, CtxBrowserCache)
    BY <1>3, <2>2, <2>4 DEF HitSent
  <2>7. CtxBrowserCache \in BOOLEAN /\ (~vhost => CtxBrowserCache = BrowserCache)
    BY PipelineAssumption DEF CtxBrowserCache
  <2>8. /\ sent \in [status : {200, 404}, control : {"public", "no-store"},
                     coding : Codings, fields : HitFields]
        /\ sent.coding = accept
        /\ sent.control = IF CtxBrowserCache THEN "public" ELSE "no-store"
    BY <2>5, <2>6, <2>7, CacheHeaders
  <2>9. sent \in ShownHeaders
    BY <2>8 DEF ShownHeaders, HeadersWith
  <2>10. QED
    BY <2>7, <2>8, <2>9, PipelineAssumption
<1>5. PICK body : body = stored[b].body
  OBVIOUS
<1>6. body \in Seq(Chunks) /\ Decoded(body) \in Seq(Chunks)
  BY <1>a, <1>5, DecodedBody DEF PutSet
<1>7. PICK piece : piece = Compress(Decoded(body), accept)
  OBVIOUS
<1>8. <<piece>> \in Seq(Pieces)
  BY <1>6, <1>7, CompressedPiece
<1>9. PICK m \in DOMAIN fetched : fetched[m].key = k /\ fetched[m].body = body
  BY <1>2, <1>5 DEF IInv, PutGood
<1>11. PICK c : c = [ctx[r] EXCEPT !.pc = "answered", !.key = k, !.accept = accept,
                                   !.status = "HIT", !.sent = sent, !.out = <<piece>>]
  OBVIOUS
<1>12. /\ c \in CtxSet /\ c.pc = "answered" /\ c.status = "HIT" /\ c.sent = sent
       /\ c.out = <<piece>> /\ c.key = k /\ c.accept = accept
       /\ ctx' = [ctx EXCEPT ![r] = c]
  BY <1>1, <1>2, <1>3, <1>4, <1>5, <1>7, <1>8, <1>11 DEF CtxSet
<1>13. AnswerGood(c, fetched[m])
  BY <1>4, <1>7, <1>9, <1>12 DEF AnswerGood
<1>14. CtxGood(c)
  BY <1>4, <1>12, <1>13 DEF CtxGood, ToldGood
<1>15. QED
  BY <1>12, <1>14, OwnCtx DEF LookupHit

\* The header that the client is shown, for the header up of the upstream.
LEMMA ShownGood ==
    ASSUME TypeOK, NEW up \in UpHeaders, NEW chosen \in Codings
    PROVE  LET shown == ProcessResponseFilters(
                            UpdateCompressionHeaders(SetCacheHeaders(up, BrowserCache), chosen))
           IN  /\ shown \in ShownHeaders /\ (vhost => shown.fields = Told)
               /\ shown.coding = IF chosen = Identity THEN up.coding ELSE chosen
               /\ (shown.control = "public") = BrowserCache
<1>1. PICK told : told = SetCacheHeaders(up, BrowserCache)
  OBVIOUS
<1>0. up \in KeptHeaders /\ up.fields = AsSent
  BY DEF UpHeaders, KeptHeaders, HeadersWith
<1>2. /\ told \in HeadersWith({Told}) /\ told.fields = Told /\ told.coding = up.coding
      /\ (told.control = "public") = BrowserCache
  <2>1. /\ told \in [status : {200, 404}, control : {"public", "no-store"},
                     coding : Codings, fields : HitFields]
        /\ told.coding = up.coding /\ told.fields = CacheFields(AsSent, BrowserCache)
        /\ told.control = IF BrowserCache THEN "public" ELSE "no-store"
    BY <1>0, <1>1, CacheHeaders, PipelineAssumption
  <2>2. told.fields = Told
    BY <2>1 DEF Told
  <2>3. QED
    BY <2>1, <2>2, PipelineAssumption DEF HeadersWith
<1>3. PICK coded : coded = UpdateCompressionHeaders(told, chosen)
  OBVIOUS
<1>4. /\ coded \in HeadersWith({Told}) /\ coded.control = told.control /\ coded.fields = Told
      /\ coded.coding = IF chosen = Identity THEN up.coding ELSE chosen
  BY <1>2, <1>3 DEF UpdateCompressionHeaders, HeadersWith
<1>5. PICK shown : shown = ProcessResponseFilters(coded)
  OBVIOUS
<1>7. shown = [coded EXCEPT !.fields = IF vhost THEN Told ELSE Modified(Told)]
  BY <1>4, <1>5 DEF ProcessResponseFilters
<1>8. /\ shown \in ShownHeaders /\ (vhost => shown.fields = Told)
      /\ shown.coding = coded.coding /\ shown.control = coded.control
  BY <1>4, <1>7 DEF ShownHeaders, HeadersWith
<1>9. QED
  BY <1>1, <1>2, <1>3, <1>4, <1>5, <1>8

\* A response arrives: its chunks are its own.
LEMMA HeaderStep ==
    ASSUME IInv, NEW r \in Requests, NEW status \in {200, 404},
           NEW control \in {"public", "no-store"}, NEW coding \in Codings,
           ResponseHeader(r, status, control, coding)
    PROVE  IInv'
<1>1. /\ TypeOK /\ ctx[r] \in CtxSet /\ CtxGood(ctx[r]) /\ FetchGood
      /\ fetched \in Seq(FetchSet) /\ spawned \subseteq PutSet /\ Len(fetched) \in Nat
  BY LenProperties DEF IInv, TypeOK
<1>2. PICK m \in Nat : m = Len(fetched) + 1
  BY <1>1
<1>3. PICK up : up = Header(status, control, coding)
  OBVIOUS
<1>4. up \in UpHeaders /\ up.coding = coding
  BY <1>3 DEF Header, UpHeaders, HeadersWith
<1>5. PICK chosen : chosen = SelectEncoding(up, ctx[r].accept)
  OBVIOUS
<1>6. chosen \in Codings /\ (chosen # Identity => up.coding = Identity)
  BY <1>1, <1>5, PipelineAssumption DEF SelectEncoding, CtxSet
<1>7. PICK shown : shown = ProcessResponseFilters(
                       UpdateCompressionHeaders(SetCacheHeaders(up, BrowserCache), chosen))
  OBVIOUS
<1>8. /\ shown \in ShownHeaders /\ (vhost => shown.fields = Told)
      /\ shown.coding = IF chosen = Identity THEN up.coding ELSE chosen
      /\ (shown.control = "public") = BrowserCache
  BY <1>1, <1>4, <1>6, <1>7, ShownGood
<1>9. PICK body \in Bodies(m, coding) :
          /\ ctx' = [ctx EXCEPT ![r] =
                       [@ EXCEPT !.pc = "body", !.rsp = m, !.todo = body, !.coding = chosen,
                                 !.sent = shown, !.header = KeptHeader(up, shown)]]
          /\ fetched' = Append(fetched, [key |-> ctx[r].key, header |-> up, body |-> body])
  BY <1>2, <1>3, <1>5, <1>7 DEF ResponseHeader
<1>10. /\ body \in Seq(Chunks)
       /\ \A i \in DOMAIN body : body[i].rsp = m /\ body[i].coding = coding
  <2>1. PICK sizes \in BoundedSeq(Sizes, MaxChunks) :
            body = [i \in DOMAIN sizes |-> Chunk(m, i, sizes[i], coding)]
    BY <1>9 DEF Bodies
  <2>2. PICK n \in 0..MaxChunks : sizes \in [1..n -> Sizes]
    BY <2>1 DEF BoundedSeq, SeqOf
  <2>3. DOMAIN body = 1..n /\ n \in Nat
    BY <2>1, <2>2, PipelineAssumption
  <2>4. \A i \in 1..n : body[i] \in Chunks /\ body[i].rsp = m /\ body[i].coding = coding
    BY <2>1, <2>2 DEF Chunk, Chunks
  <2>5. body \in [1..n -> Chunks]
    BY <2>1, <2>3, <2>4
  <2>6. QED
    BY <2>3, <2>4, <2>5, SeqDef
<1> DEFINE Rsp == [key |-> ctx[r].key, header |-> up, body |-> body]
<1> HIDE DEF Rsp
<1>a. PICK f : f = Rsp
  OBVIOUS
<1>11. f = [key |-> ctx[r].key, header |-> up, body |-> body]
  BY <1>a DEF Rsp
<1>12. f \in FetchSet /\ ctx[r].key \in Keys /\ ctx[r].shouldCache
       /\ f.key = ctx[r].key /\ f.header = up /\ f.body = body
       /\ ctx[r].body = <<>> /\ ctx[r].out = <<>> /\ ctx[r].status = "MISS"
  <2>1. ctx[r].key \in Keys /\ ctx[r].shouldCache
        /\ ctx[r].body = <<>> /\ ctx[r].out = <<>> /\ ctx[r].status = "MISS"
    BY <1>1 DEF CtxGood, ResponseHeader
  <2>2. QED
    BY <1>4, <1>10, <1>11, <2>1 DEF FetchSet
<1>13. /\ fetched' \in Seq(FetchSet) /\ Len(fetched') = m /\ fetched'[m] = f
       /\ \A n \in 1..Len(fetched) : fetched'[n] = fetched[n]
       /\ DOMAIN fetched = 1..Len(fetched) /\ DOMAIN fetched' = 1..m
  BY <1>1, <1>2, <1>9, <1>11, <1>12, AppendProperties, LenProperties
<1>14. Extended
  BY <1>1, <1>2, <1>13 DEF Extended, ResponseHeader
<1>15. FetchGood'
  <2>1. ASSUME NEW n \in DOMAIN fetched', NEW i \in DOMAIN fetched'[n].body
        PROVE  fetched'[n].body[i].rsp = n
               /\ fetched'[n].body[i].coding = fetched'[n].header.coding
    <3>1. CASE n = m
      BY <1>4, <1>10, <1>12, <1>13, <2>1, <3>1
    <3>2. CASE n # m
      BY <1>1, <1>2, <1>13, <2>1, <3>2 DEF FetchGood
    <3>3. QED
      BY <3>1, <3>2
  <2>2. QED
    BY <2>1 DEF FetchGood
<1>16. PICK kept : kept = KeptHeader(up, shown)
  OBVIOUS
<1>17. kept \in KeptHeaders \cup {None}
  <2>1. up \in KeptHeaders
    BY <1>4 DEF UpHeaders, KeptHeaders, HeadersWith
  <2>2. vhost => shown \in KeptHeaders
    BY <1>8 DEF ShownHeaders, KeptHeaders, HeadersWith
  <2>3. QED
    BY <1>16, <2>1, <2>2 DEF KeptHeader
<1>18. PICK c : c = [ctx[r] EXCEPT !.pc = "body", !.rsp = m, !.todo = body, !.coding = chosen,
                                   !.sent = shown, !.header = kept]
  OBVIOUS
<1>19. ctx' = [ctx EXCEPT ![r] = c]
  BY <1>9, <1>16, <1>18
<1>20. /\ c \in CtxSet /\ c.pc = "body" /\ c.rsp = m /\ c.todo = body /\ c.coding = chosen
       /\ c.sent = shown /\ c.header = kept /\ c.body = ctx[r].body /\ c.out = ctx[r].out
       /\ c.status = ctx[r].status /\ c.key = ctx[r].key /\ c.shouldCache = ctx[r].shouldCache
  BY <1>1, <1>6, <1>8, <1>10, <1>17, <1>18 DEF CtxSet
<1>21. Exchanging(c, f)'
  <2>1. f.body = c.body \o c.todo
    BY <1>10, <1>12, <1>20, ConcatEmptySeq
  <2>2. c.header = KeptHeader(f.header, c.sent)'
    BY <1>12, <1>14, <1>16, <1>20 DEF KeptHeader, Extended
  <2>3. c.sent \in ShownHeaders /\ (vhost' => c.sent.fields = Told)
    BY <1>8, <1>14, <1>20 DEF Extended
  <2>4. c.sent.coding = IF c.coding = Identity THEN f.header.coding ELSE c.coding
    BY <1>8, <1>12, <1>20
  <2>5. DOMAIN c.out = 1 .. Len(c.body)
    BY <1>12, <1>20, EmptySeq
  <2>6. \A i \in 1 .. Len(c.body) : c.out[i] = Compress(<<f.body[i]>>, c.coding)
    BY <1>12, <1>20, EmptySeq
  <2>7. c.coding # Identity => f.header.coding = Identity
    BY <1>6, <1>12, <1>20
  <2>8. OutGood(c, f, Len(c.body)) /\ ToldGood(c)
    BY <1>8, <1>12, <1>20, <2>4, <2>5, <2>6, <2>7 DEF OutGood, ToldGood
  <2>9. (OutGood(c, f, Len(c.body)) /\ ToldGood(c))'
    BY <2>8 DEF OutGood, ToldGood
  <2>10. QED
    BY <1>12, <1>20, <2>1, <2>2, <2>3, <2>9 DEF Exchanging
<1>22. CtxGood(c)'
  BY <1>2, <1>12, <1>13, <1>20, <1>21 DEF CtxGood
<1>23. QED
  BY <1>1, <1>13, <1>14, <1>15, <1>19, <1>20, <1>22, CtxMoves DEF ResponseHeader

\* What was sent of response f: its first n chunks, each compressed alone.
OutSoFar(f, coding, out, n) ==
    /\ DOMAIN out = 1 .. n
    /\ \A i \in 1 .. n : out[i] = Compress(<<f.body[i]>>, coding)

\* A chunk, and at the end the store of what was collected.
LEMMA BodyStep ==
    ASSUME IInv, NEW r \in Requests, NEW eof \in BOOLEAN, BodyFilter(r, eof)
    PROVE  IInv'
<1>1. /\ TypeOK /\ ctx[r] \in CtxSet /\ CtxGood(ctx[r]) /\ FetchGood
      /\ fetched \in Seq(FetchSet) /\ spawned \subseteq PutSet
      /\ UNCHANGED <<vhost, fetched, stored>>
  BY DEF IInv, TypeOK, BodyFilter
<1>2. Extended /\ FetchGood' /\ fetched' \in Seq(FetchSet)
  BY <1>1 DEF Extended, FetchGood
<1>3. PICK c \in CtxSet : c = ctx[r]
  BY <1>1
<1>4. /\ c.pc = "body" /\ c.rsp \in DOMAIN fetched /\ Exchanging(c, fetched[c.rsp])
      /\ c.key \in Keys /\ c.shouldCache = TRUE
      /\ c.body \in Seq(Chunks) /\ c.todo \in Seq(Chunks) /\ c.out \in Seq(Pieces)
      /\ c.coding \in Codings /\ c.header \in KeptHeaders \cup {None}
      /\ eof => Len(c.todo) <= 1
      /\ ~eof => c.todo # <<>>
  BY <1>1, <1>3 DEF BodyFilter, CtxGood, CtxSet
<1>5. PICK m \in DOMAIN fetched, f \in FetchSet :
          m = c.rsp /\ f = fetched[m] /\ Exchanging(c, f)
  BY <1>1, <1>4, ElementOfSeq, LenProperties
<1>6. PICK now : now = IF c.todo = <<>> THEN <<>> ELSE <<Head(c.todo)>>
  OBVIOUS
<1>7. PICK rest : rest = IF now = <<>> THEN c.todo ELSE Tail(c.todo)
  OBVIOUS
<1>8. PICK body : body = c.body \o now
  OBVIOUS
<1>9. /\ now \in Seq(Chunks) /\ rest \in Seq(Chunks) /\ body \in Seq(Chunks)
      /\ f.body = body \o rest
      /\ eof => f.body = body
      /\ \A i \in DOMAIN now : now[i] = Head(c.todo) /\ c.todo # <<>>
  <2>1. f.body = c.body \o c.todo
    BY <1>5 DEF Exchanging
  <2>2. CASE c.todo = <<>>
    <3>1. now = <<>> /\ rest = <<>> /\ body = c.body
      BY <1>4, <1>6, <1>7, <1>8, <2>2, ConcatEmptySeq
    <3>2. QED
      BY <1>4, <2>1, <2>2, <3>1, ConcatEmptySeq, EmptySeq
  <2>3. CASE c.todo # <<>>
    <3>1. now = <<Head(c.todo)>> /\ rest = Tail(c.todo) /\ body = c.body \o <<Head(c.todo)>>
      BY <1>6, <1>7, <1>8, <2>3
    <3>2. /\ (c.body \o <<Head(c.todo)>>) \o Tail(c.todo) = c.body \o c.todo
          /\ c.body \o <<Head(c.todo)>> \in Seq(Chunks) /\ Tail(c.todo) \in Seq(Chunks)
          /\ Len(c.todo) <= 1 => c.todo = <<Head(c.todo)>>
      BY <1>4, <2>3, MoveHead
    <3>3. Head(c.todo) \in Chunks /\ now \in Seq(Chunks)
      BY <1>4, <2>3, <3>1, HeadTailProperties
    <3>4. \A i \in DOMAIN now : now[i] = Head(c.todo)
      BY <3>1
    <3>5. eof => f.body = body
      BY <1>4, <2>1, <3>1, <3>2
    <3>6. QED
      BY <2>1, <2>3, <3>1, <3>2, <3>3, <3>4, <3>5
  <2>4. QED
    BY <2>2, <2>3
<1>10. c.todo # <<>> => Head(c.todo) \in Chunks /\ Head(c.todo).coding = f.header.coding
  <2> SUFFICES ASSUME c.todo # <<>>
               PROVE  Head(c.todo) \in Chunks /\ Head(c.todo).coding = f.header.coding
    OBVIOUS
  <2>1. f.body = c.body \o c.todo
    BY <1>5 DEF Exchanging
  <2>2. /\ Head(c.todo) \in Chunks
        /\ Len(c.body) + 1 \in DOMAIN f.body /\ f.body[Len(c.body) + 1] = Head(c.todo)
    <3>1. c.body \in Seq(Chunks) /\ c.todo \in Seq(Chunks)
      BY <1>4
    <3>2. /\ Head(c.todo) \in Chunks
          /\ Len(c.body) + 1 \in DOMAIN (c.body \o c.todo)
          /\ (c.body \o c.todo)[Len(c.body) + 1] = Head(c.todo)
      BY <3>1, HeadInConcat, Zenon
    <3>3. QED
      BY <2>1, <3>2, Zenon
  <2>3. QED
    BY <1>1, <1>5, <2>2 DEF FetchGood
<1>11. PICK more : more = [i \in DOMAIN now |-> Compress(<<now[i]>>, c.coding)]
  OBVIOUS
<1>14. PICK out : out = c.out \o more
  OBVIOUS
<1>15. out \in Seq(Pieces) /\ OutSoFar(f, c.coding, out, Len(body))
  <2>1. /\ OutSoFar(f, c.coding, c.out, Len(c.body))
        /\ Len(c.body) \in Nat /\ Len(c.out) = Len(c.body)
    BY <1>4, <1>5, LenProperties DEF Exchanging, OutGood, OutSoFar
  <2>2. CASE c.todo = <<>>
    <3>1. now = <<>> /\ body = c.body
      BY <1>4, <1>6, <1>8, <2>2, ConcatEmptySeq
    <3>2. more = <<>>
      BY <1>11, <3>1
    <3>3. out = c.out
      BY <1>4, <1>14, <3>2, ConcatEmptySeq
    <3>4. QED
      BY <1>4, <2>1, <3>1, <3>3
  <2>3. CASE c.todo # <<>>
    <3>1. PICK piece : piece = Compress(<<Head(c.todo)>>, c.coding)
      OBVIOUS
    <3>2. Head(c.todo) \in Chunks /\ now = <<Head(c.todo)>>
      BY <1>6, <1>10, <2>3
    <3>3. piece \in Pieces
      <4>1. <<Head(c.todo)>> \in Seq(Chunks)
        BY <3>2
      <4>2. QED
        BY <1>4, <3>1, <4>1, CompressedPiece
    <3>4. more = <<piece>>
      BY <1>11, <3>1, <3>2
    <3>5. Len(body) = Len(c.body) + 1
      <4>1. <<Head(c.todo)>> \in Seq(Chunks) /\ Len(<<Head(c.todo)>>) = 1
        BY <3>2
      <4>2. QED
        BY <1>4, <1>8, <3>2, <4>1, ConcatProperties
    <3>6. f.body[Len(c.body) + 1] = Head(c.todo)
      <4>1. f.body = c.body \o c.todo
        BY <1>5 DEF Exchanging
      <4>2. (c.body \o c.todo)[Len(c.body) + 1] = Head(c.todo)
        BY <1>4, <2>3, HeadInConcat, Zenon
      <4>3. QED
        BY <4>1, <4>2, Zenon
    <3>7. /\ out \in Seq(Pieces) /\ Len(out) = Len(c.out) + 1
          /\ \A i \in 1 .. Len(c.out) : out[i] = c.out[i]
          /\ out[Len(c.out) + 1] = piece
      <4>1. Append(c.out, piece) = c.out \o <<piece>>
        BY <1>4, <3>3, AppendIsConcat
      <4>2. QED
        BY <1>4, <1>14, <3>3, <3>4, <4>1, AppendProperties
    <3>8. DOMAIN out = 1 .. Len(out)
      BY <3>7, LenProperties
    <3>9. \A i \in 1 .. Len(body) : out[i] = Compress(<<f.body[i]>>, c.coding)
      BY <2>1, <3>1, <3>5, <3>6, <3>7 DEF OutSoFar
    <3>10. QED
      BY <2>1, <3>5, <3>7, <3>8, <3>9 DEF OutSoFar
  <2>4. QED
    BY <2>2, <2>3
<1>16. Collected(c, now) = body
  BY <1>4, <1>8 DEF Collected
<1>17. PICK header : header = IF eof THEN None ELSE c.header
  OBVIOUS
<1>18. PICK d : d = [c EXCEPT !.pc = IF eof THEN "answered" ELSE "body", !.todo = rest,
                              !.body = IF eof THEN <<>> ELSE body,
                              !.shouldCache = ~eof, !.header = header, !.out = out]
  OBVIOUS
<1>19. ctx' = [ctx EXCEPT ![r] = d]
  <2>1. /\ ctx' = [ctx EXCEPT ![r] =
                     [@ EXCEPT !.pc = IF eof THEN "answered" ELSE "body",
                               !.todo = rest, !.body = IF eof THEN <<>> ELSE body,
                               !.shouldCache = c.shouldCache /\ ~eof,
                               !.header = header, !.out = out]]
    BY <1>3, <1>6, <1>7, <1>11, <1>14, <1>16, <1>17 DEF BodyFilter
  <2>2. (c.shouldCache /\ ~eof) = ~eof
    BY <1>4
  <2>3. QED
    BY <1>3, <1>18, <2>1, <2>2
<1>20. /\ d \in CtxSet /\ d.pc = (IF eof THEN "answered" ELSE "body") /\ d.todo = rest
       /\ d.body = (IF eof THEN <<>> ELSE body) /\ d.shouldCache = ~eof /\ d.header = header
       /\ d.out = out /\ d.sent = c.sent /\ d.status = c.status /\ d.key = c.key
       /\ d.rsp = c.rsp /\ d.coding = c.coding
  BY <1>3, <1>4, <1>9, <1>15, <1>17, <1>18, EmptySeq DEF CtxSet
<1>21. CtxGood(d)
  <2>1. OutGood(d, f, Len(body)) /\ ToldGood(d)
    BY <1>5, <1>15, <1>20 DEF Exchanging, OutGood, OutSoFar, ToldGood
  <2>2. CASE eof
    <3>1. d.pc = "answered" /\ d.status = "MISS" /\ f.body = body /\ d.key = f.key
      BY <1>5, <1>9, <1>20, <2>2 DEF Exchanging
    <3>2. AnswerGood(d, fetched[m])
      BY <1>5, <2>1, <3>1 DEF AnswerGood
    <3>3. QED
      BY <2>1, <3>1, <3>2 DEF CtxGood
  <2>3. CASE ~eof
    <3>1. d.pc = "body" /\ d.body = body /\ d.shouldCache /\ d.header = c.header
      BY <1>17, <1>20, <2>3
    <3>2. Exchanging(d, f)
      BY <1>5, <1>9, <1>20, <2>1, <3>1 DEF Exchanging
    <3>3. QED
      BY <1>4, <1>5, <1>20, <3>1, <3>2 DEF CtxGood
  <2>4. QED
    BY <2>2, <2>3
<1>22. CtxGood(d)'
  BY <1>2, <1>21, StaysGood
<1>23. PICK p : p = PutTask(c, body)
  OBVIOUS
<1>24. spawned' \subseteq spawned \cup {p}
  BY <1>3, <1>6, <1>16, <1>23 DEF BodyFilter
<1>25. p \in spawned' => p \in spawned \/ (p \in PutSet /\ PutGood(p))
  <2> SUFFICES ASSUME p \in spawned', p \notin spawned PROVE p \in PutSet /\ PutGood(p)
    OBVIOUS
  <2>1. eof /\ c.header # None /\ body # <<>>
    BY <1>3, <1>6, <1>16, <1>23 DEF BodyFilter, AtEnd
  <2>2. f.body = body /\ f.key = c.key /\ f.header \in UpHeaders
    BY <1>5, <1>9, <2>1 DEF Exchanging, FetchSet
  <2>3. c.header = KeptHeader(f.header, c.sent) /\ c.sent \in ShownHeaders
        /\ (vhost => c.sent.fields = Told)
    BY <1>5 DEF Exchanging
  <2>4. /\ c.header \in KeptHeaders /\ c.header.fields = IF vhost THEN Told ELSE AsSent
        /\ ~vhost => f.header.status = 200 /\ c.header = f.header
    <3>1. CASE vhost
      BY <1>4, <2>1, <2>3, <3>1 DEF KeptHeader
    <3>2. CASE ~vhost
      BY <1>4, <2>1, <2>2, <2>3, <3>2 DEF KeptHeader, UpHeaders, HeadersWith
    <3>3. QED
      BY <3>1, <3>2
  <2>5. PICK plain : plain = [c.header EXCEPT !.coding = Identity]
    OBVIOUS
  <2>6. plain \in KeptHeaders /\ plain.control = c.header.control /\ plain.fields = c.header.fields
    BY <2>4, <2>5, PipelineAssumption DEF KeptHeaders, HeadersWith
  <2>7. p = [key |-> c.key, body |-> body, header |-> plain]
    BY <1>23, <2>5 DEF PutTask
  <2>8. p \in PutSet /\ p.key = c.key /\ p.body = body /\ p.header = plain
    BY <1>4, <1>9, <2>6, <2>7 DEF PutSet
  <2>9. PutGood(p)
    BY <1>5, <2>1, <2>2, <2>4, <2>6, <2>8 DEF PutGood
  <2>10. QED
    BY <2>8, <2>9
<1>26. spawned' \subseteq PutSet /\ \A q \in spawned' : q \in spawned \/ PutGood(q)
  BY <1>1, <1>24, <1>25
<1>27. QED
  BY <1>1, <1>2, <1>19, <1>20, <1>22, <1>26, CtxMoves

\* What a step that only stores has to keep.
LEMMA StoreMoves ==
    ASSUME IInv, UNCHANGED <<vhost, ctx, fetched>>, spawned' \subseteq spawned,
           NEW p, \/ stored' = stored
                  \/ p \in spawned /\ stored' = Append(stored, p) /\ p.header.control # "no-store"
    PROVE  IInv'
<1>1. /\ TypeOK /\ FetchGood /\ \A u \in Requests : CtxGood(ctx[u])
      /\ \A q \in spawned : PutGood(q)
      /\ \A n \in DOMAIN stored : PutGood(stored[n]) /\ stored[n].header.control # "no-store"
  BY DEF IInv
<1>3. Extended
  BY DEF Extended
<1>4. stored \in Seq(PutSet) /\ (p \in spawned => p \in PutSet)
  BY <1>1 DEF TypeOK
<1>5. /\ stored' \in Seq(PutSet)
      /\ \A n \in DOMAIN stored' :
            \/ n \in DOMAIN stored /\ stored'[n] = stored[n]
            \/ p \in spawned /\ stored'[n] = p /\ p.header.control # "no-store"
  <2>1. CASE stored' = stored
    BY <1>4, <2>1
  <2>2. CASE stored' # stored
    <3>1. /\ Append(stored, p) \in Seq(PutSet) /\ Len(Append(stored, p)) = Len(stored) + 1
          /\ \A n \in 1..Len(stored) : Append(stored, p)[n] = stored[n]
          /\ Append(stored, p)[Len(stored) + 1] = p
      BY <1>4, <2>2, AppendProperties
    <3>2. /\ DOMAIN stored = 1..Len(stored) /\ Len(stored) \in Nat
          /\ DOMAIN Append(stored, p) = 1..(Len(stored) + 1)
      BY <1>4, <3>1, LenProperties
    <3>3. QED
      BY <2>2, <3>1, <3>2
  <2>3. QED
    BY <2>1, <2>2
<1>6. TypeOK' /\ FetchGood'
  BY <1>1, <1>5 DEF TypeOK, FetchGood
<1>7. ASSUME NEW u \in Requests PROVE CtxGood(ctx[u])'
  <2>1. PICK c : c = ctx[u]
    OBVIOUS
  <2>2. CtxGood(c)' /\ ctx'[u] = c
    BY <1>1, <1>3, <2>1, StaysGood
  <2>3. QED
    BY <2>2
<1>8. \A q \in spawned' : PutGood(q)'
  BY <1>1, <1>3, StaysGood
<1>9. ASSUME NEW n \in DOMAIN stored'
      PROVE  PutGood(stored[n])' /\ stored'[n].header.control # "no-store"
  <2>1. PICK q : q = stored'[n]
    OBVIOUS
  <2>2. PutGood(q) /\ q.header.control # "no-store"
    BY <1>1, <1>5, <2>1
  <2>3. PutGood(q)'
    BY <1>3, <2>2, StaysGood
  <2>4. QED
    BY <2>1, <2>2, <2>3
<1>10. QED
  BY <1>6, <1>7, <1>8, <1>9 DEF IInv

-----------------------------------------------------------------------------
(* The theorems.                                                           *)

\* put_cache stores what it was handed, or nothing.
LEMMA PutStep == ASSUME IInv, NEW p \in spawned, PutCache(p) PROVE IInv'
<1>1. \/ stored' = stored
      \/ p \in spawned /\ stored' = Append(stored, p) /\ p.header.control # "no-store"
  BY DEF PutCache
<1>2. spawned' \subseteq spawned /\ UNCHANGED <<vhost, ctx, fetched>>
  BY DEF PutCache
<1>3. QED
  BY <1>1, <1>2, StoreMoves

\* Every step keeps the inductive invariant.
LEMMA NextGood == IInv /\ [Next]_vars => IInv'
<1> SUFFICES ASSUME IInv, [Next]_vars PROVE IInv'
  OBVIOUS
<1>1. ASSUME NEW r \in Requests, RequestFilter(r) PROVE IInv'
  BY <1>1, PlainStep, HitStep DEF RequestFilter
<1>2. ASSUME NEW r \in Requests, Exchange(r) PROVE IInv'
  <2>1. CASE FailToConnect(r) \/ ErrorWhileProxy(r)
    BY <2>1, PlainStep
  <2>2. CASE \E status \in {200, 404}, control \in {"public", "no-store"}, coding \in Codings :
                 ResponseHeader(r, status, control, coding)
    BY <2>2, HeaderStep
  <2>3. CASE \E eof \in BOOLEAN : BodyFilter(r, eof)
    BY <2>3, BodyStep
  <2>4. QED
    BY <1>2, <2>1, <2>2, <2>3 DEF Exchange
<1>3. ASSUME NEW r \in Requests, NextRequest(r) PROVE IInv'
  BY <1>3, PlainStep
<1>4. ASSUME NEW p \in spawned, PutCache(p) PROVE IInv'
  BY <1>4, PutStep
<1>5. CASE UNCHANGED vars
  <2>1. UNCHANGED <<vhost, ctx, fetched, spawned, stored>>
    BY <1>5 DEF vars
  <2>2. QED
    BY <2>1, StoreMoves
<1>6. QED
  BY <1>1, <1>2, <1>3, <1>4, <1>5 DEF Next

\* The states that requests, upstreams and store tasks can reach.
LEMMA AlwaysGood == Spec => []IInv
BY InitGood, NextGood, PTL DEF Spec

\* What is stored is one whole response, with the fields that the upstream sent,
\* of a VHost proxy with those that set_cache_headers makes of them.
THEOREM WholeResponsesStored == Spec => []StoredWhole
<1>1. ASSUME IInv PROVE StoredWhole
  <2> SUFFICES ASSUME NEW n \in DOMAIN stored
               PROVE  \E m \in DOMAIN fetched :
                          /\ fetched[m].key = stored[n].key
                          /\ fetched[m].body = stored[n].body
                          /\ KeptFields(fetched[m].header) = stored[n].header.fields
    BY DEF StoredWhole
  <2>1. PICK m \in DOMAIN fetched :
            /\ fetched[m].key = stored[n].key /\ fetched[m].body = stored[n].body
            /\ stored[n].header.fields = IF vhost THEN Told ELSE AsSent
    BY <1>1 DEF IInv, PutGood
  <2>2. fetched[m] \in FetchSet
    BY <1>1, ElementOfSeq, LenProperties DEF IInv, TypeOK
  <2>3. PICK up : up = fetched[m].header
    OBVIOUS
  <2>4. up \in KeptHeaders /\ up.fields = AsSent
    BY <2>2, <2>3 DEF FetchSet, UpHeaders, KeptHeaders, HeadersWith
  <2>5. SetCacheHeaders(up, BrowserCache).fields = Told
    BY <2>4, CacheHeaders, PipelineAssumption DEF Told
  <2>6. QED
    BY <2>1, <2>3, <2>4, <2>5 DEF KeptFields
<1>2. QED
  BY <1>1, AlwaysGood, PTL

\* A basic proxy stores successful responses only, and none with no-store.
THEOREM StorableOnly == Spec => []OnlyStorableStored
<1>1. ASSUME IInv PROVE OnlyStorableStored
  <2> SUFFICES ASSUME ~vhost, NEW n \in DOMAIN stored
               PROVE  Source(n).header.control # "no-store" /\ Source(n).header.status = 200
    BY DEF OnlyStorableStored, NoStoreHonoured
  <2>1. stored[n].header.control # "no-store" /\ PutGood(stored[n])
    BY <1>1 DEF IInv
  <2>2. PICK m \in DOMAIN fetched :
            /\ fetched[m].body = stored[n].body /\ fetched[m].body # <<>>
            /\ fetched[m].header.status = 200
            /\ stored[n].header.control = fetched[m].header.control
    BY <2>1 DEF PutGood
  <2>a. fetched[m] \in FetchSet
    BY <1>1, ElementOfSeq, LenProperties DEF IInv, TypeOK
  <2>3. fetched[m].body \in Seq(Chunks)
    BY <2>a DEF FetchSet
  <2>4. 1 \in DOMAIN fetched[m].body
    BY <2>2, <2>3, EmptySeq, LenProperties
  <2>5. fetched[m].body[1].rsp = m
    BY <1>1, <2>4 DEF IInv, FetchGood
  <2>6. Source(n) = fetched[m]
    BY <2>2, <2>5 DEF Source
  <2>7. QED
    BY <2>1, <2>2, <2>6
<1>2. QED
  BY <1>1, AlwaysGood, PTL

\* To decode once more changes nothing.
LEMMA DecodedTwice == ASSUME NEW body \in Seq(Chunks) PROVE Decoded(Decoded(body)) = Decoded(body)
<1>1. DOMAIN Decoded(body) = DOMAIN body
  BY DecodedBody
<1>2. ASSUME NEW i \in DOMAIN body
      PROVE  [Decoded(body)[i] EXCEPT !.coding = Identity] = Decoded(body)[i]
  <2>1. body[i] \in Chunks /\ Decoded(body)[i] = [body[i] EXCEPT !.coding = Identity]
    BY DecodedBody, ElementOfSeq, LenProperties
  <2>2. QED
    BY <2>1 DEF Chunks
<1>3. Decoded(Decoded(body)) = [i \in DOMAIN body |-> Decoded(body)[i]]
  BY <1>1, <1>2 DEF Decoded
<1>4. Decoded(body) = [i \in DOMAIN body |-> Decoded(body)[i]]
  BY DEF Decoded
<1>5. QED
  BY <1>3, <1>4

\* What AnswerReadable says of an answer that was made from response f.
Readable(c, f) ==
    /\ f.key = c.key /\ Decoded(Carried(c)) = Decoded(f.body)
    /\ Chosen(c) = Identity \/ (Len(c.out) = 1 /\ ~TooSmall(SizeOf(c.out[1].body)))
           => Decodable(c)

\* A hit is one stream, in the client's coding or in none.
LEMMA HitReadable ==
    ASSUME NEW c \in CtxSet, NEW f \in FetchSet, AnswerGood(c, f), c.status = "HIT"
    PROVE  Readable(c, f)
<1>1. PICK piece : piece = Compress(Decoded(f.body), c.accept)
  OBVIOUS
<1>2. /\ f.body \in Seq(Chunks) /\ Decoded(f.body) \in Seq(Chunks) /\ c.accept \in Codings
      /\ c.out = <<piece>> /\ c.sent.coding = c.accept /\ f.key = c.key
  BY <1>1, DecodedBody DEF AnswerGood, FetchSet, CtxSet
<1>3. /\ piece.body = Decoded(f.body)
      /\ c.accept = Identity => piece.coding = Identity
      /\ ~TooSmall(SizeOf(Decoded(f.body))) => piece.coding = c.accept
  BY <1>1, <1>2, CompressedPiece
<1>4. Len(c.out) = 1 /\ c.out[1] = piece
  BY <1>2
<1>5. Carried(c) = Decoded(f.body) /\ Chosen(c) = c.accept
  BY <1>3, <1>4 DEF Carried, Chosen
<1>6. \A i \in DOMAIN Carried(c) : Carried(c)[i].coding = Identity
  <2>1. DOMAIN Decoded(f.body) = DOMAIN f.body
        /\ \A i \in DOMAIN f.body : Decoded(f.body)[i].coding = Identity
    BY <1>2, DecodedBody
  <2>2. QED
    BY <1>5, <2>1
<1>7. ASSUME Chosen(c) = Identity \/ ~TooSmall(SizeOf(c.out[1].body)) PROVE Decodable(c)
  <2>1. c.out[1].coding = c.sent.coding
    BY <1>2, <1>3, <1>4, <1>5, <1>7
  <2>2. QED
    BY <1>4, <1>6, <2>1 DEF Decodable
<1>8. QED
  BY <1>2, <1>5, <1>7, DecodedTwice DEF Readable

\* A miss is as the upstream encoded it, or a stream for each chunk.
LEMMA MissReadable ==
    ASSUME NEW c \in CtxSet, NEW f \in FetchSet, AnswerGood(c, f), c.status # "HIT",
           \A i \in DOMAIN f.body : f.body[i].coding = f.header.coding
    PROVE  Readable(c, f)
<1>1. /\ f.body \in Seq(Chunks) /\ OutGood(c, f, Len(f.body)) /\ f.key = c.key
      /\ c.coding \in Codings /\ Chosen(c) = c.coding
  BY DEF AnswerGood, FetchSet, CtxSet, Chosen
<1>2. DOMAIN f.body = 1 .. Len(f.body) /\ Len(f.body) \in Nat /\ DOMAIN c.out = DOMAIN f.body
      /\ Len(c.out) = Len(f.body)
  <2>1. c.out \in Seq(Pieces)
    BY DEF CtxSet
  <2>2. QED
    BY <1>1, <2>1, LenProperties DEF OutGood
<1>3. ASSUME NEW i \in DOMAIN f.body
      PROVE  /\ c.out[i].body = <<f.body[i]>> /\ c.out[i].body[1] = f.body[i]
             /\ c.coding = Identity => c.out[i].coding = Identity
             /\ ~TooSmall(SizeOf(c.out[i].body)) => c.out[i].coding = c.coding
  <2>1. f.body[i] \in Chunks
    BY <1>1, <1>2, ElementOfSeq
  <2>2. <<f.body[i]>> \in Seq(Chunks)
    BY <2>1
  <2>3. PICK piece : piece = Compress(<<f.body[i]>>, c.coding)
    OBVIOUS
  <2>4. /\ piece.body = <<f.body[i]>>
        /\ c.coding = Identity => piece.coding = Identity
        /\ ~TooSmall(SizeOf(<<f.body[i]>>)) => piece.coding = c.coding
    BY <1>1, <2>2, <2>3, CompressedPiece
  <2>5. c.out[i] = piece
    BY <1>1, <1>2, <2>3 DEF OutGood
  <2>6. <<f.body[i]>>[1] = f.body[i]
    OBVIOUS
  <2>7. QED
    BY <2>4, <2>5, <2>6
<1>4. Carried(c) = f.body
  <2>1. Carried(c) = [i \in DOMAIN f.body |-> f.body[i]]
    BY <1>2, <1>3 DEF Carried
  <2>2. f.body = [i \in DOMAIN f.body |-> f.body[i]]
    BY <1>1, <1>2
  <2>3. QED
    BY <2>1, <2>2
<1>5. CASE c.coding = Identity
  <2>1. c.sent.coding = f.header.coding
    BY <1>1, <1>5 DEF OutGood
  <2>2. Decodable(c)
    BY <1>2, <1>3, <1>4, <1>5, <2>1 DEF Decodable
  <2>3. QED
    BY <1>1, <1>4, <2>2 DEF Readable
<1>6. CASE c.coding # Identity
  <2>1. c.sent.coding = c.coding /\ f.header.coding = Identity
    BY <1>1, <1>6 DEF OutGood
  <2>2. ASSUME Len(c.out) = 1, ~TooSmall(SizeOf(c.out[1].body)) PROVE Decodable(c)
    <3>1. 1 \in DOMAIN f.body
      BY <1>2, <2>2
    <3>2. c.out[1].coding = c.sent.coding
      BY <1>3, <2>1, <2>2, <3>1
    <3>3. QED
      BY <1>4, <2>1, <2>2, <3>2 DEF Decodable
  <2>3. QED
    BY <1>1, <1>4, <1>6, <2>2 DEF Readable
<1>7. QED
  BY <1>5, <1>6

\* A finished answer carries one whole response that was fetched for its key, and
\* a client can decode it when nothing was to be compressed or all of it was, in
\* one piece.
THEOREM AnswersReadable == Spec => []AnswerReadable
<1>1. ASSUME IInv PROVE AnswerReadable
  <2> SUFFICES ASSUME NEW r \in Requests, ctx[r].pc = "answered", ctx[r].sent # None
               PROVE  \E m \in DOMAIN fetched : Readable(ctx[r], fetched[m])
    BY DEF AnswerReadable, Readable
  <2>1. PICK c \in CtxSet : c = ctx[r]
    BY <1>1 DEF IInv, TypeOK
  <2>2. PICK m \in DOMAIN fetched : AnswerGood(c, fetched[m])
    BY <1>1, <2>1 DEF IInv, CtxGood
  <2>3. fetched[m] \in FetchSet
    BY <1>1, ElementOfSeq, LenProperties DEF IInv, TypeOK
  <2>4. \A i \in DOMAIN fetched[m].body :
            fetched[m].body[i].coding = fetched[m].header.coding
    BY <1>1 DEF IInv, FetchGood
  <2>5. Readable(c, fetched[m])
    BY <2>2, <2>3, <2>4, HitReadable, MissReadable
  <2>6. QED
    BY <2>1, <2>5
<1>2. QED
  BY <1>1, AlwaysGood, PTL

\* A basic proxy tells browsers of hits and of misses what the setting says.
THEOREM BrowsersToldAlike == Spec => []BrowserToldAlike
<1>1. IInv => BrowserToldAlike
  BY DEF IInv, CtxGood, ToldGood, BrowserToldAlike
<1>2. QED
  BY <1>1, AlwaysGood, PTL
=============================================================================
