----------------------------- MODULE ObjectStore -----------------------------
(***************************************************************************)
(* Repositories in an object store (storage/s3, azure and gcs) and the     *)
(* HTTP client they are reached with (common/io/http).  The service is     *)
(* external: it is modelled by what its answers mean to the drivers.       *)
(***************************************************************************)
EXTENDS Objects, SequencesExt, FiniteSetsExt, Functions

CONSTANTS
    MaxHttp,        \* bound on the requests of an HTTP client
    HttpReplies,    \* replies: [is, blocks, close]
    HttpRetries,    \* how often a request is repeated before the timeout
    BodyCalls, UriCalls, UrlCalls, QueryCalls, HeaderCalls, MultiCalls,
    ListCalls, PathRemoveCalls, FileCalls,
    PartSize,       \* repo-storage-upload-chunk-size
    MaxUpload,      \* bound on what a writer writes
    UploadKinds,
    RenewMargin,    \* S3_CREDENTIAL_RENEW_SEC, and twice the timeout for GCS
    DayLength,
    MaxNow          \* bound on the time of credentials

ASSUME ObjectStoreAssumption ==
    /\ {MaxHttp, HttpRetries, MaxUpload, MaxNow} \subseteq Nat
    /\ {PartSize, DayLength, RenewMargin} \subseteq Nat \ {0}
    /\ UploadKinds \subseteq {"s3", "azure", "gcs"}
    /\ \A reply \in HttpReplies :
          reply.is \in {"ok", "cut", "busy", "lost"} /\ reply.blocks \in Nat /\ reply.close \in BOOLEAN
-----------------------------------------------------------------------------
(* The HTTP client.  A session is a connection: the replies on their way    *)
(* and the blocks of content of the last one that are not read.  A request  *)
(* is sent when it is made and its response is read later.                  *)

NewHttp == [session |-> << >>, reuse |-> << >>, request |-> << >>]

\* httpClientOpen(): a session that can be reused or a new one.
HttpSession(o) == IF o.reuse # << >> THEN Head(o.reuse) ELSE Len(o.session) + 1
HttpOpen(o) ==
    IF o.reuse # << >> THEN [o EXCEPT !.reuse = Tail(@)]
    ELSE [o EXCEPT !.session = Append(@, [stream |-> << >>, left |-> 0, live |-> TRUE, closed |-> FALSE])]

\* The request is written and the server replies.
HttpWrite(o, r, reply) ==
    LET s == HttpSession(o)
    IN  [HttpOpen(o) EXCEPT !.session[s].stream = Append(@, [to |-> r, reply |-> reply]),
                            !.request[r] = [@ EXCEPT !.session = s, !.state = "sent"]]

\* httpRequestNew()
HttpNew(o, reply) ==
    LET new == [session |-> 0, state |-> "made", got |-> 0, close |-> FALSE, breaks |-> FALSE]
    IN  HttpWrite([o EXCEPT !.request = Append(@, new)], Len(o.request) + 1, reply)

HttpFreeSession(o, s) == [o EXCEPT !.session[s].live = FALSE]

\* Faulty variant of HttpDone: the session is reused whatever the server said.
HttpDoneReuse(o, s, close) == [o EXCEPT !.reuse = Append(@, s)]

\* httpResponseDone()
HttpDone(o, s, close) == IF close THEN HttpFreeSession(o, s) ELSE [o EXCEPT !.reuse = Append(@, s)]

\* The request gives its session up.
HttpEnds(o, r, state) == [o EXCEPT !.request[r] = [@ EXCEPT !.state = state, !.session = 0]]

\* The reply that is next in the session is taken, whoever it is to.
HttpNext(o, r) == Head(o.session[o.request[r].session].stream)
HttpTaken(o, r) ==
    LET s == o.request[r].session
        x == o.session[s]
        got == IF x.left > 0 \/ ~x.live THEN 0 ELSE HttpNext(o, r).to
    IN  [o EXCEPT !.session[s] = [x EXCEPT !.stream = Tail(x.stream), !.closed = HttpNext(o, r).reply.close],
                  !.request[r] = [@ EXCEPT !.got = got]]

\* Content is left to be read.
HttpContent(o, r, reply) ==
    [o EXCEPT !.session[o.request[r].session].left = reply.blocks,
              !.request[r] = [@ EXCEPT !.state = "reading", !.close = reply.close, !.breaks = reply.is = "cut"]]

\* httpResponseNew(): status and headers, and the content when it is to be kept
\* or the code is an error.
HttpResponseNew(o, r, cache) ==
    LET s == o.request[r].session
        reply == HttpNext(o, r).reply
        taken == HttpTaken(o, r)
        whole == HttpEnds(HttpDone(taken, s, reply.close), r, IF reply.is = "busy" THEN "failed" ELSE "done")
        failed == HttpEnds(HttpFreeSession(taken, s), r, "failed")
    IN  IF reply.is = "lost" THEN failed
        ELSE IF reply.blocks = 0 /\ ~reply.close THEN whole
        ELSE IF cache \/ reply.is = "busy" THEN IF reply.is = "cut" THEN failed ELSE whole
        ELSE HttpContent(taken, r, reply)

\* httpRequestProcess(): any error and any code 5xx is a reason to send the
\* request again, as long as there is time.
HttpProcess(o, r, cache, more) ==
    LET Tried[i \in 0..HttpRetries] ==
            IF i = 0 THEN HttpResponseNew(o, r, cache)
            ELSE IF Tried[i - 1].request[r].state # "failed" THEN Tried[i - 1]
            ELSE HttpResponseNew(HttpWrite(Tried[i - 1], r, more[i]), r, cache)
    IN  Tried[HttpRetries]

HttpConnect == NoCall /\ call' = Made("http", NewHttp)
HttpRequest == Returns("http") /\ Len(call.obj.request) < MaxHttp /\ \E reply \in HttpReplies : Become(HttpNew(call.obj, reply))
HttpIn(state) == {r \in DOMAIN call.obj.request : call.obj.request[r].state = state}
HttpResponse ==
    /\ Returns("http")
    /\ \E r \in HttpIn("sent"), cache \in BOOLEAN, more \in [1..HttpRetries -> HttpReplies] :
          Become(HttpProcess(call.obj, r, cache, more))

\* The content is read by its user, who may also free the response before the end.
HttpReadBlock(o, r) ==
    LET s == o.request[r].session
    IN  IF o.request[r].breaks THEN HttpEnds(HttpFreeSession(o, s), r, "error")
        ELSE IF o.session[s].left > 1 THEN [o EXCEPT !.session[s].left = @ - 1]
        ELSE HttpEnds(HttpDone([o EXCEPT !.session[s].left = 0], s, o.request[r].close), r, "done")
HttpRead == Returns("http") /\ \E r \in HttpIn("reading") : Become(HttpReadBlock(call.obj, r))
HttpFree ==
    /\ Returns("http")
    /\ \E r \in HttpIn("reading") \cup HttpIn("sent") :
          Become(HttpEnds(HttpFreeSession(call.obj, call.obj.request[r].session), r, "freed"))
-----------------------------------------------------------------------------
(* Content.  A stream is a sequence of numbers: data is positive, SizeOf(n) *)
(* announces a chunk of n and Blank is the end of a line.                   *)

Blank == -1
SizeOf(n) == -2 - n
ChunkSize(x) == -2 - x
Data(from, n) == [i \in 1..n |-> from + i]
HttpStream(a) ==
    LET Before[i \in 1..(Len(a.chunks) + 1)] == IF i = 1 THEN 0 ELSE Before[i - 1] + a.chunks[i - 1]
        Chunk(i) == Data(Before[i], a.chunks[i])
        In(i) == IF a.chunked THEN << SizeOf(a.chunks[i]) >> \o Chunk(i) \o << Blank >> ELSE Chunk(i)
    IN  FlattenSeq([i \in DOMAIN a.chunks |-> In(i)]) \o (IF a.chunked THEN << SizeOf(0), Blank >> ELSE << >>)

\* Faulty variant of ContentStep: the line after a chunk is not read.
ContentStepNoBlank(a, o) ==
    LET size == a.chunked /\ o.remaining = 0
        s1 == IF size THEN Tail(o.stream) ELSE o.stream
        r1 == IF size THEN ChunkSize(Head(o.stream)) ELSE o.remaining
        n == IF r1 > a.room - Len(o.buffer) THEN a.room - Len(o.buffer) ELSE r1
        ended == r1 = n
    IN  IF (size /\ o.stream = << >>) \/ Len(s1) < n THEN [o EXCEPT !.error = TRUE]
        ELSE [o EXCEPT !.buffer = @ \o SubSeq(s1, 1, n), !.remaining = r1 - n,
                       !.stream = SubSeq(s1, n + 1, Len(s1)),
                       !.eof = IF a.chunked THEN size /\ r1 = 0 ELSE ended]

\* One round of httpResponseRead().
ContentStep(a, o) ==
    LET size == a.chunked /\ o.remaining = 0
        s1 == IF size THEN Tail(o.stream) ELSE o.stream
        r1 == IF size THEN ChunkSize(Head(o.stream)) ELSE o.remaining
        n == IF r1 > a.room - Len(o.buffer) THEN a.room - Len(o.buffer) ELSE r1
        s2 == SubSeq(s1, n + 1, Len(s1))
        ended == r1 = n
    IN  IF (size /\ o.stream = << >>) \/ Len(s1) < n \/ (ended /\ a.chunked /\ s2 = << >>)
        THEN [o EXCEPT !.error = TRUE]
        ELSE [o EXCEPT !.buffer = @ \o SubSeq(s1, 1, n), !.remaining = r1 - n,
                       !.stream = IF ended /\ a.chunked THEN Tail(s2) ELSE s2,
                       !.eof = IF a.chunked THEN size /\ r1 = 0 ELSE ended]

\* httpResponseRead() until the buffer is full or there is no more, and the
\* reads of httpResponseContent() or a copy until the end.
Rounds(n) == [i \in 1..n |-> i]
ContentRead(a, o) ==
    FoldLeft(LAMBDA x, i : IF x.error \/ x.eof \/ Len(x.buffer) = a.room THEN x ELSE ContentStep(a, x), o, Rounds(Len(o.stream) + 1))
ContentAll(a, stream) ==
    LET o == [stream |-> stream, remaining |-> IF a.chunked THEN 0 ELSE FoldLeft(+, 0, a.chunks),
              buffer |-> << >>, data |-> << >>, eof |-> ~a.chunked /\ a.chunks = << >>, error |-> FALSE]
        Taken(y) == [y EXCEPT !.data = @ \o y.buffer, !.buffer = << >>]
    IN  FoldLeft(LAMBDA x, i : IF x.error \/ x.eof THEN x ELSE Taken(ContentRead(a, x)), o, Rounds(Len(stream) + 1))

\* cut: how many elements of the stream are missing; next: what follows it.
Body ==
    NoCall /\ \E a \in BodyCalls :
        LET all == HttpStream(a)
            stream == IF a.cut > 0 THEN SubSeq(all, 1, Len(all) - a.cut) ELSE all \o a.next
            Of(r) == [data |-> r.data, rest |-> r.stream, error |-> r.error]
        IN  /\ a.cut <= Len(all)
            /\ call' = Called("body", a, Of(ContentAll(a, stream)))

\* httpResponseHeaderRead(): headers to the kind of content.
ContentKind(a) ==
    IF a.encoding \notin {None, "chunked"} \/ (a.encoding = "chunked" /\ a.length > 0) THEN Error
    ELSE IF a.head \/ (a.encoding = None /\ a.length = 0 /\ ~a.close) THEN "empty"
    ELSE IF a.encoding = "chunked" THEN "chunked"
    ELSE IF a.length > 0 THEN "length" ELSE "until close"

\* httpHeaderAdd(): a key that is there gets another value.
HeaderAdd(h, k, v) == IF k \in DOMAIN h THEN [h EXCEPT ![k] = Append(@, v)] ELSE (k :> << v >>) @@ h
HeaderPut(h, k, v) == (k :> << v >>) @@ h
HeaderRange(h, offset, limit) ==
    IF offset = 0 /\ limit = 0 THEN h
    ELSE HeaderPut(h, "range", << offset, IF limit = 0 THEN -1 ELSE offset + limit - 1 >>)
Header == NoCall /\ \E a \in HeaderCalls : call' = Called("header", a, ContentKind(a))
-----------------------------------------------------------------------------
(* Multipart requests and responses: content is a sequence of symbols and a *)
(* boundary is a sequence of symbols that none of the parts contains.       *)

Within(b, s) == \E i \in 0..(Len(s) - Len(b)) : SubSeq(s, i + 1, i + Len(b)) = b
FirstAt(b, s, from) == LET at == {i \in from..(Len(s) - Len(b) + 1) : SubSeq(s, i, i + Len(b) - 1) = b}
                       IN  IF at = {} THEN 0 ELSE Min(at)

\* Faulty variant of Boundary: only the last part is looked at.
BoundaryLast(parts, init, extra) ==
    LET Longer(b, p) == IF Within(b, p) /\ Len(b) < Len(init) + Len(extra)
                        THEN Append(b, extra[Len(b) - Len(init) + 1]) ELSE b
    IN  FoldLeft(LAMBDA b, i : Longer(b, Last(parts)), init, Rounds(Len(extra)))

\* httpRequestMultiAdd(): the boundary grows until a part does not contain it,
\* and what grew for one part is not in those before it either.  << >>: there is none.
Boundary(parts, init, extra) ==
    LET Longer(b, p) == IF Within(b, p) /\ Len(b) < Len(init) + Len(extra)
                        THEN Append(b, extra[Len(b) - Len(init) + 1]) ELSE b
        Grown(b, p) == FoldLeft(LAMBDA x, i : Longer(x, p), b, Rounds(Len(extra)))
        ForPart(b, p) == IF b = << >> \/ Within(Grown(b, p), p) THEN << >> ELSE Grown(b, p)
    IN  FoldLeft(ForPart, init, parts)

\* httpRequestMultiContent(), httpResponseMultiNew(), httpResponseMultiNext()
MultiContent(parts, b) == b \o FlattenSeq([i \in DOMAIN parts |-> parts[i] \o b])
MultiParts(content, b) ==
    LET Next(x) == LET at == FirstAt(b, content, x.last)
                   IN  IF at = 0 THEN [x EXCEPT !.done = TRUE]
                       ELSE [x EXCEPT !.parts = Append(@, SubSeq(content, x.last, at - 1)), !.last = at + Len(b)]
        begin == FirstAt(b, content, 1)
    IN  FoldLeft(LAMBDA x, i : IF x.done THEN x ELSE Next(x),
                 [last |-> begin + Len(b), parts |-> << >>, done |-> begin = 0], Rounds(Len(content))).parts

Multi ==
    NoCall /\ \E a \in MultiCalls :
        LET b == Boundary(a.parts, a.init, a.extra)
        IN  call' = Called("multi", a, IF b = << >> THEN << >> ELSE MultiParts(MultiContent(a.parts, b), b))
-----------------------------------------------------------------------------
(* Addresses.  A string is a sequence of characters, or of encoded ones.    *)

Hex == "%" :> << "%", "2", "5" >> @@ "/" :> << "%", "2", "F" >> @@ " " :> << "%", "2", "0" >>
         @@ "&" :> << "%", "2", "6" >> @@ "=" :> << "%", "3", "D" >>

\* httpUriEncode(), httpUriDecode()
Encode(s, path) == FlattenSeq([i \in DOMAIN s |-> IF s[i] \in DOMAIN Hex /\ ~(path /\ s[i] = "/") THEN Hex[s[i]] ELSE << s[i] >>])
Decode(s) ==
    LET Char(h) == CHOOSE c \in DOMAIN Hex : Hex[c] = h
        Step(x, i) == IF x.skip > 0 THEN [x EXCEPT !.skip = @ - 1]
                      ELSE IF s[i] # "%" THEN [x EXCEPT !.out = Append(@, s[i])]
                      ELSE IF Len(s) - i < 2 THEN [x EXCEPT !.error = TRUE]
                      ELSE [x EXCEPT !.out = Append(@, Char(SubSeq(s, i, i + 2))), !.skip = 2]
        r == FoldLeft(Step, [out |-> << >>, skip |-> 0, error |-> FALSE], Rounds(Len(s)))
    IN  IF r.error THEN << Error >> ELSE r.out

Uri == NoCall /\ \E a \in UriCalls : call' = Called("uri", a, Encode(a.uri, a.path))

\* A query is a sequence of pairs; httpQueryRender(), httpQueryNewStr().
QueryRender(q, redact) ==
    LET Pair(i) == Encode(q[i][1], FALSE) \o << "=" >>
                     \o (IF q[i][1] \in redact THEN << "<redacted>" >> ELSE Encode(q[i][2], FALSE))
    IN  FlattenSeq([i \in DOMAIN q |-> IF i = 1 THEN Pair(i) ELSE << "&" >> \o Pair(i)])
SplitAt(s, c) ==
    LET Step(x, e) == IF e = c THEN Append(x, << >>) ELSE [x EXCEPT ![Len(x)] = Append(@, e)]
    IN  FoldLeft(Step, << << >> >>, s)
NoQuery == << << >> >>
QueryParse(s) ==
    LET list == SplitAt(s, "&")
        pairs == [i \in DOMAIN list |-> SplitAt(list[i], "=")]
    IN  IF \E i \in DOMAIN pairs : Len(pairs[i]) # 2 THEN NoQuery
        ELSE [i \in DOMAIN pairs |-> << Decode(pairs[i][1]), Decode(pairs[i][2]) >>]
\* httpQueryMerge(): no key may be there twice.
QueryMerge(q, more) ==
    IF \E i \in DOMAIN q, j \in DOMAIN more : q[i][1] = more[j][1] THEN NoQuery ELSE q \o more
Query == NoCall /\ \E a \in QueryCalls : 
    LET q == QueryMerge(a.query, a.more) IN call' = Called("query", a, IF q = NoQuery THEN << Error >> ELSE QueryRender(q, {}))

\* httpUrlNewParse(): u has a scheme, a host, a port and a path or None.
Url(u, expected) ==
    LET type == IF u.scheme = None THEN expected ELSE u.scheme
    IN  IF u.scheme # None /\ expected # None /\ u.scheme # expected THEN [type |-> Error]
        ELSE [type |-> type, host |-> u.host, port |-> IF u.port # 0 THEN u.port ELSE IF type = "http" THEN 80 ELSE 443,
              path |-> IF u.path = None THEN "/" ELSE u.path]
UrlParse == NoCall /\ \E a \in UrlCalls : call' = Called("url", a, Url(a.url, a.expected))
-----------------------------------------------------------------------------
(* Lists.  An object has versions in the order of their times; a version    *)
(* may say that the object was removed.                                     *)

\* What the service lists: S3 the newest version first and with the removals,
\* the others the oldest first.
ServiceListing(a) ==
    LET Entry(o, v) == [name |-> o.name, time |-> o.versions[v].time, gone |-> o.versions[v].gone, id |-> v]
        All(o) == [v \in DOMAIN o.versions |-> Entry(o, v)]
        Stored(o) == SelectSeq(All(o), LAMBDA e : ~e.gone)
        Of(o) == IF a.target = 0 THEN (IF Last(All(o)).gone THEN << >> ELSE << Last(All(o)) >>)
                 ELSE IF a.kind = "s3" THEN Reverse(All(o)) ELSE Stored(o)
    IN  FlattenSeq([i \in DOMAIN a.objects |-> Of(a.objects[i])])

NoInfo == [name |-> 0, exists |-> FALSE, id |-> 0, time |-> 0]

\* The last object is reported when another one comes or at the end.  The time
\* is also taken of versions that are skipped.
Reported(x, e) ==
    IF x.last.exists /\ x.last.name # e.name
    THEN [list |-> Append(x.list, x.last), last |-> [x.last EXCEPT !.exists = FALSE]] ELSE x
Skipped(x, e) == [Reported(x, e) EXCEPT !.last.time = e.time]
Found(x, e) == [Reported(x, e) EXCEPT !.last = [name |-> e.name, exists |-> TRUE, id |-> e.id, time |-> e.time]]

\* Faulty variant of S3Entry: an older version replaces the one that was found.
S3EntryOlder(target, x, e) ==
    IF target = 0 THEN Found(x, e)
    ELSE IF e.time > target THEN Skipped(x, e)
    ELSE IF e.gone THEN [Skipped(x, e) EXCEPT !.last.name = e.name, !.last.exists = FALSE]
    ELSE Found(x, e)

\* storageS3ListInternal(): the first version that is not too new decides.
S3Entry(target, x, e) ==
    IF target = 0 THEN Found(x, e)
    ELSE IF e.time > target \/ Skipped(x, e).last.name = e.name THEN Skipped(x, e)
    ELSE IF e.gone THEN [Skipped(x, e) EXCEPT !.last.name = e.name, !.last.exists = FALSE]
    ELSE Found(x, e)

\* storageAzureListInternal(), storageGcsListInternal(): the last one does.
OldestFirstEntry(target, x, e) == IF target # 0 /\ e.time > target THEN Skipped(x, e) ELSE Found(x, e)

\* Pages: the next one is asked for before this one is looked at, and the last
\* object is carried over.
ListPages(s, n) == [p \in 1..((Len(s) + n - 1) \div n) |-> SubSeq(s, (p - 1) * n + 1, IF p * n > Len(s) THEN Len(s) ELSE p * n)]
ListPage(a, x, page) ==
    FoldLeft(LAMBDA y, e : IF a.kind = "s3" THEN S3Entry(a.target, y, e) ELSE OldestFirstEntry(a.target, y, e), x, page)
ListInternal(a) ==
    LET x == FoldLeft(LAMBDA y, page : ListPage(a, y, page), [list |-> << >>, last |-> NoInfo], ListPages(ServiceListing(a), a.page))
    IN  IF x.last.exists THEN Append(x.list, x.last) ELSE x.list
List == NoCall /\ \E a \in ListCalls : call' = Called("objects", a, ListInternal(a))

\* storageS3Response(), storageAzureResponse(), storageGcsResponse(): which
\* codes are no errors.
CodeAccepted(code, allowed) == code = "ok" \/ code \in allowed
ObjectInfo(a) == IF ~CodeAccepted(a.code, {"missing"}) THEN Error ELSE IF a.code = "ok" THEN "exists" ELSE "missing"

\* storageReadS3Open() and others.  version: a version is asked for, id: it was
\* found in the list.
ObjectRead(a) ==
    LET asked == ~a.version \/ a.id
    IN  IF asked /\ ~CodeAccepted(a.code, {"missing"}) THEN Error
        ELSE IF asked /\ a.code = "ok" THEN "open"
        ELSE IF a.ignoreMissing THEN "missing" ELSE Error

\* storageS3Remove() and others: S3 says that a missing object was removed.
ObjectRemove(a) == IF CodeAccepted(a.code, IF a.kind = "s3" THEN {} ELSE {"missing"}) THEN "removed" ELSE Error
FileCall == NoCall /\ \E a \in FileCalls : call' = Called("object", a, [info |-> ObjectInfo(a), read |-> ObjectRead(a), remove |-> ObjectRemove(a)])
-----------------------------------------------------------------------------
(* Removing what is below a path.  refuse[x]: how often the service refuses *)
(* to remove x.  A batch is on its way while the next one is collected.     *)

Delete(o, x) == IF o.refuse[x] > 0 THEN [o EXCEPT !.refuse[x] = @ - 1] ELSE [o EXCEPT !.store = @ \ {x}]

\* Faulty variant of Answered: the errors of a batch are not looked at.
AnsweredAny(a, o) == [o EXCEPT !.sent = << >>]

\* The answer for the batch that is on its way: what it did not remove is
\* removed by a request of its own.
Answered(a, o) ==
    LET refused == SelectSeq(o.sent, LAMBDA x : x \in o.store)
        Again(y, x) == IF y.error THEN y
                       ELSE LET d == Delete(y, x) IN [d EXCEPT !.error = x \in d.store]
    IN  IF a.kind = "azure" THEN [o EXCEPT !.sent = << >>, !.error = refused # << >>]
        ELSE FoldLeft(Again, [o EXCEPT !.sent = << >>], refused)

\* storageS3PathRemoveInternal(), storageGcsPathRemoveInternal()
SendBatch(a, o) ==
    LET x == Answered(a, o)
    IN  IF x.error THEN x
        ELSE [FoldLeft(Delete, x, x.batch) EXCEPT !.sent = x.batch, !.batch = << >>]
CollectObject(a, o, x) ==
    IF o.error THEN o
    ELSE LET y == [o EXCEPT !.batch = Append(@, x)]
         IN  IF Len(y.batch) = (IF a.kind = "azure" THEN 1 ELSE a.max) THEN SendBatch(a, y) ELSE y
PathRemoved(a) ==
    LET all == FoldLeft(LAMBDA o, x : CollectObject(a, o, x),
                        [store |-> Range(a.objects) \cup a.others, refuse |-> a.refuse, batch |-> << >>, sent |-> << >>, error |-> FALSE],
                        a.objects)
        Rest(o) == IF ~o.error /\ o.batch # << >> THEN SendBatch(a, o) ELSE o
        End(o) == IF o.error THEN o ELSE Answered(a, o)
    IN  End(Rest(all))
PathRemoveObjects == NoCall /\ \E a \in PathRemoveCalls :
    LET Of(r) == [store |-> r.store, error |-> r.error] IN call' = Called("removed", a, Of(PathRemoved(a)))
-----------------------------------------------------------------------------
(* Writing an object.  Two writers may write to the same name.  A part that *)
(* was sent is answered before the next one is sent.  Requests that get no  *)
(* answer are sent again by the HTTP client ("twice").                      *)

Answers == {"ok", "twice", "lost", "refused"}
Arrives(answer) == answer \in {"ok", "twice", "lost"}
Good(answer) == answer \in {"ok", "twice"}

NoPart == [key |-> << >>, answer |-> None]
NewUpload(kind) ==
    [kind |-> kind, object |-> << >>, parts |-> << >>, committed |-> {},
     writer |-> [w \in 1..2 |-> [state |-> "open", buffer |-> << >>, written |-> << >>, upload |-> FALSE,
                                 list |-> << >>, total |-> 0, pending |-> NoPart]]]

UploadError(o, w) == [o EXCEPT !.writer[w].state = Error]
IfOpen(o, w, p) == IF o.writer[w].state = "open" THEN p ELSE o

\* storageWriteS3Part(), storageWriteAzureBlock(), storageWriteGcsBlock(): wait
\* for the answer.  S3 has the part in its list only now.
PartAnswered(o, w) ==
    LET x == o.writer[w]
        p == x.pending
    IN  IF p = NoPart THEN o
        ELSE IF ~Good(p.answer) THEN UploadError(o, w)
        ELSE [o EXCEPT !.writer[w] = [x EXCEPT !.pending = NoPart, !.list = IF o.kind = "s3" THEN Append(@, p.key) ELSE @]]

\* A part is known by the upload and its number, or by a file id that no other
\* writer has and its number.  An upload of GCS is one part that grows.
S3PartKey(o, w) == << w, Len(o.writer[w].list) + 1 >>
GcsPartKey(w) == << w, 0 >>

\* Faulty variant of AzurePartKey: blocks of other writers have the same names.
AzurePartKeyShared(o, w) == << 0, Len(o.writer[w].list) + 1 >>

AzurePartKey(o, w) == << w, Len(o.writer[w].list) + 1 >>
PartKey(o, w) ==
    CASE o.kind = "s3" -> S3PartKey(o, w) [] o.kind = "gcs" -> GcsPartKey(w) [] o.kind = "azure" -> AzurePartKey(o, w)

\* The service gets data: GCS puts it where the range says that it belongs.
Received(o, w, key, data) ==
    LET before == IF o.kind = "gcs" /\ o.writer[w].total > 0 THEN SubSeq(o.parts[key], 1, o.writer[w].total) ELSE << >>
    IN  [k \in DOMAIN o.parts \cup {key} |-> IF k = key THEN before \o data ELSE o.parts[k]]

\* storageWriteS3PartAsync(), storageWriteAzureBlockAsync(), storageWriteGcsBlockAsync()
PartAsync(o, w, answer) ==
    LET a == PartAnswered(o, w)
        x == a.writer[w]
        begin == a.kind # "azure" /\ ~x.upload /\ ~Good(answer)
        data == x.buffer
        key == PartKey(a, w)
        sent == [a EXCEPT !.writer[w] = [x EXCEPT !.upload = TRUE, !.pending = [key |-> key, answer |-> answer],
                                                  !.list = IF a.kind = "azure" THEN Append(@, key) ELSE @,
                                                  !.total = @ + Len(data), !.buffer = << >>],
                          !.parts = IF Arrives(answer) THEN Received(a, w, key, data) ELSE @]
    IN  IfOpen(a, w, IF begin THEN UploadError(a, w) ELSE sent)

\* storageWriteS3() and the others: the buffer is sent when it is full.
UploadUnit(o, w, unit, answer) ==
    LET old == o.writer[w]
        x == [o EXCEPT !.writer[w] = [old EXCEPT !.buffer = Append(@, unit), !.written = Append(@, unit)]]
    IN  IfOpen(o, w, IF Len(x.writer[w].buffer) = PartSize THEN PartAsync(x, w, answer) ELSE x)
UploadData(o, w, n, answer) ==
    LET Given[i \in 0..n] ==
            IF i = 0 THEN o ELSE UploadUnit(Given[i - 1], w, << w, Len(Given[i - 1].writer[w].written) + 1 >>, answer)
    IN  Given[n]

\* The object that the parts of a list make, and what is left of parts then:
\* Azure drops all blocks that are not in the list.
PartsOf(o, w) == IF o.kind = "gcs" THEN << GcsPartKey(w) >> ELSE o.writer[w].list
PartsStored(o, w) == \A k \in Range(PartsOf(o, w)) : k \in DOMAIN o.parts
Commit(o, w) ==
    IF ~PartsStored(o, w) THEN o
    ELSE [o EXCEPT !.object = FlattenSeq([i \in DOMAIN PartsOf(o, w) |-> o.parts[PartsOf(o, w)[i]]]),
                   !.committed = @ \cup {w},
                   !.parts = IF o.kind = "azure" THEN << >> ELSE Restrict(@, {k \in DOMAIN @ : k[1] # w})]

\* A list of parts that is sent a second time finds none of them; the upload of
\* GCS is over with its last chunk and says so again.
UploadFinished(o, w, answer) ==
    LET x == IF Arrives(answer) THEN Commit(o, w) ELSE o
        ok == PartsStored(o, w) /\ (answer = "ok" \/ (answer = "twice" /\ o.kind = "gcs"))
    IN  [x EXCEPT !.writer[w].state = IF ok THEN "closed" ELSE Error]

\* An object that is not larger than a part is sent as a whole.
WholePut(o, w, answer) ==
    [o EXCEPT !.object = IF Arrives(answer) THEN o.writer[w].buffer ELSE @,
              !.committed = IF Arrives(answer) THEN @ \cup {w} ELSE @,
              !.writer[w].state = IF Good(answer) THEN "closed" ELSE Error]

\* Faulty variant of PartsClose: what is left in the buffer is not sent.
PartsCloseRest(o, w, answer) == LET p == PartAnswered(o, w) IN IfOpen(p, w, UploadFinished(p, w, answer))

\* storageWriteS3Close(), storageWriteAzureClose()
PartsClose(o, w, answer) ==
    LET last == IF o.writer[w].buffer # << >> THEN PartAsync(o, w, answer) ELSE o
        p == PartAnswered(last, w)
    IN  IfOpen(p, w, UploadFinished(p, w, answer))

\* storageWriteGcsClose(): the last chunk ends the upload, even when it is empty.
\* The checksum and the size in the answer must be those of what was written.
ChunksClose(o, w, answer) ==
    LET a == PartAnswered(o, w)
        rest == a.writer[w].buffer
        g == [a EXCEPT !.parts = IF Arrives(answer) /\ rest # << >> THEN Received(a, w, GcsPartKey(w), rest) ELSE @]
        f == UploadFinished(g, w, answer)
    IN  IfOpen(a, w, IF f.writer[w].state = "closed" /\ f.object # f.writer[w].written THEN UploadError(f, w) ELSE f)

UploadClose(o, w, answer) ==
    IF ~o.writer[w].upload THEN WholePut(o, w, answer)
    ELSE IF o.kind = "gcs" THEN ChunksClose(o, w, answer) ELSE PartsClose(o, w, answer)

Upload == NoCall /\ \E kind \in UploadKinds : call' = Made("upload", NewUpload(kind))
UploadWriter(w) == Returns("upload") /\ call.obj.writer[w].state = "open"
UploadWrite ==
    \E w \in 1..2, n \in 1..(PartSize + 1), answer \in Answers :
        /\ UploadWriter(w) /\ Len(call.obj.writer[w].written) + n <= MaxUpload
        /\ Become(UploadData(call.obj, w, n, answer))
UploadEnd == \E w \in 1..2, answer \in Answers : UploadWriter(w) /\ Become(UploadClose(call.obj, w, answer))
-----------------------------------------------------------------------------
(* Credentials that expire: those of S3 by role or web identity, the token  *)
(* of GCS.  A new one is good for life units of time.                       *)

NotUsed == [key |-> << 0, 0 >>, cred |-> 0, valid |-> -1]
NewCredentials(kind) ==
    [kind |-> kind, now |-> 0, cred |-> 0, expire |-> 0, freed |-> FALSE, key |-> << 0, 0 >>, date |-> -1, used |-> NotUsed]

Obtained(o, life, until) == [o EXCEPT !.cred = @ + 1, !.date = -1, !.expire = until]
Used(o, valid) == [o EXCEPT !.used = [key |-> o.key, cred |-> o.cred, valid |-> valid]]

\* Faulty variant of Sign: the signing key of the day is kept.
SignDay(o) ==
    LET today == o.now \div DayLength
    IN  IF o.key[2] = today /\ o.key[1] # 0 THEN o ELSE [o EXCEPT !.key = << o.cred, today >>, !.date = today]

\* storageS3Auth(): a new signing key each day.
Sign(o) ==
    LET today == o.now \div DayLength
    IN  IF o.date = today THEN o ELSE [o EXCEPT !.key = << o.cred, today >>, !.date = today]

\* storageS3RequestAsync(): the old ones are freed before there are others, and
\* a date that no day has makes a new signing key.  life is 0 when the request
\* for credentials ends in an error.
S3Credentialed(o, life) ==
    IF o.expire - o.now >= RenewMargin THEN LET s == Sign(o) IN Used(s, s.expire - s.now)
    ELSE IF life = 0 THEN [o EXCEPT !.freed = TRUE, !.used = NotUsed]
    ELSE LET s == Sign(Obtained(o, life, o.now + life)) IN Used(s, life)

\* storageGcsAuth(): the token is taken to expire early.
GcsCredentialed(o, life) ==
    LET Valid(x) == x.expire + RenewMargin - x.now
    IN  IF o.now < o.expire THEN Used(o, Valid(o))
        ELSE IF life = 0 THEN [o EXCEPT !.used = NotUsed]
        ELSE LET r == Obtained(o, life, o.now + life - RenewMargin) IN Used(r, Valid(r))

Credentials == NoCall /\ \E kind \in {"s3", "gcs"} : call' = Made("credentials", NewCredentials(kind))
CredentialTick == Returns("credentials") /\ call.obj.now < MaxNow /\ Become([call.obj EXCEPT !.now = @ + 1, !.used = NotUsed])
CredentialUse ==
    /\ Returns("credentials") /\ ~call.obj.freed /\ call.obj.cred <= MaxNow
    /\ \E life \in {0, RenewMargin + 1, 2 * RenewMargin + 1} : 
          Become(IF call.obj.kind = "s3" THEN S3Credentialed(call.obj, life) ELSE GcsCredentialed(call.obj, life))

\* storageS3AuthAuto(): the requests for the credentials of a role.
RoleCredentials(a) ==
    IF ~a.role /\ a.list # "ok" THEN Error
    ELSE IF a.get # "ok" THEN Error
    ELSE IF a.code # "Success" \/ a.missing THEN Error ELSE a.token
RoleCall == NoCall /\ \E a \in [role : BOOLEAN, list : {"ok", "missing", "bad"}, get : {"ok", "missing", "bad"},
                                code : {"Success", "Failed", None}, missing : BOOLEAN, token : {"token", None}] :
    call' = Called("role", a, RoleCredentials(a))

\* storageS3RequestAsync(): what is sent with the requests: the tags, the key of
\* the service and the key of the customer.
S3Request == [create |-> {"kms", "customer", "tag"}, part |-> {"customer"}, complete |-> {}, put |-> {"kms", "customer", "tag"},
              get |-> {"customer"}, head |-> {"customer"}, delete |-> {}, list |-> {}]
S3Headers(a) ==
    {"content-length"} \cup (IF a.content THEN {"content-md5"} ELSE {}) \cup (S3Request[a.request] \cap a.configured)

\* storageS3Auth(): headers that are signed; a request that is sent again has
\* its authorization already.
S3Signed(headers) == (headers \cup {"host", "date", "sha256"}) \ {"authorization", "content-length"}

\* storageAzureAuth(): headers and query that are signed with the shared key, or
\* the query with the signature that was given.
AzureSigned(a) ==
    IF a.shared THEN [headers |-> (a.headers \cap {"content-length", "content-md5", "range", "tags"}) \cup {"date", "version"},
                      query |-> a.query, sent |-> a.query]
    ELSE [headers |-> {}, query |-> {}, sent |-> a.query \cup {"sig"}]

\* storageS3New(), storageAzureNew(): the host and the path of an object.
S3Address(style) == IF style = "host" THEN << "bucket", "endpoint", "/", "object" >> ELSE << "endpoint", "/", "bucket", "object" >>
AzureAddress(style) ==
    IF style = "host" THEN << "account", "endpoint", "/", "container", "object" >>
    ELSE << "endpoint", "/", "account", "container", "object" >>
RequestCall ==
    NoCall /\ \E a \in [request : DOMAIN S3Request, content : BOOLEAN, configured : SUBSET {"kms", "customer", "tag"},
                        shared : BOOLEAN, style : {"host", "path"}] :
        LET headers == S3Headers(a)
        IN  call' = Called("request", a,
                [headers |-> headers, signed |-> S3Signed(headers), again |-> S3Signed(S3Signed(headers) \cup {"content-length", "authorization"}),
                 azure |-> AzureSigned([shared |-> a.shared, headers |-> headers, query |-> {"comp"}]),
                 address |-> << S3Address(a.style), AzureAddress(a.style) >>])

ObjectStoreNext ==
    \/ HttpConnect \/ HttpRequest \/ HttpResponse \/ HttpRead \/ HttpFree
    \/ Body \/ Header \/ Multi \/ Uri \/ Query \/ UrlParse
    \/ List \/ FileCall \/ PathRemoveObjects
    \/ Upload \/ UploadWrite \/ UploadEnd
    \/ RequestCall \/ Credentials \/ CredentialTick \/ CredentialUse \/ RoleCall
ObjectStoreSpec == NoCall /\ [][ObjectStoreNext]_call
-----------------------------------------------------------------------------
\* A request gets the reply to itself, however often it was sent and whatever
\* else uses the sessions; a session that may be reused is open, is read to the
\* end and nobody else's.
OwnReplies ==
    Returns("http") =>
        LET o == call.obj
        IN  /\ \A r \in DOMAIN o.request : o.request[r].state \in {"done", "reading"} => o.request[r].got = r
            /\ \A i \in DOMAIN o.reuse :
                  LET s == o.session[o.reuse[i]]
                  IN  /\ s.live /\ ~s.closed /\ s.stream = << >> /\ s.left = 0
                      /\ \A r \in DOMAIN o.request : o.request[r].session # o.reuse[i]
                      /\ \A j \in DOMAIN o.reuse : o.reuse[i] = o.reuse[j] => i = j

\* Content is what was sent, what follows it stays for the next reply, and a
\* connection that ends before the content is an error; parts of a multipart
\* request come back as they were.
ContentWhole ==
    /\ Returns("body") =>
          IF call.arg.cut > 0 THEN call.result.error
          ELSE ~call.result.error /\ call.result.rest = call.arg.next /\ call.result.data = Data(0, FoldLeft(+, 0, call.arg.chunks))
    /\ Returns("multi") /\ call.result # << >> => call.result = call.arg.parts
    /\ Returns("uri") => Decode(call.result) = call.arg.uri
    /\ Returns("query") /\ call.result # << Error >> =>
          QueryParse(call.result) = call.arg.query \o call.arg.more
    /\ Returns("url") /\ call.result.type # Error =>
          /\ call.arg.expected # None => call.result.type = call.arg.expected
          /\ call.arg.url.port # 0 => call.result.port = call.arg.url.port
    /\ Returns("header") /\ call.result = "until close" => call.arg.close

\* A list at a time has each object that was there then, in the version that it
\* had, and no other, wherever the pages end.  Services that keep no record of
\* a removal list what was removed, too.
ListedAsOf ==
    Returns("objects") =>
        LET a == call.arg
            Upto(o) == {v \in DOMAIN o.versions : (a.target = 0 \/ o.versions[v].time <= a.target)
                                                   /\ (a.kind = "s3" \/ a.target = 0 \/ ~o.versions[v].gone)}
            There == {i \in DOMAIN a.objects : Upto(a.objects[i]) # {} /\ ~a.objects[i].versions[Max(Upto(a.objects[i]))].gone}
        IN  /\ {<< e.name, e.id >> : e \in Range(call.result)}
                   = {<< a.objects[i].name, Max(Upto(a.objects[i])) >> : i \in There}
            /\ Len(call.result) = Cardinality(There)

\* Without an error nothing is left below the path, and nothing else was removed.
AllRemoved ==
    Returns("removed") =>
        /\ call.arg.others \subseteq call.result.store
        /\ ~call.result.error => call.result.store = call.arg.others

\* The object is always the whole of what a writer wrote, or what was there;
\* a writer that was told that it is stored has stored it.
UploadsWhole ==
    Returns("upload") =>
        LET o == call.obj
        IN  /\ o.object = << >> \/ \E w \in o.committed : o.object = o.writer[w].written
            /\ \A w \in DOMAIN o.writer : o.writer[w].state = "closed" => w \in o.committed

\* A request is made with credentials that stay good for a while and is signed
\* with them.
CredentialsGood ==
    Returns("credentials") =>
        LET o == call.obj
        IN  o.used # NotUsed =>
                /\ o.used.valid >= RenewMargin
                /\ o.kind = "s3" => o.used.key = << o.used.cred, o.now \div DayLength >>

\* An object that is encrypted with the key of the customer is read with it, and
\* nothing is sent that is not signed, the first time and again.
RequestsSigned ==
    /\ \A r \in {"create", "part", "put"} : S3Request[r] \cap {"customer"} = S3Request.get \cap {"customer"}
    /\ Returns("request") =>
          /\ call.result.headers \ call.result.signed = {"content-length"}
          /\ call.result.again = call.result.signed
          /\ \A i \in 1..2 : IsInjective(call.result.address[i])
          /\ call.result.address[1][Len(call.result.address[1])] = "object"

\* What several requests have to agree on: the sessions that they share, the
\* parts of an object and the credentials.
RequestsSound == OwnReplies /\ UploadsWhole /\ CredentialsGood

\* What a single call makes of content, lists, addresses and headers.
ObjectStoreSound == ContentWhole /\ ListedAsOf /\ AllRemoved /\ RequestsSigned
=============================================================================
