------------------------------ MODULE Protocol ------------------------------
(***************************************************************************)
(* The protocol between a client and its server process and the parallel   *)
(* executor on top of it (protocol/client.c, server.c, parallel.c,         *)
(* parallelJob.c, helper.c and storage/remote/read.c, write.c).            *)
(*                                                                         *)
(* Client and server take turns on two streams: what the client reads does *)
(* not depend on when the server has written it, so a request is answered  *)
(* as it is sent and the answer waits in the stream.                       *)
(***************************************************************************)
EXTENDS Objects, SequencesExt, FiniteSetsExt, Functions

CONSTANTS
    MaxSession,     \* bound on the sessions of a client
    MaxBlock,       \* bound on the blocks of a file that is read
    FreeEarly,      \* sessions may be freed whatever is still to be read for them
    Affinity,       \* job lists: Affinity[i] is a sequence of sets of clients that may run a job
    RetryCalls, RemoteCalls, AuthorizeCalls

ASSUME ProtocolAssumption ==
    /\ {MaxSession, MaxBlock} \subseteq Nat /\ FreeEarly \in BOOLEAN
    /\ Affinity \subseteq Seq(SUBSET (1..2))
    /\ \A a \in RetryCalls : a.retries \in Nat /\ a.outcomes \in Seq(STRING) /\ a.outcomes # << >>
    /\ \A a \in RemoteCalls : \A x \in a.options : x \in [group : {"pg", "repo"}, index : Nat, value : STRING, needed : BOOLEAN]

NoMessage == [id |-> 0, n |-> 0, close |-> FALSE, error |-> FALSE]
Freed == [NoMessage EXCEPT !.n = -1]        \* a message whose memory was freed
-----------------------------------------------------------------------------
(* The server: its sessions are the files that are open, with the blocks    *)
(* that are left of a file that is read.                                    *)

Answer(o, id, close, error) ==
    [id |-> id, n |-> o.session[id].asked + 1, close |-> close, error |-> error]

\* protocolServerProcess(), one request: the answer and the sessions after it.
Serve(o, id, type, fails) ==
    LET s == o.session[id]
        Kept(close, error) == [answer |-> Answer(o, id, close, error), open |-> o.server]
        Without(close) == [answer |-> Answer(o, id, close, FALSE),
                           open |-> Restrict(o.server, DOMAIN o.server \ {id})]
        With(n) == [answer |-> Answer(o, id, FALSE, FALSE),
                   open |-> [x \in DOMAIN o.server \cup {id} |-> IF x = id THEN n ELSE o.server[x]]]
        Found == id \in DOMAIN o.server
    IN  IF fails /\ type # "cancel" THEN Kept(FALSE, TRUE)
        ELSE IF type = "open" THEN IF s.command = "read" /\ s.blocks = 0 THEN Kept(TRUE, FALSE) ELSE With(s.blocks)
        ELSE IF type = "cancel" THEN Without(TRUE)
        ELSE IF s.open /\ ~Found THEN Kept(FALSE, TRUE)
        ELSE IF type = "close" THEN Without(TRUE)
        ELSE IF type = "process" /\ s.command = "read"
             THEN IF o.server[id] = 1 THEN Without(TRUE) ELSE With(o.server[id] - 1)
        ELSE Kept(FALSE, FALSE)

\* The request is tried again job-retry times; the error that is reported is
\* the first one, with the others counted below it.
Handled(outcomes, retries) ==
    LET tries == SubSeq(outcomes, 1, IF Len(outcomes) > retries THEN retries + 1 ELSE Len(outcomes))
        good == {i \in DOMAIN tries : tries[i] = None}
        Counted(m) == Cardinality({i \in 2..Len(tries) : tries[i] = m})
    IN  IF good # {} THEN [error |-> None, tries |-> Min(good), more |-> << >>]
        ELSE [error |-> tries[1], tries |-> Len(tries),
              more |-> [m \in Range(Tail(tries)) |-> Counted(m)]]

Retry == NoCall /\ \E a \in RetryCalls : call' = Called("retry", a, Handled(a.outcomes, a.retries))
-----------------------------------------------------------------------------
(* The client.                                                              *)

NewSession(command, blocks) ==
    [command |-> command, blocks |-> blocks, open |-> FALSE, queued |-> FALSE, stored |-> NoMessage,
     listed |-> command # "call", alive |-> TRUE, failed |-> FALSE, asked |-> 0, taken |-> 0]
Gone == [NewSession(None, 0) EXCEPT !.listed = FALSE, !.alive = FALSE]

\* lost: an answer belongs to no session the client knows, or to one that has
\* an answer already, or it was given to a session that has not asked for it.
NewClient == [session |-> << >>, stream |-> << >>, server |-> << >>, idle |-> TRUE,
              thrown |-> FALSE, lost |-> FALSE]

\* protocolClientStateExpectIdle()
Throw(o) == [o EXCEPT !.thrown = TRUE]
Then(o, p) == IF o.thrown THEN o ELSE p

\* A session with a request that is queued.
Queued(s) == [s EXCEPT !.queued = TRUE, !.asked = @ + 1]

\* protocolClientRequestInternal()
Request(o, id, type, fails) ==
    LET r == Serve(o, id, type, fails)
    IN  IF ~o.idle THEN Throw(o)
        ELSE [o EXCEPT !.stream = Append(@, r.answer), !.server = r.open,
                       !.session[id] = Queued(@)]

\* The answer m is the result of the session.
GivenAnswer(s, m) ==
    [s EXCEPT !.queued = FALSE, !.taken = @ + 1, !.open = @ /\ ~m.close, !.failed = @ \/ m.error]
Take(o, id, m) ==
    [o EXCEPT !.session[id] = GivenAnswer(@, m), !.thrown = m.error,
              !.lost = @ \/ m.id # id \/ m.n # o.session[id].taken + 1]

\* Faulty variant of Response: the next message is taken for the answer.
ResponseNext(o, id) ==
    IF ~o.idle THEN Throw(o)
    ELSE IF o.stream = << >> THEN [Throw(o) EXCEPT !.lost = TRUE]
    ELSE Take([o EXCEPT !.stream = Tail(@)], id, Head(o.stream))

\* protocolClientResponseInternal(): answers for other sessions that come first
\* are stored with them.  The one that was stored is taken first.
Response(o, id) ==
    LET own == {i \in DOMAIN o.stream : o.stream[i].id = id}
        k == Min(own)
        before == SubSeq(o.stream, 1, k - 1)
        Others == {before[i].id : i \in DOMAIN before}
        Unknown == \/ \E x \in Others : ~o.session[x].listed \/ o.session[x].stored # NoMessage
                   \/ \E i, j \in DOMAIN before : i # j /\ before[i].id = before[j].id
        Of(x) == before[CHOOSE i \in DOMAIN before : before[i].id = x]
        WithStored == << >> \o [x \in DOMAIN o.session |->
                         IF x \in Others THEN [o.session[x] EXCEPT !.stored = Of(x)] ELSE o.session[x]]
        after == [o EXCEPT !.stream = SubSeq(@, k + 1, Len(@)), !.session = WithStored]
    IN  IF ~o.idle THEN Throw(o)
        ELSE IF o.session[id].stored # NoMessage
             THEN Take([o EXCEPT !.session[id].stored = NoMessage], id, o.session[id].stored)
        ELSE IF own = {} \/ Unknown THEN [Throw(o) EXCEPT !.idle = FALSE, !.lost = TRUE]
        ELSE Take(after, id, o.stream[k])

\* Faulty variant of FreeResource: an open session is not cancelled.
FreeResourceOpen(o, id) ==
    LET s == o.session[id]
        read == IF s.queued /\ s.stored = NoMessage THEN Response(o, id) ELSE o
    IN  Then(read, [read EXCEPT !.session[id].listed = FALSE])

\* protocolClientSessionFreeResource(): what is queued is read, the session is
\* cancelled when it is still open and taken off the list.  An answer that is
\* stored is freed but stays stored.
FreeResource(o, id) ==
    LET s == o.session[id]
        read == IF ~s.queued THEN o
                ELSE IF s.stored # NoMessage THEN [o EXCEPT !.session[id].stored = Freed]
                ELSE Response(o, id)
        Cancelled(r) == IF r.session[id].open THEN Response(Request(r, id, "cancel", FALSE), id) ELSE r
        Unlisted(r) == Then(r, [r EXCEPT !.session[id].listed = FALSE])
        AfterRead(r) == Then(r, Unlisted(Cancelled(r)))
    IN  AfterRead(read)

\* protocolClientSessionCancel(), protocolClientSessionFree()
FreedOrLeft(f, id) ==
    IF f.session[id].listed THEN [f EXCEPT !.session[id].alive = FALSE] ELSE [f EXCEPT !.session[id] = Gone]
Free(o, id) == FreedOrLeft(FreeResource(o, id), id)

\* protocolClientSessionClose()
Close(o, id, fails) ==
    LET Freely(r) == Then(r, Free(r, id))
    IN  Freely(Response(Request(o, id, "close", fails), id))

\* protocolClientSessionOpen(): the session is open before the answer is there.
Open(o, id, fails) ==
    LET r == Request(o, id, "open", fails)
    IN  Response([r EXCEPT !.session[id].open = TRUE], id)
-----------------------------------------------------------------------------
(* The users of a client.                                                   *)

Object(op) == call.op = op
Client == call.obj
Session == DOMAIN Client.session
Fresh(o) == [o EXCEPT !.thrown = FALSE]
Begin(command, blocks) == [Fresh(Client) EXCEPT !.session = Append(@, NewSession(command, blocks))]

Connect == NoCall /\ call' = [op |-> "client", obj |-> NewClient]

\* After an error the object of a session is only freed.
Usable(id, command) == /\ Client.session[id].alive /\ ~Client.session[id].failed
                       /\ Client.session[id].command = command
More == Object("client") /\ Len(Client.session) < MaxSession
New == Len(Client.session) + 1

\* storageReadRemoteOpen(), storageWriteRemoteOpen()
FileOpen ==
    /\ More
    /\ \E command \in {"read", "write"}, n \in 0..MaxBlock, fails \in BOOLEAN :
          /\ command = "write" => n = 0
          /\ Become(Open(Begin(command, n), New, fails))

\* storageReadRemote(): the next block is asked for before this one is used.
ReadBlock ==
    /\ Object("client")
    /\ \E id \in Session, fails \in BOOLEAN :
          LET c == Fresh(Client)
              asked == IF c.session[id].queued THEN c ELSE Request(c, id, "process", fails)
              r == Response(asked, id)
          IN  /\ Usable(id, "read") /\ Client.session[id].open
              /\ Become(Then(r, IF r.session[id].open THEN Request(r, id, "process", fails) ELSE r))

\* storageWriteRemote(): what was written last is only waited for now.
Waited(c, id) == IF c.session[id].queued THEN Response(c, id) ELSE c

WriteBlock ==
    /\ Object("client")
    /\ \E id \in Session, fails \in BOOLEAN :
          LET c == Waited(Fresh(Client), id)
          IN  /\ Usable(id, "write") /\ Client.session[id].open
              /\ Client.session[id].asked < 3
              /\ Become(Then(c, Request(c, id, "process", fails)))

\* storageWriteRemoteClose()
WriteClose ==
    /\ Object("client")
    /\ \E id \in Session, fails \in BOOLEAN :
          LET c == Waited(Fresh(Client), id)
          IN  /\ Usable(id, "write") /\ Client.session[id].open
              /\ Become(Then(c, Close(c, id, fails)))

\* A reader is closed at the end or before it, or a session is freed with its
\* object when there was an error.
Unread(id) == \/ Client.session[id].stored # NoMessage
              \/ \E m \in Range(Client.stream) : m.id = id /\ m.error
SessionFree ==
    /\ Object("client")
    /\ \E id \in Session : /\ Client.session[id].alive
                           /\ FreeEarly \/ ~Unread(id) \/ ~Client.session[id].open
                           /\ Become(Free(Fresh(Client), id))

\* protocolClientRequest(), protocolClientNoOp()
SimpleRequest ==
    /\ More
    /\ \E fails \in BOOLEAN :
          LET c == Response(Request(Begin("call", 0), New, "process", fails), New)
          IN  Become([c EXCEPT !.session[New] = Gone])

\* A job of the parallel executor: request and answer are two steps.
JobRequest ==
    /\ More
    /\ \E fails \in BOOLEAN : Become(Request(Begin("job", 0), New, "process", fails))

JobAnswer ==
    /\ Object("client")
    /\ \E id \in Session :
          LET c == Response(Fresh(Client), id)
          IN  /\ Usable(id, "job") /\ Client.session[id].queued
              /\ Become(Free([c EXCEPT !.thrown = FALSE], id))
-----------------------------------------------------------------------------
(* The parallel executor, with two clients.                                 *)

\* allowed[j]: clients that may run job j.  The callback gives a client the
\* first of the jobs left that it may run.
NewParallel(allowed) ==
    [allowed |-> allowed, left |-> DOMAIN allowed, job |-> [c \in 1..2 |-> 0], freed |-> [c \in 1..2 |-> 0],
     list |-> << >>, state |-> [j \in DOMAIN allowed |-> "pending"], result |-> [j \in DOMAIN allowed |-> 0],
     returned |-> << >>, done |-> FALSE]

Callback(o, c) ==
    LET mine == {j \in o.left : c \in o.allowed[j]}
    IN  IF mine = {} THEN 0 ELSE Min(mine)

\* The results of the jobs of some clients, or their errors.
Results(o, ready, good) ==
    [j \in DOMAIN o.result |-> IF \E c \in good : o.job[c] = j THEN j
                              ELSE IF \E c \in ready : o.job[c] = j THEN -j ELSE o.result[j]]
States(o, ready) == [j \in DOMAIN o.state |-> IF \E c \in ready : o.job[c] = j THEN "done" ELSE o.state[j]]

\* Faulty variant of Finish: the clients keep their jobs.
FinishKept(o, ready, good) == [o EXCEPT !.state = States(o, ready), !.result = Results(o, ready, good)]

\* The answers of the clients that are ready are there.
Finish(o, ready, good) ==
    [o EXCEPT !.state = States(o, ready), !.result = Results(o, ready, good),
              !.job = [c \in DOMAIN o.job |-> IF c \in ready THEN 0 ELSE o.job[c]]]

\* A client without a job gets the next one or is freed.
NextJob(o, c) ==
    LET j == Callback(o, c)
    IN  IF o.job[c] # 0 THEN o
        ELSE IF j = 0 THEN [o EXCEPT !.freed[c] = IF @ < 2 THEN @ + 1 ELSE @]
        ELSE [o EXCEPT !.job[c] = j, !.left = @ \ {j}, !.list = Append(@, j),
                       !.state[j] = IF @ = "pending" THEN "running" ELSE "assert"]

\* protocolParallelProcess(): the answers that are there, then the new jobs.
Running(o) == {c \in DOMAIN o.job : o.job[c] # 0}
Processed(o, ready, good) == NextJob(NextJob(Finish(o, ready, good), 1), 2)

ParallelNew ==
    NoCall /\ \E allowed \in Affinity : call' = [op |-> "parallel", obj |-> NewParallel(allowed)]

\* select() waits until there is an answer or the timeout has passed.
ParallelProcess ==
    /\ Object("parallel") /\ ~call.obj.done
    /\ \E ready \in SUBSET Running(call.obj) : \E good \in SUBSET ready :
          Become(Processed(call.obj, ready, good))

\* protocolParallelResult(): the first job of the list that is done.
Finished(o) == {i \in DOMAIN o.list : o.state[o.list[i]] = "done"}
ParallelResult ==
    /\ Object("parallel") /\ ~call.obj.done /\ Finished(call.obj) # {}
    /\ LET i == Min(Finished(call.obj))
           j == call.obj.list[i]
       IN  Become([call.obj EXCEPT !.list = RemoveAt(@, i), !.returned = Append(@, call.obj.result[j])])

\* protocolParallelDone(), which the command asks when it has all results.
ParallelDone ==
    /\ Object("parallel") /\ ~call.obj.done
    /\ call.obj.list = << >> /\ \E c \in DOMAIN call.obj.freed : call.obj.freed[c] > 0
    /\ Become([call.obj EXCEPT !.done = TRUE])
-----------------------------------------------------------------------------
(* Processes at the other end (protocol/helper.c).                          *)

\* protocolServerAuthorize(): the stanzas a certificate is good for.
Authorized(list, stanza) == "*" \in list \/ (stanza # None /\ stanza \in list)

\* protocolServer(): a client without a certificate may only see that the
\* server is alive.
Accepted(a) ==
    IF ~a.certificate THEN (IF a.command = "noop" THEN "alive" ELSE Error)
    ELSE IF a.command # "config" THEN Error
    ELSE IF Authorized(a.list, a.stanza) THEN "serve" ELSE Error

Authorize == NoCall /\ \E a \in AuthorizeCalls : call' = Called("authorize", a, Accepted(a))

\* protocolRemoteParam(): options of the remote process.  An option is a group,
\* "pg" or "repo", the index of a host and a value; the remote for a pg host
\* finds its own under the first index, the one for a repository is told which
\* one is the default.
RemoteOptions(a) ==
    LET Own(g) == {x \in a.options : x.group = g /\ x.index = a.host}
    IN  IF a.type = "pg" THEN {[x EXCEPT !.index = 1] : x \in Own("pg")}
        ELSE Own("repo") \cup {x \in a.options : x.group = "pg" /\ x.needed}

\* protocolLocalParam(): a worker has them all and the host it works for.
LocalOptions(a) == a.options

\* Process number and lock: only the remote of the main process takes the lock.
TakesLock(a) == a.process = 0 /\ a.lockRemote

RemoteParam ==
    /\ NoCall
    /\ \E a \in RemoteCalls :
          call' = Called("remote", a,
                         [options |-> IF a.local THEN LocalOptions(a) ELSE RemoteOptions(a),
                          repo |-> IF a.local THEN a.repo ELSE IF a.type = "repo" THEN a.host ELSE 0,
                          lock |-> ~a.local /\ TakesLock(a)])

ProtocolNext ==
    \/ Connect \/ FileOpen \/ ReadBlock \/ WriteBlock \/ WriteClose \/ SessionFree
    \/ SimpleRequest \/ JobRequest \/ JobAnswer
    \/ ParallelNew \/ ParallelProcess \/ ParallelResult \/ ParallelDone
    \/ Retry \/ Authorize \/ RemoteParam
-----------------------------------------------------------------------------
\* Each session gets the answers to its own requests in the order of the
\* requests, whatever else is read from the stream meanwhile, and no answer is
\* left for one that is gone.
OwnAnswers ==
    Object("client") =>
        /\ ~Client.lost
        /\ \A i \in DOMAIN Client.stream : Client.session[Client.stream[i].id].queued

\* A file the server has open belongs to a session that will close or cancel it.
SessionsReleased ==
    Object("client") => \A id \in DOMAIN Client.server : Client.session[id].listed /\ Client.session[id].open

\* When the executor is done each job has been run once by a client that may
\* run it and its own result or error was returned once; no client that was
\* freed has a job.
AllJobsReturned ==
    Object("parallel") =>
        LET o == call.obj
            abs(x) == IF x < 0 THEN -x ELSE x
        IN  /\ \A c \in DOMAIN o.job : o.freed[c] > 0 => o.job[c] = 0
            /\ \A j \in DOMAIN o.state : o.state[j] # "assert"
            /\ \A i, k \in DOMAIN o.returned : abs(o.returned[i]) = abs(o.returned[k]) => i = k
            /\ o.done => {abs(x) : x \in Range(o.returned)} = {j \in DOMAIN o.allowed : o.allowed[j] # {}}

\* Errors of the requests do not hide each other, and access is only given for
\* a stanza the certificate was made for.
ServerAnswers ==
    /\ Returns("retry") =>
          LET a == call.arg
              r == call.result
          IN  /\ r.tries <= a.retries + 1
              /\ r.error # None => \A i \in 1..r.tries : a.outcomes[i] \in {r.error} \cup DOMAIN r.more
              /\ r.error = None => a.outcomes[r.tries] = None
    /\ Returns("authorize") /\ call.result = "serve" =>
          call.arg.certificate /\ ("*" \in call.arg.list \/ call.arg.stanza \in call.arg.list)
    /\ Returns("remote") =>
          LET a == call.arg
              r == call.result
          IN  /\ ~a.local /\ a.type = "pg" => \A x \in r.options : x.index = 1 /\ x.group = "pg"
              /\ ~a.local /\ a.type = "repo" => \A x \in r.options : x.group = "repo" => x.index = r.repo
              /\ r.lock => a.process = 0

\* What the users of the protocol rely on.
ProtocolSound == OwnAnswers /\ SessionsReleased /\ AllJobsReturned /\ ServerAnswers
=============================================================================
