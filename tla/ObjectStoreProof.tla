--------------------------- MODULE ObjectStoreProof ---------------------------
(***************************************************************************)
(* Proofs about what several requests to an object store share: sessions,  *)
(* the parts of an object that is being written, and credentials.  They    *)
(* hold for any number of requests, parts, retries and renewals.           *)
(***************************************************************************)
EXTENDS ObjectStore, SequenceTheorems, WellFoundedInduction, TLAPS

-----------------------------------------------------------------------------
(* Repeated steps.                                                          *)

\* A set of numbers has a least one.
LEMMA LeastNumber ==
    ASSUME NEW T \in SUBSET Nat, T # {}
    PROVE  \E x \in T : \A y \in T : x <= y
<1> DEFINE Less == {p \in Nat \X Nat : p[1] < p[2]}
<1>1. IsWellFoundedOn(Less, Nat)
  BY NatLessThanWellFounded DEF OpToRel
<1>2. PICK x \in T : \A y \in T : ~ (<< y, x >> \in Less)
  BY <1>1, WFMin
<1>3. ASSUME NEW y \in T PROVE x <= y
  <2>1. ~ (y < x)
    BY <1>2
  <2> QED BY <2>1
<1> QED BY <1>3

IsRun(n, S, a, g, f) == f \in [0..n -> S] /\ f[0] = a /\ \A i \in 1..n : f[i] = g[<< i, f[i - 1] >>]

\* There is a run of n steps from a state of S when a step leads to S again.
LEMMA RunExists ==
    ASSUME NEW n \in Nat, NEW S, NEW a \in S, NEW g \in [(1..n) \X S -> S]
    PROVE  \E f : IsRun(n, S, a, g, f)
<1> USE DEF IsRun
<1> DEFINE Run(m, f) == f \in [0..m -> S] /\ f[0] = a /\ \A i \in 1..m : f[i] = g[<< i, f[i - 1] >>]
           T == {m \in 0..n : ~ \E f : Run(m, f)}
<1>1. SUFFICES ASSUME T # {} PROVE FALSE
  <2>1. n \notin T
    BY <1>1
  <2> QED BY <2>1
<1>2. PICK m \in T : \A k \in T : m <= k
  <2>1. T \in SUBSET Nat
    OBVIOUS
  <2> QED BY <1>1, <2>1, LeastNumber
<1>3. m # 0
  <2>1. Run(0, [i \in 0..0 |-> a])
    OBVIOUS
  <2> QED BY <2>1
<1>4. m - 1 \in 0..n /\ m \in 1..n
  BY <1>3
<1>5. PICK f : Run(m - 1, f)
  BY <1>2, <1>4, SMTT(30)
<1> DEFINE h == [i \in 0..m |-> IF i = m THEN g[<< m, f[m - 1] >>] ELSE f[i]]
<1>6. Run(m, h)
  <2>1. f[m - 1] \in S
    BY <1>4, <1>5
  <2>2. g[<< m, f[m - 1] >>] \in S
    BY <1>4, <2>1
  <2>3. h \in [0..m -> S]
    BY <1>4, <1>5, <2>2
  <2>4. h[0] = a
    BY <1>3, <1>4, <1>5
  <2>5. ASSUME NEW i \in 1..m PROVE h[i] = g[<< i, h[i - 1] >>]
    <3>1. i - 1 \in 0..m /\ i - 1 # m /\ h[i - 1] = f[i - 1]
      BY <1>4
    <3>2. CASE i = m
      BY <3>1, <3>2, <1>4
    <3>3. CASE i # m
      BY <3>1, <3>3, <1>4, <1>5
    <3> QED BY <3>2, <3>3
  <2> QED BY <2>3, <2>4, <2>5
<1> QED BY <1>6

\* What holds at first and after each step holds at the end.
LEMMA RunStays ==
    ASSUME NEW n \in Nat, NEW S, NEW f, f[0] \in S, \A i \in 1..n : f[i - 1] \in S => f[i] \in S
    PROVE  f[n] \in S
<1> DEFINE T == {m \in 0..n : f[m] \notin S}
<1>1. SUFFICES ASSUME T # {} PROVE FALSE
  <2>1. n \notin T
    BY <1>1
  <2> QED BY <2>1
<1>2. PICK m \in T : \A k \in T : m <= k
  <2>1. T \in SUBSET Nat
    OBVIOUS
  <2> QED BY <1>1, <2>1, LeastNumber
<1>3. m # 0
  OBVIOUS
<1>4. m - 1 \in 0..n /\ m \in 1..n /\ m - 1 \notin T
  BY <1>2, <1>3
<1> QED BY <1>4
-----------------------------------------------------------------------------
(* The HTTP client.                                                         *)

Sessions == [stream : Seq([to : Nat, reply : HttpReplies]), left : Nat, live : BOOLEAN, closed : BOOLEAN]
RequestStates == {"made", "sent", "reading", "done", "failed", "error", "freed"}
Requests == [session : Nat, state : RequestStates, got : Nat, close : BOOLEAN, breaks : BOOLEAN]
Https == [session : Seq(Sessions), reuse : Seq(Nat), request : Seq(Requests)]

\* Nothing is on its way and more can be.
IdleSession(s) == s.live /\ ~s.closed /\ s.stream = << >> /\ s.left = 0

\* A request that was sent has a session of its own, with the reply to it.
RequestInv(o, r) ==
    LET x == o.request[r]
        s == o.session[x.session]
    IN  /\ x.session # 0 <=> x.state \in {"sent", "reading"}
        /\ x.session # 0 => x.session \in DOMAIN o.session /\ s.live
        /\ x.state = "sent" => Len(s.stream) = 1 /\ s.stream[1].to = r /\ s.left = 0
        /\ x.state = "reading" => s.stream = << >> /\ s.closed = x.close
        /\ x.state \in {"reading", "done"} => x.got = r

\* Nobody uses the session and it is not to be used again.
Unused(o, s) ==
    /\ \A r \in DOMAIN o.request : o.request[r].session # s
    /\ \A i \in DOMAIN o.reuse : o.reuse[i] # s

HttpInv(o) ==
    /\ o \in Https
    /\ \A r \in DOMAIN o.request : RequestInv(o, r)
    /\ \A r, q \in DOMAIN o.request : o.request[r].session # 0 /\ o.request[r].session = o.request[q].session => r = q
    /\ \A i \in DOMAIN o.reuse :
          /\ o.reuse[i] \in DOMAIN o.session /\ IdleSession(o.session[o.reuse[i]])
          /\ \A r \in DOMAIN o.request : o.request[r].session # o.reuse[i]
    /\ \A i, j \in DOMAIN o.reuse : o.reuse[i] = o.reuse[j] => i = j

\* A request and its session change, and the session may be used again.
LEMMA HttpChange ==
    ASSUME NEW o, HttpInv(o), NEW p \in Https, NEW r \in DOMAIN o.request, NEW s \in DOMAIN o.session,
           o.request[r].session \in {0, s},
           \A q \in DOMAIN o.request \ {r} : o.request[q].session # s /\ p.request[q] = o.request[q],
           \A i \in DOMAIN o.reuse : o.reuse[i] # s,
           DOMAIN p.request = DOMAIN o.request, DOMAIN p.session = DOMAIN o.session,
           \A t \in DOMAIN o.session \ {s} : p.session[t] = o.session[t],
           RequestInv(p, r), p.request[r].session \in {0, s},
           \/ p.reuse = o.reuse
           \/ p.reuse = Append(o.reuse, s) /\ p.request[r].session = 0 /\ IdleSession(p.session[s])
    PROVE  HttpInv(p)
<1>1. o \in Https /\ 0 \notin DOMAIN o.session
  BY DEF HttpInv, Https
<1>2. ASSUME NEW q \in DOMAIN p.request PROVE RequestInv(p, q)
  <2>1. CASE q = r
    BY <2>1, SMTT(30)
  <2>2. CASE q # r
    <3>1. p.request[q] = o.request[q] /\ o.request[q].session # s /\ RequestInv(o, q)
      BY <1>2, <2>2 DEF HttpInv
    <3>2. o.request[q].session # 0 => p.session[o.request[q].session] = o.session[o.request[q].session]
      BY <3>1 DEF RequestInv
    <3> QED BY <3>1, <3>2 DEF RequestInv
  <2> QED BY <2>1, <2>2
<1>3. ASSUME NEW q \in DOMAIN p.request, NEW t \in DOMAIN p.request,
             p.request[q].session # 0, p.request[q].session = p.request[t].session
      PROVE  q = t
  BY <1>1, <1>3 DEF HttpInv
<1>4. ASSUME NEW i \in DOMAIN o.reuse
      PROVE  /\ o.reuse[i] \in DOMAIN p.session /\ IdleSession(p.session[o.reuse[i]])
             /\ \A q \in DOMAIN p.request : p.request[q].session # o.reuse[i]
  <2>1. o.reuse[i] # s /\ o.reuse[i] \in DOMAIN o.session \ {s} /\ IdleSession(o.session[o.reuse[i]])
        /\ \A q \in DOMAIN o.request : o.request[q].session # o.reuse[i]
    BY <1>4 DEF HttpInv
  <2> QED BY <1>1, <2>1
<1>5. CASE p.reuse = o.reuse
  BY <1>2, <1>3, <1>4, <1>5 DEF HttpInv
<1>6. CASE p.reuse = Append(o.reuse, s) /\ p.request[r].session = 0 /\ IdleSession(p.session[s])
  <2>1. \A i \in DOMAIN p.reuse : (i \in DOMAIN o.reuse /\ p.reuse[i] = o.reuse[i]) \/ (i = Len(o.reuse) + 1 /\ p.reuse[i] = s)
    BY <1>1, <1>6 DEF Https
  <2>2. ASSUME NEW i \in DOMAIN p.reuse
        PROVE  /\ p.reuse[i] \in DOMAIN p.session /\ IdleSession(p.session[p.reuse[i]])
               /\ \A q \in DOMAIN p.request : p.request[q].session # p.reuse[i]
    <3>1. \A q \in DOMAIN p.request : p.request[q].session # s
      BY <1>1, <1>6
    <3> QED BY <1>4, <1>6, <2>1, <3>1
  <2>3. \A i, j \in DOMAIN p.reuse : p.reuse[i] = p.reuse[j] => i = j
    BY <1>1, <2>1 DEF HttpInv
  <2> QED BY <1>2, <1>3, <2>2, <2>3 DEF HttpInv
<1> QED BY <1>5, <1>6

\* Parts of the client change.
LEMMA HttpParts ==
    ASSUME NEW o \in Https, NEW a \in Seq(Sessions), NEW b \in Seq(Nat), NEW c \in Seq(Requests),
           NEW p, p = [o EXCEPT !.session = a, !.reuse = b, !.request = c]
    PROVE  p \in Https /\ p.session = a /\ p.reuse = b /\ p.request = c
BY DEF Https

\* A session is free to be used: nothing is on its way.
LEMMA HttpOpenKeeps ==
    ASSUME NEW o, HttpInv(o)
    PROVE  LET p == HttpOpen(o)
               s == HttpSession(o)
           IN  /\ HttpInv(p) /\ p.request = o.request
               /\ s \in DOMAIN p.session /\ IdleSession(p.session[s]) /\ Unused(p, s)
<1> DEFINE p == HttpOpen(o)
           s == HttpSession(o)
           new == [stream |-> << >>, left |-> 0, live |-> TRUE, closed |-> FALSE]
<1>1. o \in Https
  BY DEF HttpInv
<1>2. CASE o.reuse # << >>
  <2>1. p = [o EXCEPT !.reuse = Tail(o.reuse)] /\ s = o.reuse[1]
    BY <1>2 DEF HttpOpen, HttpSession
  <2>2. p \in Https /\ p.request = o.request /\ p.session = o.session /\ p.reuse = Tail(o.reuse)
    <3>1. Tail(o.reuse) \in Seq(Nat)
      BY <1>1, <1>2 DEF Https
    <3>2. p = [o EXCEPT !.session = o.session, !.reuse = Tail(o.reuse), !.request = o.request]
      BY <1>1, <2>1 DEF Https
    <3> HIDE DEF p
    <3> QED BY <1>1, <3>1, <3>2, HttpParts DEF Https
  <2>3. \A i \in DOMAIN p.reuse : i + 1 \in DOMAIN o.reuse /\ p.reuse[i] = o.reuse[i + 1] /\ i + 1 # 1 /\ i \in Nat
    BY <1>1, <1>2, <2>2, SMTT(30) DEF Https
  <2>4. 1 \in DOMAIN o.reuse
    BY <1>1, <1>2 DEF Https
  <2>5. HttpInv(p)
    <3>1. \A r \in DOMAIN p.request : RequestInv(p, r)
      BY <2>2 DEF HttpInv, RequestInv
    <3>2. \A i \in DOMAIN p.reuse :
            /\ p.reuse[i] \in DOMAIN p.session /\ IdleSession(p.session[p.reuse[i]])
            /\ \A r \in DOMAIN p.request : p.request[r].session # p.reuse[i]
      BY <2>2, <2>3 DEF HttpInv
    <3>3. \A i, j \in DOMAIN p.reuse : p.reuse[i] = p.reuse[j] => i = j
      <4>1. ASSUME NEW i \in DOMAIN p.reuse, NEW j \in DOMAIN p.reuse, p.reuse[i] = p.reuse[j] PROVE i = j
        <5>1. i + 1 = j + 1
          BY <2>3, <4>1 DEF HttpInv
        <5> QED BY <2>3, <5>1
      <4> QED BY <4>1
    <3> QED BY <2>2, <3>1, <3>2, <3>3 DEF HttpInv
  <2>6. Unused(p, s)
    BY <2>1, <2>2, <2>3, <2>4 DEF HttpInv, Unused
  <2> QED BY <2>1, <2>2, <2>4, <2>5, <2>6 DEF HttpInv
<1>3. CASE o.reuse = << >>
  <2>1. p = [o EXCEPT !.session = Append(o.session, new)] /\ s = Len(o.session) + 1
    BY <1>3 DEF HttpOpen, HttpSession
  <2>2. new \in Sessions
    BY DEF Sessions
  <2>3. p \in Https /\ p.request = o.request /\ p.reuse = << >> /\ p.session = Append(o.session, new)
    <3> HIDE DEF new
    <3>1. Append(o.session, new) \in Seq(Sessions)
      BY <1>1, <2>2 DEF Https
    <3>2. p = [o EXCEPT !.session = Append(o.session, new), !.reuse = o.reuse, !.request = o.request]
      BY <1>1, <2>1 DEF Https
    <3> HIDE DEF p
    <3> QED BY <1>1, <1>3, <3>1, <3>2, HttpParts DEF Https
  <2>4. DOMAIN o.session \subseteq DOMAIN p.session /\ \A t \in DOMAIN o.session : p.session[t] = o.session[t]
    BY <1>1, <2>3 DEF Https
  <2>5. s \in DOMAIN p.session /\ p.session[s] = new /\ s \notin DOMAIN o.session /\ s # 0
    BY <1>1, <2>1, <2>3 DEF Https
  <2>6. ASSUME NEW r \in DOMAIN p.request PROVE RequestInv(p, r) /\ p.request[r].session # s
    <3>1. RequestInv(o, r) /\ p.request[r] = o.request[r]
      BY <2>3, <2>6 DEF HttpInv
    <3> QED BY <2>4, <2>5, <3>1 DEF RequestInv
  <2>7. \A i \in DOMAIN p.reuse : FALSE
    BY <2>3
  <2>8. \A r, q \in DOMAIN p.request : p.request[r].session # 0 /\ p.request[r].session = p.request[q].session => r = q
    BY <2>3 DEF HttpInv
  <2> QED BY <2>3, <2>5, <2>6, <2>7, <2>8 DEF HttpInv, Unused, IdleSession
<1> QED BY <1>2, <1>3

\* The request is on its way, and its reply with it.
LEMMA HttpWriteKeeps ==
    ASSUME NEW o, HttpInv(o), NEW r \in DOMAIN o.request, o.request[r].session = 0, NEW reply \in HttpReplies
    PROVE  LET p == HttpWrite(o, r, reply)
           IN  HttpInv(p) /\ DOMAIN p.request = DOMAIN o.request /\ p.request[r].state = "sent"
<1> DEFINE q == HttpOpen(o)
           s == HttpSession(o)
           p == HttpWrite(o, r, reply)
<1>1. /\ HttpInv(q) /\ q.request = o.request
      /\ s \in DOMAIN q.session /\ IdleSession(q.session[s]) /\ Unused(q, s)
  BY HttpOpenKeeps
<1>2. p = [q EXCEPT !.session[s].stream = Append(@, [to |-> r, reply |-> reply]),
                    !.request[r] = [@ EXCEPT !.session = s, !.state = "sent"]]
  BY DEF HttpWrite
<1> HIDE DEF q, s, p
<1>3. q \in Https
  BY <1>1 DEF HttpInv
<1>4. q.session[s] \in Sessions /\ q.request[r] \in Requests /\ r \in Nat /\ s \in Nat /\ s # 0
  BY <1>1, <1>3 DEF Https
<1> DEFINE session == [q.session[s] EXCEPT !.stream = Append(@, [to |-> r, reply |-> reply])]
           request == [q.request[r] EXCEPT !.session = s, !.state = "sent"]
<1>5. /\ session \in Sessions /\ session.stream = << [to |-> r, reply |-> reply] >>
      /\ session.live /\ session.left = 0
  <2> DEFINE sent == [to |-> r, reply |-> reply]
  <2>1. sent \in [to : Nat, reply : HttpReplies]
    BY <1>4
  <2>2. /\ q.session[s].stream = << >> /\ q.session[s].live /\ q.session[s].left = 0 /\ q.session[s].left \in Nat
        /\ q.session[s].closed \in BOOLEAN
    BY <1>1, <1>4 DEF IdleSession, Sessions
  <2>3. session = [q.session[s] EXCEPT !.stream = << sent >>]
    BY <2>2
  <2> HIDE DEF sent, session
  <2>4. << sent >> \in Seq([to : Nat, reply : HttpReplies])
    BY <2>1
  <2>5. session \in Sessions /\ session.stream = << sent >> /\ session.live /\ session.left = 0
    BY <1>4, <2>2, <2>3, <2>4 DEF Sessions
  <2> QED BY <2>5 DEF sent
<1>6. request \in Requests /\ request.session = s /\ request.state = "sent"
  BY <1>4 DEF Requests, RequestStates
<1> HIDE DEF session, request
<1>7. p = [q EXCEPT !.session = [@ EXCEPT ![s] = session], !.request = [@ EXCEPT ![r] = request]]
  BY <1>2, <1>3 DEF Https, session, request
<1>8. /\ p.session = [q.session EXCEPT ![s] = session] /\ p.request = [q.request EXCEPT ![r] = request]
      /\ p.reuse = q.reuse /\ p \in Https
  <2>1. [q.session EXCEPT ![s] = session] \in Seq(Sessions) /\ [q.request EXCEPT ![r] = request] \in Seq(Requests)
    BY <1>1, <1>3, <1>5, <1>6 DEF Https
  <2> DEFINE a == [q.session EXCEPT ![s] = session]
             c == [q.request EXCEPT ![r] = request]
  <2>2. p = [q EXCEPT !.session = a, !.reuse = q.reuse, !.request = c]
    BY <1>3, <1>7 DEF Https
  <2>3. a \in Seq(Sessions) /\ c \in Seq(Requests) /\ q.reuse \in Seq(Nat)
    BY <1>3, <2>1 DEF Https
  <2> HIDE DEF a, c
  <2>4. p \in Https /\ p.session = a /\ p.reuse = q.reuse /\ p.request = c
    BY <1>3, <2>2, <2>3 DEF Https
  <2> QED BY <2>4 DEF a, c
<1>9. p.session[s] = session /\ p.request[r] = request /\ DOMAIN p.request = DOMAIN q.request /\ DOMAIN p.session = DOMAIN q.session
  BY <1>1, <1>8
<1>10. RequestInv(p, r)
  <2>1. session.stream[1] = [to |-> r, reply |-> reply] /\ Len(session.stream) = 1
    BY <1>5
  <2>2. p.session[s].stream[1].to = r
    BY <1>9, <2>1
  <2>3. p.request[r].session = s /\ p.request[r].state = "sent" /\ s # 0 /\ s \in DOMAIN p.session
    BY <1>1, <1>4, <1>6, <1>9
  <2>4. p.session[s].live /\ p.session[s].left = 0 /\ Len(p.session[s].stream) = 1
    BY <1>5, <1>9, <2>1
  <2> QED BY <2>2, <2>3, <2>4 DEF RequestInv
<1>11. HttpInv(p)
  BY <1>1, <1>6, <1>8, <1>9, <1>10, HttpChange DEF Unused
<1> QED BY <1>1, <1>6, <1>9, <1>11 DEF p

LEMMA HttpNewKeeps ==
    ASSUME NEW o, HttpInv(o), NEW reply \in HttpReplies
    PROVE  HttpInv(HttpNew(o, reply))
<1> DEFINE new == [session |-> 0, state |-> "made", got |-> 0, close |-> FALSE, breaks |-> FALSE]
           p == [o EXCEPT !.request = Append(@, new)]
           r == Len(o.request) + 1
<1>1. o \in Https /\ new \in Requests
  BY DEF HttpInv, Requests, RequestStates
<1>2. p \in Https /\ p.session = o.session /\ p.reuse = o.reuse /\ p.request = Append(o.request, new)
  <2> HIDE DEF new
  <2>1. Append(o.request, new) \in Seq(Requests)
    BY <1>1 DEF Https
  <2>2. p = [o EXCEPT !.session = o.session, !.reuse = o.reuse, !.request = Append(o.request, new)]
    BY <1>1 DEF Https
  <2> HIDE DEF p
  <2> QED BY <1>1, <2>1, <2>2, HttpParts DEF Https
<1>3. /\ \A q \in DOMAIN p.request : (q \in DOMAIN o.request /\ p.request[q] = o.request[q]) \/ (q = r /\ p.request[q] = new)
      /\ r \in DOMAIN p.request /\ p.request[r] = new
  BY <1>1, <1>2 DEF Https
<1>4. \A q \in DOMAIN p.request : RequestInv(p, q)
  <2> HIDE DEF p, r
  <2>1. ASSUME NEW q \in DOMAIN p.request, q \in DOMAIN o.request, p.request[q] = o.request[q] PROVE RequestInv(p, q)
    <3>1. RequestInv(o, q) /\ p.session = o.session
      BY <1>2, <2>1 DEF HttpInv
    <3> QED BY <2>1, <3>1 DEF RequestInv
  <2>2. ASSUME p.request[r] = new PROVE RequestInv(p, r)
    <3>1. p.request[r].session = 0 /\ p.request[r].state = "made"
      BY <2>2
    <3> QED BY <3>1 DEF RequestInv
  <2> QED BY <1>3, <2>1, <2>2
<1>5. \A i \in DOMAIN o.reuse : o.reuse[i] # 0
  BY <1>1 DEF HttpInv, Https
<1>6. HttpInv(p)
  <2>1. \A q, t \in DOMAIN p.request : p.request[q].session # 0 /\ p.request[q].session = p.request[t].session => q = t
    BY <1>3 DEF HttpInv
  <2>2. \A i \in DOMAIN p.reuse :
          /\ p.reuse[i] \in DOMAIN p.session /\ IdleSession(p.session[p.reuse[i]])
          /\ \A q \in DOMAIN p.request : p.request[q].session # p.reuse[i]
    BY <1>2, <1>3, <1>5 DEF HttpInv
  <2>3. \A i, j \in DOMAIN p.reuse : p.reuse[i] = p.reuse[j] => i = j
    BY <1>2 DEF HttpInv
  <2> QED BY <1>2, <1>4, <2>1, <2>2, <2>3 DEF HttpInv
<1>7. p.request[r].session = 0
  BY <1>3
<1>8. HttpNew(o, reply) = HttpWrite(p, r, reply)
  BY DEF HttpNew
<1> HIDE DEF p, r
<1> QED BY <1>3, <1>6, <1>7, <1>8, HttpWriteKeeps

\* Two states of the client that differ in one session and one request.
Near(o, p, s, r) ==
    /\ p \in Https
    /\ DOMAIN p.session = DOMAIN o.session /\ \A t \in DOMAIN o.session \ {s} : p.session[t] = o.session[t]
    /\ DOMAIN p.request = DOMAIN o.request /\ \A q \in DOMAIN o.request \ {r} : p.request[q] = o.request[q]

SetSession(p, s, a) == [p EXCEPT !.session[s] = a]
SetRequest(p, r, c) == [p EXCEPT !.request[r] = c]

LEMMA NearSession ==
    ASSUME NEW o, NEW s \in DOMAIN o.session, NEW r, NEW p, Near(o, p, s, r), NEW a \in Sessions
    PROVE  LET q == SetSession(p, s, a)
           IN  Near(o, q, s, r) /\ q.session[s] = a /\ q.request = p.request /\ q.reuse = p.reuse
<1> DEFINE x == [p.session EXCEPT ![s] = a]
           q == SetSession(p, s, a)
<1>1. p \in Https /\ s \in DOMAIN p.session /\ p.session \in Seq(Sessions)
  BY DEF Near, Https
<1>2. x \in Seq(Sessions) /\ DOMAIN x = DOMAIN p.session /\ x[s] = a /\ \A t \in DOMAIN p.session \ {s} : x[t] = p.session[t]
  BY <1>1
<1>3. q = [p EXCEPT !.session = x]
  BY DEF SetSession
<1> HIDE DEF x, q
<1>4. q \in Https /\ q.session = x /\ q.request = p.request /\ q.reuse = p.reuse
  BY <1>1, <1>2, <1>3 DEF Https
<1> QED BY <1>2, <1>4 DEF Near, q

LEMMA NearRequest ==
    ASSUME NEW o, NEW s, NEW r \in DOMAIN o.request, NEW p, Near(o, p, s, r), NEW c \in Requests
    PROVE  LET q == SetRequest(p, r, c)
           IN  Near(o, q, s, r) /\ q.request[r] = c /\ q.session = p.session /\ q.reuse = p.reuse
<1> DEFINE x == [p.request EXCEPT ![r] = c]
           q == SetRequest(p, r, c)
<1>1. p \in Https /\ r \in DOMAIN p.request /\ p.request \in Seq(Requests)
  BY DEF Near, Https
<1>2. x \in Seq(Requests) /\ DOMAIN x = DOMAIN p.request /\ x[r] = c /\ \A t \in DOMAIN p.request \ {r} : x[t] = p.request[t]
  BY <1>1
<1>3. q = [p EXCEPT !.request = x]
  BY DEF SetRequest
<1> HIDE DEF x, q
<1>4. q \in Https /\ q.request = x /\ q.session = p.session /\ q.reuse = p.reuse
  BY <1>1, <1>2, <1>3 DEF Https
<1> QED BY <1>2, <1>4 DEF Near, q

\* A session that is freed stays as it was otherwise.
LEMMA NearFree ==
    ASSUME NEW o, NEW s \in DOMAIN o.session, NEW r, NEW p, Near(o, p, s, r)
    PROVE  LET q == HttpFreeSession(p, s)
           IN  Near(o, q, s, r) /\ q.request = p.request /\ q.reuse = p.reuse
<1> DEFINE a == [p.session[s] EXCEPT !.live = FALSE]
<1>1. a \in Sessions
  <2>1. p.session \in Seq(Sessions) /\ s \in DOMAIN p.session
    BY DEF Near, Https
  <2>2. p.session[s] \in Sessions
    BY <2>1
  <2> QED BY <2>2 DEF Sessions
<1>2. HttpFreeSession(p, s) = SetSession(p, s, a)
  BY DEF HttpFreeSession, SetSession
<1> HIDE DEF a
<1> QED BY <1>1, <1>2, NearSession

LEMMA NearDone ==
    ASSUME NEW o, NEW s \in DOMAIN o.session, s \in Nat, NEW r, NEW p, Near(o, p, s, r), NEW close \in BOOLEAN
    PROVE  LET q == HttpDone(p, s, close)
           IN  /\ Near(o, q, s, r) /\ q.request = p.request
               /\ close => q.reuse = p.reuse
               /\ ~close => q.reuse = Append(p.reuse, s) /\ q.session = p.session
<1>1. CASE close
  <2>1. HttpDone(p, s, close) = HttpFreeSession(p, s)
    BY <1>1 DEF HttpDone
  <2> DEFINE q == HttpFreeSession(p, s)
  <2>2. Near(o, q, s, r) /\ q.request = p.request /\ q.reuse = p.reuse
    BY NearFree
  <2> HIDE DEF q
  <2>3. HttpDone(p, s, close) = q
    BY <2>1 DEF q
  <2> QED BY <1>1, <2>2, <2>3
<1>2. CASE ~close
  <2> DEFINE q == [p EXCEPT !.reuse = Append(@, s)]
  <2>1. Append(p.reuse, s) \in Seq(Nat) /\ p \in Https
    BY DEF Near, Https
  <2>2. q \in Https /\ q.session = p.session /\ q.request = p.request /\ q.reuse = Append(p.reuse, s)
    BY <2>1 DEF Https
  <2>3. HttpDone(p, s, close) = q
    BY <1>2 DEF HttpDone
  <2> HIDE DEF q
  <2> QED BY <1>2, <2>2, <2>3 DEF Near
<1> QED BY <1>1, <1>2

\* The request r that has the session s goes on or ends.
LEMMA NearKeeps ==
    ASSUME NEW o, HttpInv(o), NEW r \in DOMAIN o.request, NEW s, s = o.request[r].session, s # 0,
           NEW p, Near(o, p, s, r),
           \/ p.reuse = o.reuse
           \/ p.reuse = Append(o.reuse, s) /\ p.request[r].session = 0 /\ IdleSession(p.session[s]),
           p.request[r].session \in {0, s}, RequestInv(p, r)
    PROVE  HttpInv(p)
<1>1. RequestInv(o, r)
  BY DEF HttpInv
<1>2. s \in DOMAIN o.session
  BY <1>1 DEF RequestInv
<1>3. \A q \in DOMAIN o.request \ {r} : o.request[q].session # s
  BY DEF HttpInv
<1>4. \A i \in DOMAIN o.reuse : o.reuse[i] # s
  BY DEF HttpInv
<1> QED BY <1>2, <1>3, <1>4, HttpChange DEF Near

\* What is left of a request and its session when the response is taken.
Answer(o, r, p) ==
    /\ HttpInv(p) /\ DOMAIN p.request = DOMAIN o.request
    /\ p.request[r].state = "failed" => p.request[r].session = 0

\* The request is over and the session is closed or used again.
LEMMA NearEnds ==
    ASSUME NEW o, HttpInv(o), NEW r \in DOMAIN o.request, NEW s, s = o.request[r].session, s # 0,
           NEW p, Near(o, p, s, r),
           p.reuse = o.reuse \/ (p.reuse = Append(o.reuse, s) /\ IdleSession(p.session[s])),
           NEW state \in {"done", "failed", "error", "freed"}, state = "done" => p.request[r].got = r
    PROVE  Answer(o, r, HttpEnds(p, r, state))
<1> DEFINE c == [p.request[r] EXCEPT !.state = state, !.session = 0]
           q == SetRequest(p, r, c)
<1>1. p.request[r] \in Requests
  <2>1. p.request \in Seq(Requests) /\ r \in DOMAIN p.request
    BY DEF Near, Https
  <2> QED BY <2>1
<1>2. c \in Requests /\ c.session = 0 /\ c.state = state /\ c.got = p.request[r].got
  BY <1>1 DEF Requests, RequestStates
<1>7. HttpEnds(p, r, state) = q
  BY DEF HttpEnds, SetRequest
<1> HIDE DEF c
<1>3. Near(o, q, s, r) /\ q.request[r] = c /\ q.session = p.session /\ q.reuse = p.reuse
  BY <1>2, NearRequest
<1> HIDE DEF q
<1>4. RequestInv(q, r)
  BY <1>2, <1>3 DEF RequestInv
<1>5. HttpInv(q)
  BY <1>2, <1>3, <1>4, NearKeeps
<1>6. Answer(o, r, q)
  BY <1>2, <1>3, <1>5 DEF Answer, Near
<1> QED BY <1>6, <1>7

\* The response of a request is its own, and the session that it leaves behind
\* is only used again when it can be.
LEMMA HttpResponseKeeps ==
    ASSUME NEW o, HttpInv(o), NEW r \in DOMAIN o.request, o.request[r].state = "sent", NEW cache \in BOOLEAN
    PROVE  Answer(o, r, HttpResponseNew(o, r, cache))
<1> DEFINE s == o.request[r].session
           first == o.session[s].stream[1]
           reply == first.reply
           a == [o.session[s] EXCEPT !.stream = Tail(o.session[s].stream), !.closed = reply.close]
           c == [o.request[r] EXCEPT !.got = r]
           taken == SetRequest(SetSession(o, s, a), r, c)
           free == HttpFreeSession(taken, s)
           done == HttpDone(taken, s, reply.close)
           After == IF reply.is = "busy" THEN "failed" ELSE "done"
           b == [taken.session[s] EXCEPT !.left = reply.blocks]
           d == [taken.request[r] EXCEPT !.state = "reading", !.close = reply.close, !.breaks = reply.is = "cut"]
           reading == SetRequest(SetSession(taken, s, b), r, d)
<1> HIDE DEF s, first, reply, a, c, taken, free, done, After, b, d, reading
<1>1. /\ o \in Https /\ RequestInv(o, r) /\ s # 0 /\ s \in DOMAIN o.session /\ o.session[s].live
      /\ Len(o.session[s].stream) = 1 /\ first.to = r /\ o.session[s].left = 0
  BY DEF HttpInv, RequestInv, s, first
<1>2. o.session[s] \in Sessions /\ o.request[r] \in Requests /\ r \in Nat /\ s \in Nat
  <2>1. o.session \in Seq(Sessions) /\ o.request \in Seq(Requests)
    BY <1>1 DEF Https
  <2> QED BY <1>1, <2>1
<1>3. o.session[s].stream \in Seq([to : Nat, reply : HttpReplies])
  BY <1>2 DEF Sessions
<1>4. Head(o.session[s].stream) = first /\ Tail(o.session[s].stream) = << >> /\ reply \in HttpReplies
  <2> DEFINE t == o.session[s].stream
             Messages == [to : Nat, reply : HttpReplies]
  <2>1. t \in Seq(Messages) /\ Len(t) = 1 /\ first = t[1]
    BY <1>1, <1>3 DEF first
  <2> HIDE DEF t, Messages
  <2>2. first \in Messages /\ Head(t) = first
    BY <2>1
  <2>3. Tail(t) \in Seq(Messages) /\ Len(Tail(t)) = 0
    BY <2>1
  <2>4. Tail(t) = << >>
    BY <2>3, EmptySeq
  <2>5. first.reply \in HttpReplies
    BY <2>2 DEF Messages
  <2> QED BY <2>2, <2>4, <2>5 DEF t, reply
<1>5. reply.close \in BOOLEAN /\ reply.blocks \in Nat
  BY <1>4, ObjectStoreAssumption
<1>6. a \in Sessions /\ a.stream = << >> /\ a.live /\ a.left = 0 /\ a.closed = reply.close
  <2>1. << >> \in Seq([to : Nat, reply : HttpReplies])
    OBVIOUS
  <2> QED BY <1>1, <1>2, <1>4, <1>5, <2>1 DEF Sessions, a
<1>7. c \in Requests /\ c.session = s /\ c.got = r
  BY <1>2 DEF Requests, c, s
<1>9. Near(o, o, s, r)
  BY <1>1 DEF Near
<1>10. Near(o, taken, s, r) /\ taken.session[s] = a /\ taken.request[r] = c /\ taken.reuse = o.reuse
  <2> DEFINE t == SetSession(o, s, a)
  <2>1. Near(o, t, s, r) /\ t.session[s] = a /\ t.reuse = o.reuse
    BY <1>1, <1>6, <1>9, NearSession
  <2> HIDE DEF t
  <2>2. taken = SetRequest(t, r, c)
    BY DEF taken, t
  <2> QED BY <1>7, <2>1, <2>2, NearRequest
<1>11. Near(o, free, s, r) /\ free.request = taken.request /\ free.reuse = taken.reuse
  BY <1>1, <1>10, NearFree DEF free
<1>12. /\ Near(o, done, s, r) /\ done.request = taken.request
       /\ reply.close => done.reuse = taken.reuse
       /\ ~reply.close => done.reuse = Append(taken.reuse, s) /\ done.session = taken.session
  BY <1>1, <1>2, <1>5, <1>10, NearDone, SMTT(30) DEF done
<1>13. s = o.request[r].session
  BY DEF s
<1>14. Answer(o, r, HttpEnds(free, r, "failed"))
  BY <1>1, <1>10, <1>11, <1>13, NearEnds
<1>15. Answer(o, r, HttpEnds(done, r, After))
  <2>1. ~reply.close => IdleSession(done.session[s])
    BY <1>6, <1>10, <1>12 DEF IdleSession
  <2>2. After \in {"done", "failed", "error", "freed"} /\ done.request[r].got = r
    BY <1>7, <1>10, <1>12 DEF After
  <2> QED BY <1>1, <1>5, <1>10, <1>12, <1>13, <2>1, <2>2, NearEnds
<1>16. Answer(o, r, reading)
  <2>1. b \in Sessions /\ b.live /\ b.stream = << >> /\ b.closed = reply.close
    BY <1>5, <1>6, <1>10 DEF Sessions, b
  <2>2. d \in Requests /\ d.session = s /\ d.state = "reading" /\ d.close = reply.close /\ d.got = r
    BY <1>5, <1>7, <1>10 DEF Requests, RequestStates, d
  <2> DEFINE t == SetSession(taken, s, b)
  <2>3. Near(o, t, s, r) /\ t.session[s] = b /\ t.reuse = taken.reuse
    BY <1>1, <1>10, <2>1, NearSession
  <2> HIDE DEF t
  <2>4. Near(o, reading, s, r) /\ reading.session[s] = b /\ reading.request[r] = d /\ reading.reuse = taken.reuse
    <3>1. reading = SetRequest(t, r, d)
      BY DEF reading, t
    <3> QED BY <2>2, <2>3, <3>1, NearRequest
  <2>5. RequestInv(reading, r)
    <3>1. s \in DOMAIN reading.session
      BY <1>1, <2>4 DEF Near
    <3> QED BY <1>1, <2>1, <2>2, <2>4, <3>1 DEF RequestInv
  <2>6. HttpInv(reading)
    BY <1>1, <1>10, <1>13, <2>2, <2>4, <2>5, NearKeeps
  <2> QED BY <2>2, <2>4, <2>6 DEF Answer, Near
<1>17. HttpResponseNew(o, r, cache) =
         IF reply.is = "lost" THEN HttpEnds(free, r, "failed")
         ELSE IF reply.blocks = 0 /\ ~reply.close THEN HttpEnds(done, r, After)
         ELSE IF cache \/ reply.is = "busy" THEN IF reply.is = "cut" THEN HttpEnds(free, r, "failed") ELSE HttpEnds(done, r, After)
         ELSE reading
  <2>1. HttpNext(o, r) = first /\ HttpNext(o, r).to = r /\ HttpNext(o, r).reply = reply
    BY <1>1, <1>4 DEF HttpNext, s, reply
  <2>2. taken = HttpTaken(o, r)
    <3>2. (IF o.session[s].left > 0 \/ ~o.session[s].live THEN 0 ELSE HttpNext(o, r).to) = r
      BY <1>1, <2>1
    <3>1. HttpTaken(o, r) = [o EXCEPT !.session[s] = a, !.request[r] = c]
      BY <2>1, <3>2 DEF HttpTaken, a, c, s
    <3> QED BY <3>1 DEF taken, SetSession, SetRequest
  <2>3. taken.request[r].session = s => reading = HttpContent(taken, r, reply)
    BY DEF HttpContent, reading, b, d, SetSession, SetRequest
  <2>4. taken.request[r].session = s
    BY <1>7, <1>10
  <2> QED BY <2>1, <2>2, <2>3, <2>4 DEF HttpResponseNew, s, free, done, After
<1> QED BY <1>14, <1>15, <1>16, <1>17, SMTT(30)

LEMMA HttpProcessKeeps ==
    ASSUME NEW o, HttpInv(o), NEW r \in DOMAIN o.request, o.request[r].state = "sent", NEW cache \in BOOLEAN,
           NEW more \in [1..HttpRetries -> HttpReplies]
    PROVE  HttpInv(HttpProcess(o, r, cache, more))
<1> DEFINE n == HttpRetries
           S == {x \in Https : Answer(o, r, x)}
           Begin == HttpResponseNew(o, r, cache)
           Again(x, i) == HttpResponseNew(HttpWrite(x, r, more[i]), r, cache)
           Steps(f) == [i \in 0..n |-> IF i = 0 THEN Begin ELSE IF f[i - 1].request[r].state # "failed" THEN f[i - 1] ELSE Again(f[i - 1], i)]
           Tried == CHOOSE f : f = Steps(f)
<1>1. n \in Nat
  BY ObjectStoreAssumption
<1>2. Begin \in S
  <2>1. Answer(o, r, Begin)
    BY HttpResponseKeeps
  <2> QED BY <2>1 DEF Answer, HttpInv
<1>3. ASSUME NEW x \in S, NEW i \in 1..n, x.request[r].state = "failed" PROVE Again(x, i) \in S
  <2> DEFINE y == HttpWrite(x, r, more[i])
  <2>1. HttpInv(x) /\ r \in DOMAIN x.request /\ x.request[r].session = 0 /\ DOMAIN x.request = DOMAIN o.request
    BY <1>3 DEF Answer
  <2>2. more[i] \in HttpReplies
    OBVIOUS
  <2>3. HttpInv(y) /\ DOMAIN y.request = DOMAIN x.request /\ y.request[r].state = "sent"
    BY <2>1, <2>2, HttpWriteKeeps
  <2> HIDE DEF y
  <2>4. Answer(y, r, HttpResponseNew(y, r, cache))
    BY <2>1, <2>3, HttpResponseKeeps
  <2>5. Answer(o, r, HttpResponseNew(y, r, cache))
    BY <2>1, <2>3, <2>4 DEF Answer
  <2> QED BY <2>5 DEF y, Answer, HttpInv
<1> HIDE DEF n, S, Begin, Again
<1> DEFINE G(q) == IF q[2].request[r].state # "failed" THEN q[2] ELSE Again(q[2], q[1])
           g == [q \in (1..n) \X S |-> G(q)]
<1>4. g \in [(1..n) \X S -> S]
  <2>1. ASSUME NEW q \in (1..n) \X S PROVE G(q) \in S
    <3>1. q[1] \in 1..n /\ q[2] \in S
      OBVIOUS
    <3> QED BY <1>3, <3>1
  <2> HIDE DEF G
  <2> QED BY <2>1
<1>5. \A i \in 1..n, x \in S : g[<< i, x >>] = IF x.request[r].state # "failed" THEN x ELSE Again(x, i)
  OBVIOUS
<1> HIDE DEF g
<1>6. PICK f : f \in [0..n -> S] /\ f[0] = Begin /\ \A i \in 1..n : f[i] = g[<< i, f[i - 1] >>]
  <2>1. \E f : IsRun(n, S, Begin, g, f)
    BY <1>1, <1>2, <1>4, RunExists
  <2> QED BY <2>1 DEF IsRun
<1>7. f = Steps(f)
  <2>1. ASSUME NEW i \in 0..n PROVE f[i] = Steps(f)[i]
    <3>1. CASE i = 0
      BY <1>6, <3>1
    <3>2. CASE i # 0
      <4>1. i \in 1..n /\ f[i - 1] \in S
        BY <1>1, <1>6, <3>2
      <4> QED BY <1>5, <1>6, <3>2, <4>1
    <3> QED BY <3>1, <3>2
  <2> QED BY <1>6, <2>1
<1>8. Tried = Steps(Tried)
  BY <1>7
<1> HIDE DEF Tried
<1>9. Tried[n] \in S
  <2>1. Tried[0] \in S
    <3>1. 0 \in 0..n
      BY <1>1
    <3>2. Tried[0] = Begin
      BY <1>8, <3>1
    <3> QED BY <1>2, <3>2
  <2>2. \A i \in 1..n : Tried[i - 1] \in S => Tried[i] \in S
    <3>1. ASSUME NEW i \in 1..n, Tried[i - 1] \in S PROVE Tried[i] \in S
      <4>1. i \in 0..n /\ i # 0
        BY <1>1
      <4>2. Tried[i] = IF Tried[i - 1].request[r].state # "failed" THEN Tried[i - 1] ELSE Again(Tried[i - 1], i)
        BY <1>8, <4>1
      <4> QED BY <1>3, <3>1, <4>2
    <3> QED BY <3>1
  <2> QED BY <1>1, <2>1, <2>2, RunStays
<1>10. HttpProcess(o, r, cache, more) = Tried[n]
  BY DEF HttpProcess, Tried, Begin, Again, n
<1> QED BY <1>9, <1>10 DEF S, Answer

LEMMA HttpReadKeeps ==
    ASSUME NEW o, HttpInv(o), NEW r \in DOMAIN o.request, o.request[r].state = "reading"
    PROVE  HttpInv(HttpReadBlock(o, r))
<1> DEFINE s == o.request[r].session
           free == HttpFreeSession(o, s)
           close == o.request[r].close
           a == [o.session[s] EXCEPT !.left = 0]
           b == [o.session[s] EXCEPT !.left = @ - 1]
           read == SetSession(o, s, a)
           less == SetSession(o, s, b)
           done == HttpDone(read, s, close)
<1>1. /\ o \in Https /\ RequestInv(o, r) /\ s # 0 /\ s \in DOMAIN o.session /\ o.session[s].live
      /\ o.session[s].stream = << >> /\ o.session[s].closed = close /\ o.request[r].got = r
  BY DEF HttpInv, RequestInv
<1>2. o.session[s] \in Sessions /\ o.request[r] \in Requests /\ s \in Nat
  <2>1. o.session \in Seq(Sessions) /\ o.request \in Seq(Requests)
    BY <1>1 DEF Https
  <2> QED BY <1>1, <2>1
<1>3. Near(o, o, s, r)
  BY <1>1 DEF Near
<1>4. close \in BOOLEAN /\ s = o.request[r].session /\ o.request[r].session # 0
  BY <1>1, <1>2 DEF Requests
<1>5. a \in Sessions /\ (~close => IdleSession(a))
  BY <1>1, <1>2, <1>4 DEF Sessions, IdleSession
<1>6. o.session[s].left > 1 => b \in Sessions /\ b.live /\ b.stream = << >> /\ b.closed = close
  BY <1>1, <1>2 DEF Sessions
<1>7. HttpReadBlock(o, r) = IF o.request[r].breaks THEN HttpEnds(free, r, "error")
                            ELSE IF o.session[s].left > 1 THEN less ELSE HttpEnds(done, r, "done")
  BY DEF HttpReadBlock, SetSession
<1> HIDE DEF s, free, close, a, b, read, less, done
<1>8. Answer(o, r, HttpEnds(free, r, "error"))
  <2>1. Near(o, free, s, r) /\ free.request = o.request /\ free.reuse = o.reuse
    BY <1>1, <1>3, NearFree DEF free
  <2> QED BY <1>1, <1>4, <2>1, NearEnds
<1>9. ASSUME o.session[s].left > 1 PROVE HttpInv(less)
  <2>1. Near(o, less, s, r) /\ less.session[s] = b /\ less.request = o.request /\ less.reuse = o.reuse
    BY <1>1, <1>3, <1>6, <1>9, NearSession DEF less
  <2>2. RequestInv(less, r)
    <3>1. s \in DOMAIN less.session
      BY <1>1, <2>1 DEF Near
    <3> QED BY <1>1, <1>4, <1>6, <1>9, <2>1, <3>1 DEF RequestInv, close
  <2> QED BY <1>1, <1>4, <2>1, <2>2, NearKeeps
<1>10. Answer(o, r, HttpEnds(done, r, "done"))
  <2>1. Near(o, read, s, r) /\ read.session[s] = a /\ read.request = o.request /\ read.reuse = o.reuse
    BY <1>1, <1>3, <1>5, NearSession DEF read
  <2>2. /\ Near(o, done, s, r) /\ done.request = read.request
        /\ close => done.reuse = read.reuse
        /\ ~close => done.reuse = Append(read.reuse, s) /\ done.session = read.session
    BY <1>1, <1>2, <1>4, <2>1, NearDone DEF done
  <2>3. done.reuse = o.reuse \/ (done.reuse = Append(o.reuse, s) /\ IdleSession(done.session[s]))
    BY <1>4, <1>5, <2>1, <2>2
  <2>4. done.request[r].got = r
    BY <1>1, <2>1, <2>2
  <2> QED BY <1>1, <1>4, <2>2, <2>3, <2>4, NearEnds
<1> QED BY <1>7, <1>8, <1>9, <1>10 DEF Answer

LEMMA HttpFreeKeeps ==
    ASSUME NEW o, HttpInv(o), NEW r \in DOMAIN o.request, o.request[r].state \in {"sent", "reading"}
    PROVE  HttpInv(HttpEnds(HttpFreeSession(o, o.request[r].session), r, "freed"))
<1> DEFINE s == o.request[r].session
           free == HttpFreeSession(o, s)
<1>1. o \in Https /\ s # 0 /\ s \in DOMAIN o.session /\ s = o.request[r].session
  BY DEF HttpInv, RequestInv
<1> HIDE DEF s
<1>2. Near(o, o, s, r)
  BY <1>1 DEF Near
<1>3. Near(o, free, s, r) /\ free.request = o.request /\ free.reuse = o.reuse
  BY <1>1, <1>2, NearFree
<1> HIDE DEF free
<1>4. Answer(o, r, HttpEnds(free, r, "freed"))
  BY <1>1, <1>3, NearEnds
<1> QED BY <1>4 DEF Answer, free, s
-----------------------------------------------------------------------------
(* Writing an object.                                                       *)

Units == (1..2) \X Nat
Keys == (1..2) \X Nat
Pendings == {NoPart} \cup [key : Keys, answer : Answers]
Writers == [state : {"open", "closed", Error}, buffer : Seq(Units), written : Seq(Units), upload : BOOLEAN,
            list : Seq(Keys), total : Nat, pending : Pendings]
Parts == UNION {[keys -> Seq(Units)] : keys \in SUBSET Keys}
Stores == [kind : {"s3", "azure", "gcs"}, object : Seq(Units), parts : Parts, committed : SUBSET (1..2), writer : [1..2 -> Writers]]

\* The parts that were sent, with the one that S3 is yet to answer.
SentOf(kind, x) == IF kind = "s3" /\ x.pending # NoPart THEN Append(x.list, x.pending.key) ELSE x.list

\* marks[i]: what the first i parts make.
Marked(o, w, marks) ==
    LET x == o.writer[w]
    IN  /\ marks \in Seq(Seq(Units)) /\ Len(marks) = Len(SentOf(o.kind, x)) /\ Len(marks) > 0
        /\ marks[Len(marks)] \o x.buffer = x.written
        /\ \A i \in 1..Len(marks) :
              << w, i >> \in DOMAIN o.parts =>
                  marks[i] = IF i = 1 THEN o.parts[<< w, i >>] ELSE marks[i - 1] \o o.parts[<< w, i >>]
PartsSent(o, w) ==
    /\ \A i \in DOMAIN SentOf(o.kind, o.writer[w]) : SentOf(o.kind, o.writer[w])[i] = << w, i >>
    /\ \E marks : Marked(o, w, marks)
PartGrown(o, w) ==
    LET x == o.writer[w]
    IN  /\ << w, 0 >> \in DOMAIN o.parts /\ o.parts[<< w, 0 >>] \o x.buffer = x.written
        /\ Len(o.parts[<< w, 0 >>]) = x.total /\ x.total > 0

\* A writer that will find out about a part that was not stored promises nothing.
WriterInv(o, w) ==
    LET x == o.writer[w]
    IN  x.state = "open" =>
          /\ w \notin o.committed
          /\ ~x.upload => x.pending = NoPart /\ x.list = << >> /\ x.total = 0 /\ x.buffer = x.written
          /\ x.upload /\ (x.pending = NoPart \/ Good(x.pending.answer)) =>
                IF o.kind = "gcs" THEN PartGrown(o, w) ELSE PartsSent(o, w)

UploadInv(o) ==
    /\ o \in Stores
    /\ \A w \in 1..2 : WriterInv(o, w)
    /\ o.object = << >> \/ \E w \in o.committed : o.object = o.writer[w].written
    /\ \A w \in 1..2 : o.writer[w].state = "closed" => w \in o.committed

\* What a writer does leaves the other one alone.
Apart(o, p, w) ==
    /\ p.kind = o.kind /\ \A v \in (1..2) \ {w} : p.writer[v] = o.writer[v]
    /\ o.committed \subseteq p.committed /\ p.committed \subseteq o.committed \cup {w}
    /\ \A v \in (1..2) \ {w}, i \in Nat :
          /\ << v, i >> \in DOMAIN p.parts => << v, i >> \in DOMAIN o.parts /\ p.parts[<< v, i >>] = o.parts[<< v, i >>]
          /\ o.kind # "azure" /\ << v, i >> \in DOMAIN o.parts => << v, i >> \in DOMAIN p.parts

LEMMA ApartWriter ==
    ASSUME NEW o \in Stores, NEW p \in Stores, NEW w \in 1..2, Apart(o, p, w), NEW v \in (1..2) \ {w}, WriterInv(o, v)
    PROVE  WriterInv(p, v)
<1>1. p.kind = o.kind /\ p.writer[v] = o.writer[v] /\ (v \in p.committed => v \in o.committed)
  BY DEF Apart
<1>2. ASSUME PartsSent(o, v) PROVE PartsSent(p, v)
  <2>1. PICK marks : Marked(o, v, marks)
    BY <1>2 DEF PartsSent
  <2>2. \A i \in 1..Len(marks) : << v, i >> \in DOMAIN p.parts => << v, i >> \in DOMAIN o.parts /\ p.parts[<< v, i >>] = o.parts[<< v, i >>]
    <3>1. Len(marks) \in Nat
      BY <2>1 DEF Marked
    <3> QED BY <3>1 DEF Apart
  <2>3. Marked(p, v, marks)
    BY <1>1, <2>1, <2>2 DEF Marked
  <2> QED BY <1>1, <1>2, <2>3 DEF PartsSent
<1>3. ASSUME o.kind # "azure", PartGrown(o, v) PROVE PartGrown(p, v)
  <2>1. << v, 0 >> \in DOMAIN p.parts /\ p.parts[<< v, 0 >>] = o.parts[<< v, 0 >>]
    BY <1>3 DEF PartGrown, Apart
  <2> QED BY <1>1, <1>3, <2>1 DEF PartGrown
<1> QED BY <1>1, <1>2, <1>3 DEF WriterInv

LEMMA ApartKeeps ==
    ASSUME NEW o, UploadInv(o), NEW w \in 1..2, w \notin o.committed, NEW p \in Stores, Apart(o, p, w), WriterInv(p, w),
           p.object = o.object \/ (w \in p.committed /\ p.object = p.writer[w].written),
           p.writer[w].state = "closed" => w \in p.committed
    PROVE  UploadInv(p)
<1>1. \A v \in 1..2 : WriterInv(p, v)
  BY ApartWriter DEF UploadInv
<1>2. p.object = << >> \/ \E v \in p.committed : p.object = p.writer[v].written
  <2>1. CASE p.object = o.object
    <3>1. CASE o.object = << >>
      BY <2>1, <3>1
    <3>2. ASSUME NEW v \in o.committed, o.object = o.writer[v].written PROVE v \in p.committed /\ p.object = p.writer[v].written
      <4>1. v \in (1..2) \ {w}
        BY DEF UploadInv, Stores
      <4> QED BY <2>1, <3>2, <4>1 DEF Apart
    <3> QED BY <3>1, <3>2 DEF UploadInv
  <2>2. CASE w \in p.committed /\ p.object = p.writer[w].written
    BY <2>2
  <2> QED BY <2>1, <2>2
<1>3. \A v \in 1..2 : p.writer[v].state = "closed" => v \in p.committed
  BY DEF UploadInv, Apart
<1> QED BY <1>1, <1>2, <1>3 DEF UploadInv

\* Everything that changes when a writer does something.
Put(o, w, x, parts, object, committed) ==
    [o EXCEPT !.writer[w] = x, !.parts = parts, !.object = object, !.committed = committed]

LEMMA PutIs ==
    ASSUME NEW o \in Stores, NEW w \in 1..2, NEW x \in Writers, NEW parts \in Parts, NEW object \in Seq(Units),
           NEW committed \in SUBSET (1..2)
    PROVE  LET p == Put(o, w, x, parts, object, committed)
           IN  /\ p \in Stores /\ p.kind = o.kind /\ p.parts = parts /\ p.object = object /\ p.committed = committed
               /\ p.writer[w] = x /\ \A v \in (1..2) \ {w} : p.writer[v] = o.writer[v]
<1> DEFINE y == [o.writer EXCEPT ![w] = x]
           p == Put(o, w, x, parts, object, committed)
<1>1. o.writer \in [1..2 -> Writers]
  BY DEF Stores
<1>2. y \in [1..2 -> Writers] /\ y[w] = x /\ \A v \in (1..2) \ {w} : y[v] = o.writer[v]
  BY <1>1
<1>3. p = [o EXCEPT !.writer = y, !.parts = parts, !.object = object, !.committed = committed]
  BY DEF Put
<1> HIDE DEF y, p
<1>4. p \in Stores /\ p.kind = o.kind /\ p.parts = parts /\ p.object = object /\ p.committed = committed /\ p.writer = y
  BY <1>2, <1>3 DEF Stores
<1> QED BY <1>2, <1>4 DEF p

\* Only the writer changes.
LEMMA PutWriter ==
    ASSUME NEW o \in Stores, NEW w \in 1..2, NEW x \in Writers
    PROVE  /\ [o EXCEPT !.writer[w] = x] = Put(o, w, x, o.parts, o.object, o.committed)
           /\ LET p == Put(o, w, x, o.parts, o.object, o.committed)
              IN  /\ p \in Stores /\ p.kind = o.kind /\ p.parts = o.parts /\ p.object = o.object /\ p.committed = o.committed
                  /\ p.writer[w] = x /\ Apart(o, p, w)
<1>1. [o EXCEPT !.writer[w] = x] = Put(o, w, x, o.parts, o.object, o.committed)
  BY DEF Put, Stores
<1> DEFINE p == Put(o, w, x, o.parts, o.object, o.committed)
<1>2. o.parts \in Parts /\ o.object \in Seq(Units) /\ o.committed \in SUBSET (1..2)
  BY DEF Stores
<1>3. /\ p \in Stores /\ p.kind = o.kind /\ p.parts = o.parts /\ p.object = o.object /\ p.committed = o.committed
      /\ p.writer[w] = x /\ \A v \in (1..2) \ {w} : p.writer[v] = o.writer[v]
  BY <1>2, PutIs
<1> HIDE DEF p
<1>4. Apart(o, p, w)
  BY <1>3 DEF Apart
<1> QED BY <1>1, <1>3, <1>4 DEF p

\* What sequences make together, when it is known what the first of them make.
LEMMA FlattenIs ==
    ASSUME NEW S, NEW n \in Nat, n > 0, NEW parts \in [1..n -> Seq(S)], NEW marks \in [1..n -> Seq(S)],
           \A i \in 1..n : marks[i] = IF i = 1 THEN parts[i] ELSE marks[i - 1] \o parts[i]
    PROVE  FlattenSeq(parts) = marks[n]
<1> DEFINE Steps(f) == [i \in 1..n |-> IF i = 1 THEN parts[i] ELSE f[i - 1] \o parts[i]]
           flat == CHOOSE f : f = Steps(f)
<1>1. Len(parts) = n
  <2>1. parts \in Seq(Seq(S))
    OBVIOUS
  <2> QED BY <2>1
<1>2. FlattenSeq(parts) = flat[n]
  BY <1>1 DEF FlattenSeq
<1>3. marks = Steps(marks)
  OBVIOUS
<1>4. flat = Steps(flat)
  BY <1>3
<1> HIDE DEF flat
<1>5. \A i \in 1..n : flat[i] = IF i = 1 THEN parts[i] ELSE flat[i - 1] \o parts[i]
  BY <1>4
<1> DEFINE T == {i \in 1..n : flat[i] # marks[i]}
<1>6. SUFFICES ASSUME T # {} PROVE FALSE
  <2>1. n \notin T
    BY <1>6
  <2> QED BY <1>2, <2>1
<1>7. PICK m \in T : \A k \in T : m <= k
  <2>1. T \in SUBSET Nat
    OBVIOUS
  <2> QED BY <1>6, <2>1, LeastNumber
<1>8. m # 1
  BY <1>5
<1>9. m - 1 \in 1..n /\ m - 1 \notin T
  BY <1>7, <1>8
<1>10. flat[m - 1] = marks[m - 1]
  BY <1>9
<1> QED BY <1>5, <1>8, <1>10

\* Waiting for the answer to a part does not change what was written.
LEMMA AnsweredKeeps ==
    ASSUME NEW o, UploadInv(o), NEW w \in 1..2, o.writer[w].state = "open"
    PROVE  LET p == PartAnswered(o, w)
           IN  /\ UploadInv(p) /\ Apart(o, p, w) /\ p.kind = o.kind /\ p.object = o.object /\ p.committed = o.committed
               /\ p.writer[w].written = o.writer[w].written /\ p.writer[w].upload = o.writer[w].upload
               /\ p.writer[w].buffer = o.writer[w].buffer
               /\ p.writer[w].state \in {"open", Error}
               /\ p.writer[w].state = "open" => p.writer[w].pending = NoPart
<1> DEFINE x == o.writer[w]
           e == [x EXCEPT !.state = Error]
           y == [x EXCEPT !.pending = NoPart, !.list = IF o.kind = "s3" THEN Append(@, x.pending.key) ELSE @]
           p == PartAnswered(o, w)
<1>1. o \in Stores /\ x \in Writers /\ WriterInv(o, w) /\ w \notin o.committed
  BY DEF UploadInv, Stores, WriterInv
<1>2. x.pending = NoPart \/ x.pending \in [key : Keys, answer : Answers]
  BY <1>1 DEF Writers, Pendings
<1> HIDE DEF p
<1>3. CASE x.pending = NoPart
  <2>1. p = o
    BY <1>3 DEF p, PartAnswered
  <2>2. Apart(o, o, w)
    BY <1>1 DEF Apart
  <2> QED BY <1>3, <2>1, <2>2 DEF p
<1>4. CASE x.pending # NoPart /\ ~Good(x.pending.answer)
  <2>1. e \in Writers /\ e.state = Error /\ e.written = x.written /\ e.buffer = x.buffer /\ e.upload = x.upload
    BY <1>1 DEF Writers
  <2> HIDE DEF e
  <2>2. p = [o EXCEPT !.writer[w] = e]
    BY <1>4 DEF p, e, PartAnswered, UploadError
  <2>3. /\ p \in Stores /\ p.kind = o.kind /\ p.object = o.object /\ p.committed = o.committed
        /\ p.writer[w] = e /\ Apart(o, p, w)
    BY <1>1, <2>1, <2>2, PutWriter
  <2>4. WriterInv(p, w)
    BY <2>1, <2>3 DEF WriterInv, Error
  <2>5. UploadInv(p)
    BY <1>1, <2>1, <2>3, <2>4, ApartKeeps DEF Error
  <2> QED BY <2>1, <2>3, <2>5 DEF p, Error
<1>5. CASE x.pending # NoPart /\ Good(x.pending.answer)
  <2>1. /\ y \in Writers /\ y.state = "open" /\ y.written = x.written /\ y.buffer = x.buffer /\ y.upload = x.upload
        /\ y.pending = NoPart /\ y.total = x.total /\ y.list = SentOf(o.kind, x)
    <3>1. x.pending.key \in Keys
      BY <1>2, <1>5
    <3>2. SentOf(o.kind, x) \in Seq(Keys)
      BY <1>1, <3>1 DEF Writers, SentOf
    <3>3. y = [x EXCEPT !.pending = NoPart, !.list = SentOf(o.kind, x)]
      BY <1>1, <1>5 DEF SentOf, Writers
    <3> QED BY <1>1, <3>2, <3>3 DEF Writers, Pendings
  <2> HIDE DEF y
  <2>2. p = [o EXCEPT !.writer[w] = y]
    BY <1>5 DEF p, y, PartAnswered
  <2>3. /\ p \in Stores /\ p.kind = o.kind /\ p.parts = o.parts /\ p.object = o.object /\ p.committed = o.committed
        /\ p.writer[w] = y /\ Apart(o, p, w)
    BY <1>1, <2>1, <2>2, PutWriter
  <2>4. WriterInv(p, w)
    <3>1. SentOf(p.kind, y) = SentOf(o.kind, x)
      BY <2>1 DEF SentOf
    <3>5. ASSUME NEW marks, Marked(o, w, marks) PROVE Marked(p, w, marks)
      BY <2>1, <2>3, <3>1, <3>5 DEF Marked
    <3>6. SentOf(p.kind, p.writer[w]) = SentOf(o.kind, o.writer[w])
      BY <2>3, <3>1
    <3>2. PartsSent(o, w) => PartsSent(p, w)
      BY <3>5, <3>6 DEF PartsSent
    <3>3. PartGrown(o, w) => PartGrown(p, w)
      BY <2>1, <2>3 DEF PartGrown
    <3>4. x.upload
      BY <1>1, <1>5 DEF WriterInv
    <3> QED BY <1>1, <1>5, <2>1, <2>3, <3>2, <3>3, <3>4 DEF WriterInv
  <2>5. UploadInv(p)
    BY <1>1, <2>1, <2>3, <2>4, ApartKeeps
  <2> QED BY <2>1, <2>3, <2>5 DEF p
<1> QED BY <1>3, <1>4, <1>5

\* What is stored under a key.
LEMMA PartsAre ==
    ASSUME NEW parts \in Parts
    PROVE  DOMAIN parts \subseteq Keys /\ parts \in [DOMAIN parts -> Seq(Units)]
BY DEF Parts

With(parts, key, data) == [k \in DOMAIN parts \cup {key} |-> IF k = key THEN data ELSE parts[k]]

LEMMA PartsPut ==
    ASSUME NEW parts \in Parts, NEW key \in Keys, NEW data \in Seq(Units)
    PROVE  LET q == With(parts, key, data)
           IN  /\ q \in Parts /\ DOMAIN q = DOMAIN parts \cup {key} /\ q[key] = data
               /\ \A k \in DOMAIN parts : k # key => q[k] = parts[k]
<1> DEFINE keys == DOMAIN parts \cup {key}
           q == With(parts, key, data)
<1>1. DOMAIN parts \subseteq Keys /\ parts \in [DOMAIN parts -> Seq(Units)]
  BY PartsAre
<1>2. q = [k \in keys |-> IF k = key THEN data ELSE parts[k]]
  BY DEF With
<1> HIDE DEF q
<1>3. q \in [keys -> Seq(Units)] /\ keys \in SUBSET Keys
  BY <1>1, <1>2
<1>4. q \in Parts
  BY <1>3 DEF Parts
<1> QED BY <1>2, <1>4 DEF q

\* A part is sent when the one before it is answered, and it is what is written
\* and not in the parts before it.
LEMMA PartAsyncKeeps ==
    ASSUME NEW o, UploadInv(o), NEW w \in 1..2, o.writer[w].state = "open", o.writer[w].buffer # << >>, NEW answer \in Answers
    PROVE  LET p == PartAsync(o, w, answer)
           IN  /\ UploadInv(p) /\ Apart(o, p, w) /\ p.kind = o.kind /\ p.committed = o.committed
               /\ p.writer[w].written = o.writer[w].written /\ p.writer[w].state \in {"open", Error}
               /\ p.writer[w].state = "open" => p.writer[w].buffer = << >> /\ p.writer[w].upload
<1> DEFINE a == PartAnswered(o, w)
           x == a.writer[w]
           begin == a.kind # "azure" /\ ~x.upload /\ ~Good(answer)
           data == x.buffer
           key == PartKey(a, w)
           e == [x EXCEPT !.state = Error]
           y == [x EXCEPT !.upload = TRUE, !.pending = [key |-> key, answer |-> answer],
                          !.list = IF a.kind = "azure" THEN Append(@, key) ELSE @, !.total = @ + Len(data), !.buffer = << >>]
           parts == IF Arrives(answer) THEN Received(a, w, key, data) ELSE a.parts
           sent == Put(a, w, y, parts, a.object, a.committed)
           p == PartAsync(o, w, answer)
<1> HIDE DEF a, p
<1>1. /\ UploadInv(a) /\ Apart(o, a, w) /\ a.kind = o.kind /\ a.object = o.object /\ a.committed = o.committed
      /\ x.written = o.writer[w].written /\ x.upload = o.writer[w].upload
      /\ x.buffer = o.writer[w].buffer /\ x.state \in {"open", Error}
      /\ x.state = "open" => x.pending = NoPart
  BY AnsweredKeeps DEF a
<1>2. a \in Stores /\ x \in Writers /\ WriterInv(a, w) /\ a.kind \in {"s3", "azure", "gcs"}
  BY <1>1 DEF UploadInv, Stores
<1>3. w \notin a.committed
  BY <1>1 DEF UploadInv, WriterInv
<1>4. CASE x.state # "open"
  <2>1. p = a
    BY <1>4 DEF p, PartAsync, IfOpen, a
  <2> QED BY <1>1, <1>4, <2>1 DEF p
<1>5. CASE x.state = "open" /\ begin
  <2>1. e \in Writers /\ e.state = Error /\ e.written = x.written
    BY <1>2 DEF Writers
  <2>2. p = [a EXCEPT !.writer[w] = e]
    BY <1>5 DEF p, PartAsync, IfOpen, a, UploadError
  <2> HIDE DEF e
  <2>3. /\ p \in Stores /\ p.kind = a.kind /\ p.object = a.object /\ p.committed = a.committed
        /\ p.writer[w] = e /\ Apart(a, p, w)
    BY <1>2, <2>1, <2>2, PutWriter
  <2>4. WriterInv(p, w)
    BY <2>1, <2>3 DEF WriterInv, Error
  <2>5. UploadInv(p)
    BY <1>1, <1>3, <2>1, <2>3, <2>4, ApartKeeps DEF Error
  <2>6. Apart(o, p, w)
    BY <1>1, <2>3 DEF Apart
  <2> QED BY <1>1, <2>1, <2>3, <2>5, <2>6 DEF p, Error
<1>6. CASE x.state = "open" /\ ~begin
  <2>1. data \in Seq(Units) /\ Len(data) > 0 /\ x.written \in Seq(Units) /\ x.total \in Nat /\ x.list \in Seq(Keys)
    BY <1>1, <1>2 DEF Writers
  <2>2. x.pending = NoPart /\ SentOf(a.kind, x) = x.list
    BY <1>1, <1>6 DEF SentOf
  <2>3. key = IF a.kind = "gcs" THEN << w, 0 >> ELSE << w, Len(x.list) + 1 >>
    BY <1>2 DEF PartKey, S3PartKey, GcsPartKey, AzurePartKey
  <2>4. key \in Keys
    BY <2>1, <2>3 DEF Keys
  <2> HIDE DEF key
  <2>5. /\ y \in Writers /\ y.state = "open" /\ y.written = x.written /\ y.upload /\ y.buffer = << >>
        /\ y.pending = [key |-> key, answer |-> answer] /\ y.total = x.total + Len(data)
        /\ y.list = IF a.kind = "azure" THEN Append(x.list, key) ELSE x.list
    <3> DEFINE list == IF a.kind = "azure" THEN Append(x.list, key) ELSE x.list
               pending == [key |-> key, answer |-> answer]
               total == x.total + Len(data)
    <3>1. list \in Seq(Keys) /\ pending \in Pendings /\ total \in Nat /\ << >> \in Seq(Units)
      BY <2>1, <2>4, SMTT(30) DEF Pendings
    <3>2. y = [x EXCEPT !.upload = TRUE, !.pending = pending, !.list = list, !.total = total, !.buffer = << >>]
      OBVIOUS
    <3> HIDE DEF list, pending, total, y, x
    <3>3. /\ y \in Writers /\ y.state = x.state /\ y.written = x.written /\ y.upload /\ y.buffer = << >>
          /\ y.pending = pending /\ y.total = total /\ y.list = list
      BY <1>2, <3>1, <3>2 DEF Writers
    <3> QED BY <1>6, <3>3 DEF list, pending, total
  <2> HIDE DEF y
  <2> DEFINE before == IF a.kind = "gcs" /\ x.total > 0 THEN SubSeq(a.parts[key], 1, x.total) ELSE << >>
             new == before \o data
  <2>6. before \in Seq(Units) /\ (a.kind = "gcs" => new = x.written) /\ (a.kind # "gcs" => new = data)
    <3>1. CASE a.kind # "gcs"
      BY <2>1, <3>1
    <3>2. CASE a.kind = "gcs" /\ x.upload
      <4>1. PartGrown(a, w) /\ key = << w, 0 >>
        BY <1>2, <1>6, <2>2, <2>3, <3>2 DEF WriterInv
      <4>2. key \in DOMAIN a.parts /\ a.parts[key] \o x.buffer = x.written /\ Len(a.parts[key]) = x.total /\ x.total > 0
        BY <4>1 DEF PartGrown
      <4>3. a.parts[key] \in Seq(Units)
        BY <1>2, <4>2, PartsAre DEF Stores
      <4>4. SubSeq(a.parts[key], 1, x.total) = a.parts[key]
        BY <4>2, <4>3
      <4> QED BY <3>2, <4>2, <4>3, <4>4
    <3>3. CASE a.kind = "gcs" /\ ~x.upload
      <4>1. x.total = 0 /\ x.buffer = x.written
        BY <1>2, <1>6, <3>3 DEF WriterInv
      <4> QED BY <2>1, <3>3, <4>1
    <3> QED BY <3>1, <3>2, <3>3
  <2>7. new \in Seq(Units)
    BY <2>1, <2>6
  <2>8. parts = IF Arrives(answer) THEN With(a.parts, key, new) ELSE a.parts
    BY DEF Received, With
  <2> HIDE DEF before, new, parts
  <2>9. /\ parts \in Parts /\ \A k \in DOMAIN a.parts : k # key => k \in DOMAIN parts /\ parts[k] = a.parts[k]
        /\ DOMAIN parts \subseteq DOMAIN a.parts \cup {key}
        /\ Arrives(answer) => key \in DOMAIN parts /\ parts[key] = new
    <3>1. a.parts \in Parts
      BY <1>2 DEF Stores
    <3>2. CASE Arrives(answer)
      <4> DEFINE q == With(a.parts, key, new)
      <4>1. /\ q \in Parts /\ DOMAIN q = DOMAIN a.parts \cup {key} /\ q[key] = new
            /\ \A k \in DOMAIN a.parts : k # key => q[k] = a.parts[k]
        BY <2>4, <2>7, <3>1, PartsPut
      <4>2. parts = q
        BY <2>8, <3>2
      <4> HIDE DEF q
      <4> QED BY <4>1, <4>2
    <3>3. CASE ~Arrives(answer)
      BY <2>8, <3>1, <3>3
    <3> QED BY <3>2, <3>3
  <2>10. a.object \in Seq(Units) /\ a.committed \in SUBSET (1..2)
    BY <1>2 DEF Stores
  <2>11. p = sent
    <3>1. p = [a EXCEPT !.writer[w] = y, !.parts = parts]
      BY <1>6 DEF p, PartAsync, IfOpen, a, y, parts, key
    <3> QED BY <1>2, <3>1 DEF Put, Stores
  <2>12. /\ p \in Stores /\ p.kind = a.kind /\ p.parts = parts /\ p.object = a.object /\ p.committed = a.committed
         /\ p.writer[w] = y /\ \A v \in (1..2) \ {w} : p.writer[v] = a.writer[v]
    BY <1>2, <2>5, <2>9, <2>10, <2>11, PutIs
  <2>13. Apart(a, p, w)
    <3>1. \A v \in (1..2) \ {w}, i \in Nat : << v, i >> # key
      BY <2>3
    <3> QED BY <2>9, <2>12, <3>1 DEF Apart
  <2>14. ASSUME Good(answer), a.kind = "gcs" PROVE PartGrown(p, w)
    <3>1. key = << w, 0 >> /\ parts[key] = x.written /\ key \in DOMAIN parts
      BY <2>3, <2>6, <2>9, <2>14 DEF Good, Arrives
    <3>2. Len(x.written) = x.total + Len(data)
      <4>1. CASE x.upload
        <5>1. PartGrown(a, w)
          BY <1>2, <1>6, <2>2, <2>14, <4>1 DEF WriterInv
        <5>2. << w, 0 >> \in DOMAIN a.parts /\ a.parts[<< w, 0 >>] \o x.buffer = x.written /\ Len(a.parts[<< w, 0 >>]) = x.total
          BY <5>1 DEF PartGrown
        <5>3. a.parts[<< w, 0 >>] \in Seq(Units)
          BY <1>2, <5>2, PartsAre DEF Stores
        <5>4. \A c, d \in Seq(Units) : Len(c \o d) = Len(c) + Len(d)
          OBVIOUS
        <5>5. Len(a.parts[<< w, 0 >>] \o x.buffer) = Len(a.parts[<< w, 0 >>]) + Len(x.buffer)
          BY <2>1, <5>3, <5>4
        <5> QED BY <5>2, <5>5
      <4>2. CASE ~x.upload
        BY <1>2, <1>6, <2>1, <4>2 DEF WriterInv
      <4> QED BY <4>1, <4>2
    <3>3. x.written \o << >> = x.written
      BY <2>1, ConcatEmptySeq
    <3>4. x.total + Len(data) \in Nat /\ x.total + Len(data) > 0
      BY <2>1, SMTT(30)
    <3>5. /\ << w, 0 >> \in DOMAIN p.parts /\ p.parts[<< w, 0 >>] = x.written
          /\ p.writer[w].buffer = << >> /\ p.writer[w].written = x.written /\ p.writer[w].total = x.total + Len(data)
      BY <2>5, <2>12, <3>1
    <3> HIDE DEF x, data
    <3> QED BY <3>2, <3>3, <3>4, <3>5 DEF PartGrown
  <2>15. ASSUME Good(answer), a.kind # "gcs" PROVE PartsSent(p, w)
    <3> DEFINE n == Len(x.list)
    <3>1. Arrives(answer) /\ n \in Nat /\ key = << w, n + 1 >> /\ key \in DOMAIN parts /\ parts[key] = data
      BY <2>1, <2>3, <2>6, <2>9, <2>15 DEF Good, Arrives
    <3>2. SentOf(p.kind, p.writer[w]) = Append(x.list, key)
      <4>1. y.pending.answer # None /\ y.pending # NoPart /\ y.pending.key = key
        BY <2>5 DEF NoPart, Answers, None
      <4> QED BY <1>2, <2>5, <2>12, <2>15, <4>1 DEF SentOf
    <3>3. CASE x.upload
      <4>1. PartsSent(a, w)
        BY <1>2, <1>6, <2>2, <2>15, <3>3 DEF WriterInv
      <4>2. PICK marks : Marked(a, w, marks)
        BY <4>1 DEF PartsSent
      <4>3. /\ marks \in Seq(Seq(Units)) /\ Len(marks) = n /\ n > 0 /\ marks[n] \o data = x.written
            /\ \A i \in 1..n : << w, i >> \in DOMAIN a.parts =>
                  marks[i] = IF i = 1 THEN a.parts[<< w, i >>] ELSE marks[i - 1] \o a.parts[<< w, i >>]
        BY <2>2, <4>2 DEF Marked
      <4> DEFINE more == Append(marks, x.written)
      <4>4. /\ more \in Seq(Seq(Units)) /\ Len(more) = n + 1 /\ more[n + 1] = x.written
            /\ \A i \in 1..n : more[i] = marks[i]
        BY <2>1, <4>3, SMTT(30)
      <4> HIDE DEF more
      <4>5. more[n + 1] \o << >> = x.written
        BY <2>1, <4>4, ConcatEmptySeq
      <4>6. ASSUME NEW i \in 1..(n + 1), << w, i >> \in DOMAIN parts
            PROVE  more[i] = IF i = 1 THEN parts[<< w, i >>] ELSE more[i - 1] \o parts[<< w, i >>]
        <5>1. CASE i = n + 1
          <6>1. parts[<< w, i >>] = data /\ i # 1 /\ i - 1 = n /\ n \in 1..n
            BY <3>1, <4>3, <5>1
          <6>2. more[i] = x.written /\ more[i - 1] = marks[n]
            BY <4>4, <5>1, <6>1
          <6> HIDE DEF x, data, n
          <6> QED BY <4>3, <6>1, <6>2
        <5>2. CASE i # n + 1
          <6>1. i \in 1..n /\ << w, i >> # key
            BY <3>1, <5>2
          <6>2. << w, i >> \in DOMAIN a.parts /\ parts[<< w, i >>] = a.parts[<< w, i >>]
            BY <2>9, <4>6, <6>1
          <6>3. i # 1 => i - 1 \in 1..n
            BY <6>1
          <6> QED BY <4>3, <4>4, <6>1, <6>2, <6>3
        <5> QED BY <5>1, <5>2
      <4>7. Len(Append(x.list, key)) = n + 1 /\ \A i \in DOMAIN Append(x.list, key) : Append(x.list, key)[i] = << w, i >>
        <5>1. \A i \in DOMAIN x.list : x.list[i] = << w, i >>
          BY <2>2, <4>1 DEF PartsSent
        <5> QED BY <2>1, <2>4, <3>1, <5>1
      <4>8. Marked(p, w, more)
        <5>1. /\ p.writer[w].buffer = << >> /\ p.writer[w].written = x.written /\ p.parts = parts
              /\ Len(SentOf(p.kind, p.writer[w])) = n + 1
          BY <2>5, <2>12, <3>2, <4>7
        <5> HIDE DEF x, n
        <5>2. Len(more) > 0 /\ more[Len(more)] \o p.writer[w].buffer = p.writer[w].written
          BY <3>1, <4>4, <4>5, <5>1
        <5>3. \A i \in 1..Len(more) : << w, i >> \in DOMAIN p.parts =>
                 more[i] = IF i = 1 THEN p.parts[<< w, i >>] ELSE more[i - 1] \o p.parts[<< w, i >>]
          <6>1. SUFFICES ASSUME NEW i \in 1..(n + 1), << w, i >> \in DOMAIN parts
                         PROVE  more[i] = IF i = 1 THEN parts[<< w, i >>] ELSE more[i - 1] \o parts[<< w, i >>]
            BY <4>4, <5>1
          <6> QED BY <4>6, <6>1
        <5> QED BY <4>4, <5>1, <5>2, <5>3 DEF Marked
      <4> QED BY <3>2, <4>7, <4>8 DEF PartsSent
    <3>4. CASE ~x.upload
      <4>1. x.list = << >> /\ data = x.written /\ n = 0
        BY <1>2, <1>6, <3>4 DEF WriterInv
      <4> DEFINE more == << x.written >>
      <4>2. more \in Seq(Seq(Units)) /\ Len(more) = 1 /\ more[1] = x.written
        BY <2>1
      <4> HIDE DEF more
      <4>3. more[1] \o << >> = x.written
        BY <2>1, <4>2, ConcatEmptySeq
      <4>4. Append(x.list, key) = << << w, 1 >> >>
        BY <3>1, <4>1
      <4>5. Marked(p, w, more)
        <5>1. /\ p.writer[w].buffer = << >> /\ p.writer[w].written = x.written /\ p.parts = parts
              /\ Len(SentOf(p.kind, p.writer[w])) = 1
          BY <2>5, <2>12, <3>2, <4>4
        <5>2. parts[<< w, 1 >>] = x.written
          BY <3>1, <4>1
        <5> HIDE DEF x, n, data
        <5> QED BY <4>2, <4>3, <5>1, <5>2 DEF Marked
      <4> QED BY <3>2, <4>4, <4>5 DEF PartsSent
    <3> QED BY <3>3, <3>4
  <2>16. WriterInv(p, w)
    <3>1. w \notin p.committed /\ p.writer[w].upload /\ p.writer[w].pending.answer = answer
      BY <1>3, <2>5, <2>12
    <3>2. p.writer[w].pending # NoPart
      BY <2>5, <2>12 DEF NoPart, Answers, None
    <3>3. Good(answer) => IF p.kind = "gcs" THEN PartGrown(p, w) ELSE PartsSent(p, w)
      BY <2>12, <2>14, <2>15
    <3> QED BY <3>1, <3>2, <3>3 DEF WriterInv
  <2>17. UploadInv(p)
    BY <1>1, <1>3, <2>5, <2>12, <2>13, <2>16, ApartKeeps
  <2>18. Apart(o, p, w)
    BY <1>1, <2>13 DEF Apart
  <2> QED BY <1>1, <2>5, <2>12, <2>17, <2>18 DEF p
<1> QED BY <1>4, <1>5, <1>6

\* One unit more, which may fill the buffer.
LEMMA UploadUnitKeeps ==
    ASSUME NEW o, UploadInv(o), NEW w \in 1..2, NEW unit \in Units, NEW answer \in Answers
    PROVE  UploadInv(UploadUnit(o, w, unit, answer))
<1> DEFINE old == o.writer[w]
           y == [old EXCEPT !.buffer = Append(@, unit), !.written = Append(@, unit)]
           x == [o EXCEPT !.writer[w] = y]
<1>1. o \in Stores /\ old \in Writers /\ WriterInv(o, w)
  BY DEF UploadInv, Stores
<1>2. CASE old.state # "open"
  BY <1>2 DEF UploadUnit, IfOpen
<1>3. CASE old.state = "open"
  <2>1. old.buffer \in Seq(Units) /\ old.written \in Seq(Units)
    BY <1>1 DEF Writers
  <2>2. /\ Append(old.buffer, unit) \in Seq(Units) /\ Append(old.written, unit) \in Seq(Units)
        /\ Append(old.buffer, unit) # << >>
    BY <2>1
  <2> DEFINE buffer == Append(old.buffer, unit)
             written == Append(old.written, unit)
  <2>3. y = [old EXCEPT !.buffer = buffer, !.written = written]
    OBVIOUS
  <2> HIDE DEF buffer, written, y, old
  <2>4. /\ y \in Writers /\ y.state = old.state /\ y.upload = old.upload /\ y.pending = old.pending /\ y.list = old.list
        /\ y.total = old.total /\ y.buffer = buffer /\ y.written = written
    BY <1>1, <2>2, <2>3 DEF Writers, buffer, written
  <2>5. x = Put(o, w, y, o.parts, o.object, o.committed)
    BY <1>1, <2>4, PutWriter
  <2> HIDE DEF x
  <2>6. /\ x \in Stores /\ x.kind = o.kind /\ x.parts = o.parts /\ x.object = o.object /\ x.committed = o.committed
        /\ x.writer[w] = y /\ Apart(o, x, w)
    BY <1>1, <2>4, <2>5, PutWriter
  <2>7. \A c, d \in Seq(Units) : c \o Append(d, unit) = Append(c \o d, unit)
    OBVIOUS
  <2>8. SentOf(x.kind, y) = SentOf(o.kind, old)
    BY <2>4, <2>6 DEF SentOf
  <2>9. ASSUME PartsSent(o, w) PROVE PartsSent(x, w)
    <3>1. PICK marks : Marked(o, w, marks)
      BY <2>9 DEF PartsSent
    <3>2. marks[Len(marks)] \in Seq(Units)
      <4>1. marks \in Seq(Seq(Units)) /\ Len(marks) > 0
        BY <3>1 DEF Marked
      <4> QED BY <4>1
    <3>3. marks[Len(marks)] \o old.buffer = old.written
      BY <3>1 DEF Marked, old
    <3>4. marks[Len(marks)] \o buffer = written
      BY <2>1, <2>7, <3>2, <3>3 DEF buffer, written
    <3>5. Marked(x, w, marks)
      BY <2>4, <2>6, <2>8, <3>1, <3>4 DEF Marked, old
    <3>6. SentOf(x.kind, x.writer[w]) = SentOf(o.kind, o.writer[w])
      BY <2>6, <2>8 DEF old
    <3> QED BY <2>9, <3>5, <3>6 DEF PartsSent
  <2>10. ASSUME PartGrown(o, w) PROVE PartGrown(x, w)
    <3>1. /\ << w, 0 >> \in DOMAIN o.parts /\ o.parts[<< w, 0 >>] \o old.buffer = old.written
          /\ Len(o.parts[<< w, 0 >>]) = old.total /\ old.total > 0
      BY <2>10 DEF PartGrown, old
    <3>2. o.parts[<< w, 0 >>] \in Seq(Units)
      BY <1>1, <3>1, PartsAre DEF Stores
    <3>3. o.parts[<< w, 0 >>] \o buffer = written
      BY <2>1, <2>7, <3>1, <3>2 DEF buffer, written
    <3> QED BY <2>4, <2>6, <3>1, <3>3 DEF PartGrown
  <2>11. WriterInv(x, w)
    <3>1. old.buffer = old.written => buffer = written
      BY DEF buffer, written
    <3> QED BY <1>1, <1>3, <2>4, <2>6, <2>9, <2>10, <3>1 DEF WriterInv, old
  <2>12. w \notin o.committed
    BY <1>1, <1>3 DEF WriterInv, old
  <2>13. UploadInv(x)
    BY <1>3, <2>4, <2>6, <2>11, <2>12, ApartKeeps
  <2>14. UploadInv(PartAsync(x, w, answer))
    BY <1>3, <2>2, <2>4, <2>6, <2>13, PartAsyncKeeps DEF buffer
  <2>15. UploadUnit(o, w, unit, answer) = IF Len(buffer) = PartSize THEN PartAsync(x, w, answer) ELSE x
    BY <1>3, <2>4, <2>6 DEF UploadUnit, IfOpen, x, y, old
  <2> QED BY <2>13, <2>14, <2>15
<1> QED BY <1>2, <1>3

LEMMA UploadDataKeeps ==
    ASSUME NEW o, UploadInv(o), NEW w \in 1..2, NEW n \in Nat, NEW answer \in Answers
    PROVE  UploadInv(UploadData(o, w, n, answer))
<1> DEFINE S == {x \in Stores : UploadInv(x)}
           One(x) == UploadUnit(x, w, << w, Len(x.writer[w].written) + 1 >>, answer)
           Steps(f) == [i \in 0..n |-> IF i = 0 THEN o ELSE One(f[i - 1])]
           Given == CHOOSE f : f = Steps(f)
<1>1. o \in S
  BY DEF UploadInv
<1>2. ASSUME NEW x \in S PROVE One(x) \in S
  <2> DEFINE unit == << w, Len(x.writer[w].written) + 1 >>
  <2>1. UploadInv(x) /\ x.writer[w] \in Writers
    BY <1>2 DEF Stores
  <2>2. x.writer[w].written \in Seq(Units)
    BY <2>1 DEF Writers
  <2>3. unit \in Units
    BY <2>2 DEF Units
  <2> HIDE DEF unit
  <2>4. UploadInv(UploadUnit(x, w, unit, answer))
    BY <2>1, <2>3, UploadUnitKeeps
  <2> QED BY <2>4 DEF UploadInv, unit
<1> HIDE DEF S, One
<1> DEFINE G(q) == One(q[2])
           g == [q \in (1..n) \X S |-> G(q)]
<1>3. g \in [(1..n) \X S -> S]
  <2>1. ASSUME NEW q \in (1..n) \X S PROVE G(q) \in S
    BY <1>2
  <2> HIDE DEF G
  <2> QED BY <2>1
<1>4. \A i \in 1..n, x \in S : g[<< i, x >>] = One(x)
  OBVIOUS
<1> HIDE DEF g
<1>5. PICK f : f \in [0..n -> S] /\ f[0] = o /\ \A i \in 1..n : f[i] = g[<< i, f[i - 1] >>]
  <2>1. \E f : IsRun(n, S, o, g, f)
    BY <1>1, <1>3, RunExists
  <2> QED BY <2>1 DEF IsRun
<1>6. f = Steps(f)
  <2>1. ASSUME NEW i \in 0..n PROVE f[i] = Steps(f)[i]
    <3>1. CASE i = 0
      BY <1>5, <3>1
    <3>2. CASE i # 0
      <4>1. i \in 1..n /\ f[i - 1] \in S
        BY <1>5, <3>2
      <4> QED BY <1>4, <1>5, <3>2, <4>1
    <3> QED BY <3>1, <3>2
  <2> QED BY <1>5, <2>1
<1>7. Given = Steps(Given)
  BY <1>6
<1> HIDE DEF Given
<1>8. Given[n] \in S
  <2>1. Given[0] \in S
    <3>1. 0 \in 0..n
      OBVIOUS
    <3>2. Given[0] = o
      BY <1>7, <3>1
    <3> QED BY <1>1, <3>2
  <2>2. \A i \in 1..n : Given[i - 1] \in S => Given[i] \in S
    <3>1. ASSUME NEW i \in 1..n, Given[i - 1] \in S PROVE Given[i] \in S
      <4>1. i \in 0..n /\ i # 0
        OBVIOUS
      <4>2. Given[i] = One(Given[i - 1])
        BY <1>7, <4>1
      <4> QED BY <1>2, <3>1, <4>2
    <3> QED BY <3>1
  <2> QED BY <2>1, <2>2, RunStays
<1>9. UploadData(o, w, n, answer) = Given[n]
  BY DEF UploadData, Given, One
<1> QED BY <1>8, <1>9 DEF S

\* A writer that fails keeps what it stored.
LEMMA FailedKeeps ==
    ASSUME NEW o, UploadInv(o), NEW w \in 1..2, NEW x \in Writers, x.state = Error, x.written = o.writer[w].written
    PROVE  UploadInv([o EXCEPT !.writer[w] = x])
<1> DEFINE p == [o EXCEPT !.writer[w] = x]
<1>1. o \in Stores
  BY DEF UploadInv
<1>2. p = Put(o, w, x, o.parts, o.object, o.committed)
  BY <1>1, PutWriter
<1> HIDE DEF p
<1>3. /\ p \in Stores /\ p.object = o.object /\ p.committed = o.committed
      /\ p.writer[w] = x /\ Apart(o, p, w)
  <2> DEFINE q == Put(o, w, x, o.parts, o.object, o.committed)
  <2>1. q \in Stores /\ q.object = o.object /\ q.committed = o.committed /\ q.writer[w] = x /\ Apart(o, q, w)
    BY <1>1, PutWriter, ZenonT(40)
  <2> HIDE DEF q
  <2>2. p = q
    BY <1>2 DEF q
  <2> QED BY <2>1, <2>2
<1>4. \A v \in 1..2 : v = w \/ p.writer[v] = o.writer[v]
  BY <1>3 DEF Apart
<1>5. \A v \in 1..2 : WriterInv(p, v)
  <2>1. WriterInv(p, w)
    BY <1>3 DEF WriterInv, Error
  <2>2. \A v \in (1..2) \ {w} : WriterInv(p, v)
    BY <1>1, <1>3, ApartWriter DEF UploadInv
  <2> QED BY <2>1, <2>2
<1>6. \A v \in 1..2 : p.writer[v].written = o.writer[v].written
  BY <1>3, <1>4
<1>7. \A v \in 1..2 : p.writer[v].state = "closed" => v \in p.committed
  BY <1>3, <1>4 DEF UploadInv, Error
<1>8. p.object = << >> \/ \E v \in p.committed : p.object = p.writer[v].written
  <2>1. o.committed \subseteq 1..2
    BY <1>1 DEF Stores
  <2> QED BY <1>3, <1>6, <2>1 DEF UploadInv
<1>9. UploadInv(p)
  BY <1>3, <1>5, <1>7, <1>8 DEF UploadInv
<1> QED BY <1>9 DEF p

\* After an error it does not matter how a part was answered.
LEMMA AnsweredOver ==
    ASSUME NEW o, UploadInv(o), NEW w \in 1..2, o.writer[w].state = Error
    PROVE  UploadInv(PartAnswered(o, w)) /\ PartAnswered(o, w).writer[w].state = Error
<1> DEFINE x == o.writer[w]
           list == IF o.kind = "s3" THEN Append(x.list, x.pending.key) ELSE x.list
           e == [x EXCEPT !.state = Error]
           y == [x EXCEPT !.pending = NoPart, !.list = list]
           p == PartAnswered(o, w)
<1>1. o \in Stores /\ x \in Writers
  BY DEF UploadInv, Stores
<1>2. x.pending = NoPart \/ x.pending \in [key : Keys, answer : Answers]
  BY <1>1 DEF Writers, Pendings
<1>3. e \in Writers /\ e.state = Error /\ e.written = x.written
  BY <1>1 DEF Writers
<1>4. x.pending # NoPart => y \in Writers /\ y.state = Error /\ y.written = x.written
  <2>1. ASSUME x.pending # NoPart PROVE list \in Seq(Keys)
    BY <1>1, <1>2, <2>1 DEF Writers
  <2> HIDE DEF list
  <2> QED BY <1>1, <2>1 DEF Writers, Pendings
<1>5. p = IF x.pending = NoPart THEN o ELSE IF ~Good(x.pending.answer) THEN [o EXCEPT !.writer[w] = e] ELSE [o EXCEPT !.writer[w] = y]
  BY DEF PartAnswered, UploadError
<1>6. \A z \in Writers : [o EXCEPT !.writer[w] = z].writer[w] = z
  BY <1>1 DEF Stores
<1> HIDE DEF e, y, p
<1>7. UploadInv([o EXCEPT !.writer[w] = e])
  BY <1>3, FailedKeeps
<1>8. x.pending # NoPart => UploadInv([o EXCEPT !.writer[w] = y])
  BY <1>4, FailedKeeps
<1>9. CASE x.pending = NoPart
  BY <1>5, <1>9 DEF p
<1>10. CASE x.pending # NoPart /\ ~Good(x.pending.answer)
  BY <1>3, <1>5, <1>6, <1>7, <1>10 DEF p
<1>11. CASE x.pending # NoPart /\ Good(x.pending.answer)
  BY <1>4, <1>5, <1>6, <1>8, <1>11 DEF p
<1> QED BY <1>9, <1>10, <1>11

\* The list of parts is sent: they make what was written, or they are not all there.
Content(o, w) == FlattenSeq([i \in DOMAIN PartsOf(o, w) |-> o.parts[PartsOf(o, w)[i]]])

LEMMA FinishedKeeps ==
    ASSUME NEW o, UploadInv(o), NEW w \in 1..2, w \notin o.committed, NEW g \in Stores, Apart(o, g, w),
           g.object = o.object, g.committed = o.committed, NEW answer \in Answers,
           Arrives(answer) /\ PartsStored(g, w) => Content(g, w) = g.writer[w].written
    PROVE  UploadInv(UploadFinished(g, w, answer))
<1> DEFINE x == g.writer[w]
           stored == Arrives(answer) /\ PartsStored(g, w)
           ok == PartsStored(g, w) /\ (answer = "ok" \/ (answer = "twice" /\ g.kind = "gcs"))
           y == [x EXCEPT !.state = IF ok THEN "closed" ELSE Error]
           others == {k \in DOMAIN g.parts : k[1] # w}
           left == IF g.kind = "azure" THEN << >> ELSE Restrict(g.parts, others)
           parts == IF stored THEN left ELSE g.parts
           object == IF stored THEN x.written ELSE g.object
           committed == IF stored THEN g.committed \cup {w} ELSE g.committed
           p == UploadFinished(g, w, answer)
<1>1. /\ x \in Writers /\ g.parts \in Parts /\ g.object \in Seq(Units) /\ g.committed \in SUBSET (1..2) /\ x.written \in Seq(Units)
  BY DEF Stores, Writers
<1>2. y \in Writers /\ y.state \in {"closed", Error} /\ y.written = x.written /\ (y.state = "closed" => ok)
  BY <1>1 DEF Writers, Error
<1>3. ok => stored
  BY DEF Arrives
<1>4. DOMAIN g.parts \subseteq Keys /\ g.parts \in [DOMAIN g.parts -> Seq(Units)]
  BY <1>1, PartsAre
<1>5. left \in Parts /\ DOMAIN left = (IF g.kind = "azure" THEN {} ELSE others) /\ \A k \in DOMAIN left : left[k] = g.parts[k]
  <2>1. CASE g.kind = "azure"
    <3>1. << >> \in [{} -> Seq(Units)] /\ DOMAIN << >> = {}
      OBVIOUS
    <3> QED BY <2>1, <3>1 DEF Parts
  <2>2. CASE g.kind # "azure"
    <3>1. left = [k \in others |-> g.parts[k]]
      BY <2>2 DEF Restrict
    <3>2. left \in [others -> Seq(Units)] /\ others \in SUBSET Keys
      BY <1>4, <3>1
    <3> QED BY <2>2, <3>1, <3>2 DEF Parts
  <2> QED BY <2>1, <2>2
<1>6. parts \in Parts /\ object \in Seq(Units) /\ committed \in SUBSET (1..2)
  BY <1>1, <1>5
<1>7. p = Put(g, w, y, parts, object, committed)
  <2>1. CASE stored
    <3>1. Commit(g, w) = [g EXCEPT !.object = object, !.committed = committed, !.parts = parts]
      BY <2>1 DEF Commit, Content
    <3>2. p = [[g EXCEPT !.object = object, !.committed = committed, !.parts = parts] EXCEPT !.writer[w] = y]
      <4>1. p = [Commit(g, w) EXCEPT !.writer[w].state = IF ok THEN "closed" ELSE Error]
        BY <2>1 DEF UploadFinished
      <4> HIDE DEF object, committed, parts
      <4> QED BY <3>1, <4>1 DEF Stores
    <3> HIDE DEF object, committed, parts, y, p
    <3> QED BY <3>2 DEF Put, Stores
  <2>2. CASE ~stored
    <3>1. p = [g EXCEPT !.writer[w] = y]
      BY <2>2 DEF UploadFinished, Commit
    <3>2. parts = g.parts /\ object = g.object /\ committed = g.committed
      BY <2>2
    <3> HIDE DEF object, committed, parts, y, p
    <3> QED BY <1>2, <3>1, <3>2, PutWriter
  <2> QED BY <2>1, <2>2
<1>8. stored => object = x.written /\ w \in committed
  OBVIOUS
<1>9. ~stored => parts = g.parts /\ object = g.object /\ committed = g.committed
  OBVIOUS
<1>10. stored => parts = left /\ committed = g.committed \cup {w}
  OBVIOUS
<1>11. \A v \in (1..2) \ {w}, i \in Nat : << v, i >> \in DOMAIN left => << v, i >> \in DOMAIN g.parts
  BY <1>5
<1>12. \A v \in (1..2) \ {w}, i \in Nat : g.kind # "azure" /\ << v, i >> \in DOMAIN g.parts => << v, i >> \in DOMAIN left
  BY <1>5
<1> HIDE DEF p, y, parts, object, committed, left, stored, ok
<1>13. /\ p \in Stores /\ p.kind = g.kind /\ p.parts = parts /\ p.object = object /\ p.committed = committed
       /\ p.writer[w] = y /\ \A v \in (1..2) \ {w} : p.writer[v] = g.writer[v]
  BY <1>2, <1>6, <1>7, PutIs
<1>14. Apart(o, p, w)
  <2>1. \A v \in (1..2) \ {w}, i \in Nat :
          /\ << v, i >> \in DOMAIN parts => << v, i >> \in DOMAIN g.parts /\ parts[<< v, i >>] = g.parts[<< v, i >>]
          /\ g.kind # "azure" /\ << v, i >> \in DOMAIN g.parts => << v, i >> \in DOMAIN parts
    BY <1>5, <1>9, <1>10, <1>11, <1>12
  <2>2. o.committed \subseteq committed /\ committed \subseteq o.committed \cup {w}
    BY <1>9, <1>10
  <2>3. p.kind = o.kind /\ \A v \in (1..2) \ {w} : p.writer[v] = o.writer[v]
    BY <1>13 DEF Apart
  <2> QED BY <1>13, <2>1, <2>2, <2>3 DEF Apart
<1>15. WriterInv(p, w)
  BY <1>2, <1>13 DEF WriterInv, Error
<1>16. UploadInv(p)
  BY <1>2, <1>3, <1>8, <1>9, <1>13, <1>14, <1>15, ApartKeeps DEF Error
<1> QED BY <1>16 DEF p

LEMMA WholePutKeeps ==
    ASSUME NEW o, UploadInv(o), NEW w \in 1..2, o.writer[w].state = "open", ~o.writer[w].upload, NEW answer \in Answers
    PROVE  UploadInv(WholePut(o, w, answer))
<1> DEFINE x == o.writer[w]
           y == [x EXCEPT !.state = IF Good(answer) THEN "closed" ELSE Error]
           object == IF Arrives(answer) THEN x.buffer ELSE o.object
           committed == IF Arrives(answer) THEN o.committed \cup {w} ELSE o.committed
           p == WholePut(o, w, answer)
<1>1. /\ o \in Stores /\ x \in Writers /\ o.parts \in Parts /\ o.object \in Seq(Units) /\ o.committed \in SUBSET (1..2)
      /\ x.written \in Seq(Units) /\ w \notin o.committed /\ x.buffer = x.written
  BY DEF UploadInv, WriterInv, Stores, Writers
<1>2. y \in Writers /\ y.state \in {"closed", Error} /\ y.written = x.written /\ (y.state = "closed" => Good(answer))
  BY <1>1 DEF Writers, Error
<1>3. object \in Seq(Units) /\ committed \in SUBSET (1..2)
  BY <1>1
<1>4. Arrives(answer) => object = x.written /\ committed = o.committed \cup {w}
  BY <1>1
<1>5. ~Arrives(answer) => object = o.object /\ committed = o.committed
  OBVIOUS
<1>6. p = [[o EXCEPT !.object = object, !.committed = committed] EXCEPT !.writer[w] = y]
  <2> HIDE DEF object, committed
  <2> QED BY <1>1 DEF WholePut, Stores, object, committed
<1> HIDE DEF y, object, committed, p
<1>7. p = Put(o, w, y, o.parts, object, committed)
  BY <1>1, <1>6 DEF Put, Stores
<1>8. /\ p \in Stores /\ p.kind = o.kind /\ p.parts = o.parts /\ p.object = object /\ p.committed = committed
      /\ p.writer[w] = y /\ \A v \in (1..2) \ {w} : p.writer[v] = o.writer[v]
  BY <1>1, <1>2, <1>3, <1>7, PutIs
<1>9. Apart(o, p, w)
  BY <1>4, <1>5, <1>8 DEF Apart
<1>10. WriterInv(p, w)
  BY <1>2, <1>8 DEF WriterInv, Error
<1>11. Good(answer) => Arrives(answer)
  BY DEF Good, Arrives
<1>12. UploadInv(p)
  BY <1>1, <1>2, <1>4, <1>5, <1>8, <1>9, <1>10, <1>11, ApartKeeps DEF Error
<1> QED BY <1>12 DEF p

\* The parts in the list of a writer make what it wrote.
LEMMA ListMakes ==
    ASSUME NEW o, UploadInv(o), NEW w \in 1..2, o.kind # "gcs", o.writer[w].pending = NoPart, o.writer[w].buffer = << >>,
           PartsSent(o, w), PartsStored(o, w)
    PROVE  Content(o, w) = o.writer[w].written
<1> DEFINE x == o.writer[w]
           list == x.list
           n == Len(list)
           parts == [i \in DOMAIN list |-> o.parts[list[i]]]
<1>1. o \in Stores /\ x \in Writers
  BY DEF UploadInv, Stores
<1>2. list \in Seq(Keys) /\ n \in Nat /\ DOMAIN list = 1..n /\ x.written \in Seq(Units)
  BY <1>1 DEF Writers
<1>3. SentOf(o.kind, x) = list /\ PartsOf(o, w) = list
  BY DEF SentOf, PartsOf
<1>4. \A i \in 1..n : list[i] = << w, i >>
  BY <1>2, <1>3 DEF PartsSent
<1>5. PICK marks : Marked(o, w, marks)
  BY DEF PartsSent
<1>6. /\ marks \in Seq(Seq(Units)) /\ Len(marks) = n /\ n > 0 /\ marks[n] \o << >> = x.written
      /\ \A i \in 1..n : << w, i >> \in DOMAIN o.parts =>
            marks[i] = IF i = 1 THEN o.parts[<< w, i >>] ELSE marks[i - 1] \o o.parts[<< w, i >>]
  BY <1>3, <1>5 DEF Marked
<1>7. \A i \in 1..n : << w, i >> \in DOMAIN o.parts
  <2>1. ASSUME NEW i \in 1..n PROVE << w, i >> \in DOMAIN o.parts
    <3>1. list[i] \in Range(list)
      BY <1>2 DEF Range
    <3> QED BY <1>3, <1>4, <3>1 DEF PartsStored
  <2> QED BY <2>1
<1>8. parts \in [1..n -> Seq(Units)] /\ \A i \in 1..n : parts[i] = o.parts[<< w, i >>]
  <2>1. \A i \in 1..n : o.parts[<< w, i >>] \in Seq(Units)
    BY <1>1, <1>7, PartsAre DEF Stores
  <2> QED BY <1>2, <1>4, <2>1
<1>9. marks \in [1..n -> Seq(Units)]
  BY <1>2, <1>6
<1>10. \A i \in 1..n : marks[i] = IF i = 1 THEN parts[i] ELSE marks[i - 1] \o parts[i]
  BY <1>6, <1>7, <1>8
<1>11. FlattenSeq(parts) = marks[n]
  <2> HIDE DEF parts, n
  <2> QED BY <1>2, <1>6, <1>8, <1>9, <1>10, FlattenIs, ZenonT(40)
<1>12. marks[n] \in Seq(Units) /\ marks[n] \o << >> = marks[n]
  BY <1>2, <1>6, <1>9, ConcatEmptySeq
<1>13. Content(o, w) = FlattenSeq(parts)
  BY <1>3 DEF Content
<1> QED BY <1>6, <1>11, <1>12, <1>13

LEMMA PartsCloseKeeps ==
    ASSUME NEW o, UploadInv(o), NEW w \in 1..2, o.writer[w].state = "open", o.writer[w].upload, o.kind # "gcs", NEW answer \in Answers
    PROVE  UploadInv(PartsClose(o, w, answer))
<1> DEFINE last == IF o.writer[w].buffer # << >> THEN PartAsync(o, w, answer) ELSE o
           p == PartAnswered(last, w)
<1>1. /\ UploadInv(last) /\ last.kind = o.kind /\ last.committed = o.committed
      /\ last.writer[w].state \in {"open", Error}
      /\ last.writer[w].state = "open" => last.writer[w].buffer = << >> /\ last.writer[w].upload
  <2>1. CASE o.writer[w].buffer # << >>
    BY <2>1, PartAsyncKeeps
  <2>2. CASE o.writer[w].buffer = << >>
    BY <2>2
  <2> QED BY <2>1, <2>2
<1>2. PartsClose(o, w, answer) = IF p.writer[w].state = "open" THEN UploadFinished(p, w, answer) ELSE p
  BY DEF PartsClose, IfOpen
<1> HIDE DEF last, p
<1>3. CASE last.writer[w].state # "open"
  <2>1. UploadInv(p) /\ p.writer[w].state = Error
    BY <1>1, <1>3, AnsweredOver DEF p
  <2> QED BY <1>2, <2>1 DEF Error
<1>4. CASE last.writer[w].state = "open"
  <2>1. /\ UploadInv(p) /\ p.kind = last.kind /\ p.writer[w].upload /\ p.writer[w].buffer = << >>
        /\ p.writer[w].state = "open" => p.writer[w].pending = NoPart
    BY <1>1, <1>4, AnsweredKeeps DEF p
  <2>2. CASE p.writer[w].state = "open"
    <3>1. PartsSent(p, w) /\ w \notin p.committed /\ p \in Stores
      BY <1>1, <2>1, <2>2 DEF UploadInv, WriterInv
    <3>2. PartsStored(p, w) => Content(p, w) = p.writer[w].written
      BY <1>1, <2>1, <2>2, <3>1, ListMakes
    <3>3. Apart(p, p, w)
      BY DEF Apart
    <3>4. UploadInv(UploadFinished(p, w, answer))
      BY <2>1, <3>1, <3>2, <3>3, FinishedKeeps
    <3> QED BY <1>2, <2>2, <3>4
  <2>3. CASE p.writer[w].state # "open"
    BY <1>2, <2>1, <2>3
  <2> QED BY <2>2, <2>3
<1> QED BY <1>3, <1>4

LEMMA ChunksCloseKeeps ==
    ASSUME NEW o, UploadInv(o), NEW w \in 1..2, o.writer[w].state = "open", o.writer[w].upload, o.kind = "gcs", NEW answer \in Answers
    PROVE  UploadInv(ChunksClose(o, w, answer))
<1> DEFINE a == PartAnswered(o, w)
           x == a.writer[w]
           key == GcsPartKey(w)
           parts == IF Arrives(answer) /\ x.buffer # << >> THEN Received(a, w, key, x.buffer) ELSE a.parts
           g == [a EXCEPT !.parts = parts]
           f == UploadFinished(g, w, answer)
<1>1. /\ UploadInv(a) /\ a.kind = "gcs" /\ x.upload /\ (x.state = "open" => x.pending = NoPart)
  BY AnsweredKeeps
<1>2. ChunksClose(o, w, answer) =
         IF x.state = "open"
         THEN IF f.writer[w].state = "closed" /\ f.object # f.writer[w].written THEN UploadError(f, w) ELSE f
         ELSE a
  BY DEF ChunksClose, IfOpen
<1> HIDE DEF a
<1>3. CASE x.state # "open"
  BY <1>1, <1>2, <1>3
<1>4. CASE x.state = "open"
  <2>1. a \in Stores /\ x \in Writers /\ w \notin a.committed /\ PartGrown(a, w) /\ a.parts \in Parts
    BY <1>1, <1>4 DEF UploadInv, WriterInv, Stores
  <2>2. key = << w, 0 >> /\ key \in Keys
    BY DEF GcsPartKey, Keys
  <2>3. x.buffer \in Seq(Units) /\ x.written \in Seq(Units)
    BY <2>1 DEF Writers
  <2>4. /\ key \in DOMAIN a.parts /\ a.parts[key] \o x.buffer = x.written /\ Len(a.parts[key]) = x.total /\ x.total > 0
        /\ a.parts[key] \in Seq(Units)
    BY <2>1, <2>2, PartsAre DEF PartGrown
  <2>5. SubSeq(a.parts[key], 1, x.total) = a.parts[key]
    BY <2>4
  <2>6. Received(a, w, key, x.buffer) = With(a.parts, key, x.written)
    BY <1>1, <2>4, <2>5 DEF Received, With
  <2> HIDE DEF key, x
  <2> DEFINE written == x.written
             grown == With(a.parts, key, written)
  <2>14. /\ grown \in Parts /\ DOMAIN grown = DOMAIN a.parts \cup {key} /\ grown[key] = written
         /\ \A k \in DOMAIN a.parts : k # key => grown[k] = a.parts[k]
    <3>1. written \in Seq(Units)
      BY <2>3
    <3> HIDE DEF written
    <3> QED BY <2>1, <2>2, <3>1, PartsPut
  <2>15. parts = IF Arrives(answer) /\ x.buffer # << >> THEN grown ELSE a.parts
    BY <2>6
  <2> HIDE DEF grown, parts
  <2>7. parts \in Parts /\ \A k : k # key => (k \in DOMAIN parts <=> k \in DOMAIN a.parts) /\ (k \in DOMAIN a.parts => parts[k] = a.parts[k])
    <3>1. CASE parts = a.parts
      BY <2>1, <3>1
    <3>2. CASE parts = grown
      BY <2>14, <3>2
    <3> QED BY <2>15, <3>1, <3>2
  <2>8. Arrives(answer) => key \in DOMAIN parts /\ parts[key] = x.written
    <3>1. CASE Arrives(answer) /\ x.buffer # << >>
      BY <2>14, <2>15, <3>1
    <3>2. CASE Arrives(answer) /\ x.buffer = << >>
      <4>1. a.parts[key] \o << >> = a.parts[key]
        BY <2>4, ConcatEmptySeq
      <4> QED BY <2>4, <2>15, <3>2, <4>1
    <3> QED BY <3>1, <3>2
  <2>9. g \in Stores /\ g.kind = a.kind /\ g.parts = parts /\ g.object = a.object /\ g.committed = a.committed /\ g.writer = a.writer
    BY <2>1, <2>7 DEF Stores
  <2> HIDE DEF g
  <2>10. Apart(a, g, w)
    <3>1. \A v \in (1..2) \ {w}, i \in Nat : << v, i >> # key
      BY <2>2
    <3> QED BY <2>7, <2>9, <3>1 DEF Apart
  <2>11. ASSUME Arrives(answer) PROVE Content(g, w) = g.writer[w].written
    <3> DEFINE one == << parts[key] >>
    <3>1. parts[key] = x.written
      BY <2>8, <2>11
    <3>2. PartsOf(g, w) = << key >>
      BY <1>1, <2>9 DEF PartsOf, key
    <3>3. one \in [1..1 -> Seq(Units)] /\ one[1] = x.written
      BY <2>3, <3>1
    <3>4. [i \in DOMAIN << key >> |-> g.parts[<< key >>[i]]] = one
      <4>1. DOMAIN << key >> = 1..1 /\ << key >>[1] = key
        OBVIOUS
      <4>2. \A i \in 1..1 : i = 1
        OBVIOUS
      <4> QED BY <2>9, <4>1, <4>2
    <3> HIDE DEF one
    <3>5. \A i \in 1..1 : one[i] = IF i = 1 THEN one[i] ELSE one[i - 1] \o one[i]
      OBVIOUS
    <3>6. FlattenSeq(one) = one[1]
      <4> DEFINE n == 1
      <4>1. n \in Nat /\ n > 0 /\ one \in [1..n -> Seq(Units)]
        BY <3>3
      <4>2. \A i \in 1..n : one[i] = IF i = 1 THEN one[i] ELSE one[i - 1] \o one[i]
        BY <3>5
      <4>3. FlattenSeq(one) = one[n]
        <5> HIDE DEF n
        <5> QED BY <4>1, <4>2, FlattenIs
      <4> QED BY <4>3
    <3> QED BY <2>9, <3>2, <3>3, <3>4, <3>6 DEF Content, x
  <2>12. UploadInv(f)
    BY <1>1, <2>1, <2>9, <2>10, <2>11, FinishedKeeps
  <2> HIDE DEF f
  <2>13. UploadInv(UploadError(f, w))
    <3> DEFINE e == [f.writer[w] EXCEPT !.state = Error]
    <3>1. f.writer[w] \in Writers
      BY <2>12 DEF UploadInv, Stores
    <3>2. e \in Writers /\ e.state = Error /\ e.written = f.writer[w].written
      BY <3>1 DEF Writers
    <3>3. UploadError(f, w) = [f EXCEPT !.writer[w] = e]
      BY DEF UploadError
    <3> HIDE DEF e
    <3> QED BY <2>12, <3>2, <3>3, FailedKeeps
  <2> QED BY <1>2, <1>4, <2>12, <2>13
<1> QED BY <1>3, <1>4

LEMMA UploadCloseKeeps ==
    ASSUME NEW o, UploadInv(o), NEW w \in 1..2, o.writer[w].state = "open", NEW answer \in Answers
    PROVE  UploadInv(UploadClose(o, w, answer))
<1>1. o.writer[w].upload \in BOOLEAN
  BY DEF UploadInv, Stores, Writers
<1>2. CASE ~o.writer[w].upload
  BY <1>2, WholePutKeeps DEF UploadClose
<1>3. CASE o.writer[w].upload /\ o.kind = "gcs"
  BY <1>3, ChunksCloseKeeps DEF UploadClose
<1>4. CASE o.writer[w].upload /\ o.kind # "gcs"
  BY <1>4, PartsCloseKeeps DEF UploadClose
<1> QED BY <1>2, <1>3, <1>4

LEMMA UploadBegins ==
    ASSUME NEW kind \in {"s3", "azure", "gcs"}
    PROVE  UploadInv(NewUpload(kind))
<1> DEFINE o == NewUpload(kind)
           x == [state |-> "open", buffer |-> << >>, written |-> << >>, upload |-> FALSE, list |-> << >>, total |-> 0, pending |-> NoPart]
<1>1. o = [kind |-> kind, object |-> << >>, parts |-> << >>, committed |-> {}, writer |-> [w \in 1..2 |-> x]]
  BY DEF NewUpload
<1>2. x \in Writers
  BY DEF Writers, Pendings
<1>3. << >> \in Parts
  <2>1. << >> \in [{} -> Seq(Units)]
    OBVIOUS
  <2> QED BY <2>1 DEF Parts
<1>4. o \in Stores
  <2>1. [w \in 1..2 |-> x] \in [1..2 -> Writers]
    BY <1>2
  <2> HIDE DEF x
  <2> QED BY <1>1, <1>3, <2>1 DEF Stores
<1>5. \A w \in 1..2 : o.writer[w] = x
  BY <1>1
<1>6. o.object = << >> /\ o.committed = {}
  BY <1>1
<1>7. \A w \in 1..2 : WriterInv(o, w)
  <2>1. x.pending = NoPart /\ x.list = << >> /\ x.total = 0 /\ x.buffer = x.written /\ ~x.upload /\ x.state = "open"
    OBVIOUS
  <2> HIDE DEF x, o
  <2> QED BY <1>5, <1>6, <2>1 DEF WriterInv
<1>8. \A w \in 1..2 : o.writer[w].state # "closed"
  BY <1>5
<1> HIDE DEF o
<1>9. UploadInv(o)
  BY <1>4, <1>6, <1>7, <1>8 DEF UploadInv
<1> QED BY <1>9 DEF o
-----------------------------------------------------------------------------
(* Credentials.                                                             *)

Signatures == [key : Nat \X Nat, cred : Nat, valid : Int]
Holders == [kind : {"s3", "gcs"}, now : Nat, cred : Nat, expire : Int, freed : BOOLEAN, key : Nat \X Nat, date : Int, used : Signatures]

\* A signing key that is kept is one of the credentials that are used.
CredentialInv(o) ==
    /\ o \in Holders
    /\ o.kind = "s3" => o.date = -1 \/ o.key = << o.cred, o.date >>
    /\ o.used # NotUsed =>
          /\ o.used.valid >= RenewMargin
          /\ o.kind = "s3" => o.used.key = << o.used.cred, o.now \div DayLength >>

LEMMA Today ==
    ASSUME NEW n \in Nat
    PROVE  n \div DayLength \in Nat
BY ObjectStoreAssumption

LEMMA SignKeeps ==
    ASSUME NEW o, CredentialInv(o), o.kind = "s3"
    PROVE  LET s == Sign(o)
           IN  /\ CredentialInv(s) /\ s.kind = "s3" /\ s.now = o.now /\ s.cred = o.cred /\ s.expire = o.expire
               /\ s.key = << o.cred, o.now \div DayLength >>
<1> DEFINE today == o.now \div DayLength
           key == << o.cred, today >>
           s == Sign(o)
<1>1. o \in Holders
  BY DEF CredentialInv
<1>2. today \in Nat
  BY <1>1, Today DEF Holders
<1>3. CASE o.date = today
  <2>1. s = o
    BY <1>3 DEF Sign
  <2>2. today # -1
    BY <1>2
  <2> QED BY <1>3, <2>1, <2>2 DEF CredentialInv
<1>4. CASE o.date # today
  <2>1. s = [o EXCEPT !.key = key, !.date = today]
    BY <1>4 DEF Sign
  <2>2. key \in Nat \X Nat
    BY <1>1, <1>2 DEF Holders
  <2> HIDE DEF key, s
  <2>3. /\ s \in Holders /\ s.kind = o.kind /\ s.now = o.now /\ s.cred = o.cred /\ s.expire = o.expire /\ s.key = key
        /\ s.date = today /\ s.used = o.used
    <3>1. today \in Int
      BY <1>2
    <3> HIDE DEF today
    <3> QED BY <1>1, <2>1, <2>2, <3>1 DEF Holders
  <2>4. key = << o.cred, today >>
    BY DEF key
  <2> QED BY <2>3, <2>4 DEF CredentialInv, s
<1> QED BY <1>3, <1>4

LEMMA UsedKeeps ==
    ASSUME NEW o, CredentialInv(o), NEW valid \in Int, valid >= RenewMargin,
           o.kind = "s3" => o.key = << o.cred, o.now \div DayLength >>
    PROVE  CredentialInv(Used(o, valid))
<1> DEFINE u == [key |-> o.key, cred |-> o.cred, valid |-> valid]
           s == Used(o, valid)
<1>1. o \in Holders
  BY DEF CredentialInv
<1>2. u \in Signatures /\ u.valid = valid /\ u.key = o.key /\ u.cred = o.cred
  BY <1>1 DEF Holders, Signatures
<1>3. s = [o EXCEPT !.used = u]
  BY DEF Used
<1> HIDE DEF u, s
<1>4. /\ s \in Holders /\ s.kind = o.kind /\ s.now = o.now /\ s.cred = o.cred /\ s.key = o.key /\ s.date = o.date /\ s.used = u
  BY <1>1, <1>2, <1>3 DEF Holders
<1>5. CredentialInv(s)
  BY <1>2, <1>4 DEF CredentialInv
<1> QED BY <1>5 DEF s

LEMMA NotUsedKeeps ==
    ASSUME NEW o, CredentialInv(o), NEW s \in Holders, s.kind = o.kind,
           s.used = NotUsed, (s.date = o.date /\ s.key = o.key /\ s.cred = o.cred) \/ s.date = -1
    PROVE  CredentialInv(s)
BY DEF CredentialInv

LEMMA NotUsedIs == NotUsed \in Signatures
BY DEF NotUsed, Signatures

\* Other credentials have no signing key yet.
LEMMA ObtainedKeeps ==
    ASSUME NEW o, CredentialInv(o), NEW life, NEW until \in Int
    PROVE  LET s == Obtained(o, life, until)
           IN  CredentialInv(s) /\ s.kind = o.kind /\ s.now = o.now /\ s.expire = until
<1> DEFINE s == Obtained(o, life, until)
<1>1. o \in Holders
  BY DEF CredentialInv
<1> DEFINE cred == o.cred + 1
           date == -1
<1>2. s = [o EXCEPT !.cred = cred, !.date = date, !.expire = until]
  BY DEF Obtained
<1>5. cred \in Nat /\ date \in Int
  BY <1>1 DEF Holders
<1> HIDE DEF s, cred
<1>6. s \in Holders /\ s.kind = o.kind /\ s.now = o.now /\ s.expire = until /\ s.date = date /\ s.used = o.used
  <2> HIDE DEF date
  <2> QED BY <1>1, <1>2, <1>5 DEF Holders
<1>3. s \in Holders /\ s.kind = o.kind /\ s.now = o.now /\ s.expire = until /\ s.date = -1 /\ s.used = o.used
  BY <1>6
<1>4. CredentialInv(s)
  BY <1>3 DEF CredentialInv
<1> QED BY <1>3, <1>4 DEF s

LEMMA S3CredentialedKeeps ==
    ASSUME NEW o, CredentialInv(o), o.kind = "s3", NEW life \in Nat, life = 0 \/ life >= RenewMargin
    PROVE  CredentialInv(S3Credentialed(o, life))
<1>1. o \in Holders /\ o.now \in Nat /\ o.expire \in Int /\ RenewMargin \in Nat
  BY ObjectStoreAssumption DEF CredentialInv, Holders
<1>2. CASE o.expire - o.now >= RenewMargin
  <2> DEFINE s == Sign(o)
  <2>1. /\ CredentialInv(s) /\ s.kind = "s3" /\ s.now = o.now /\ s.cred = o.cred /\ s.expire = o.expire
        /\ s.key = << o.cred, o.now \div DayLength >>
    BY SignKeeps
  <2>2. S3Credentialed(o, life) = Used(s, s.expire - s.now)
    BY <1>2 DEF S3Credentialed
  <2> HIDE DEF s
  <2>3. s.expire - s.now \in Int /\ s.expire - s.now >= RenewMargin
    BY <1>1, <1>2, <2>1
  <2>4. s.key = << s.cred, s.now \div DayLength >>
    BY <2>1
  <2> QED BY <2>1, <2>2, <2>3, <2>4, UsedKeeps
<1>3. CASE ~(o.expire - o.now >= RenewMargin) /\ life = 0
  <2> DEFINE s == [o EXCEPT !.freed = TRUE, !.used = NotUsed]
  <2>1. S3Credentialed(o, life) = s
    BY <1>3 DEF S3Credentialed
  <2>2. s \in Holders /\ s.kind = o.kind /\ s.used = NotUsed /\ s.date = o.date /\ s.key = o.key /\ s.cred = o.cred
    BY <1>1, NotUsedIs DEF Holders
  <2> HIDE DEF s
  <2> QED BY <2>1, <2>2, NotUsedKeeps
<1>4. CASE ~(o.expire - o.now >= RenewMargin) /\ life # 0
  <2> DEFINE b == Obtained(o, life, o.now + life)
             s == Sign(b)
  <2>1. CredentialInv(b) /\ b.kind = "s3"
    BY <1>1, ObtainedKeeps
  <2>2. S3Credentialed(o, life) = Used(s, life)
    BY <1>4 DEF S3Credentialed
  <2> HIDE DEF b
  <2>3. CredentialInv(s) /\ s.kind = "s3" /\ s.now = b.now /\ s.cred = b.cred /\ s.key = << b.cred, b.now \div DayLength >>
    BY <2>1, SignKeeps
  <2> HIDE DEF s
  <2>4. s.key = << s.cred, s.now \div DayLength >>
    BY <2>3
  <2> QED BY <1>4, <2>2, <2>3, <2>4, UsedKeeps
<1> QED BY <1>2, <1>3, <1>4

LEMMA GcsCredentialedKeeps ==
    ASSUME NEW o, CredentialInv(o), o.kind = "gcs", NEW life \in Nat, life = 0 \/ life > RenewMargin
    PROVE  CredentialInv(GcsCredentialed(o, life))
<1>1. o \in Holders /\ o.now \in Nat /\ o.expire \in Int /\ RenewMargin \in Nat
  BY ObjectStoreAssumption DEF CredentialInv, Holders
<1>2. CASE o.now < o.expire
  <2>1. GcsCredentialed(o, life) = Used(o, o.expire + RenewMargin - o.now)
    BY <1>2 DEF GcsCredentialed
  <2>2. o.expire + RenewMargin - o.now \in Int /\ o.expire + RenewMargin - o.now >= RenewMargin
    BY <1>1, <1>2
  <2> QED BY <2>1, <2>2, UsedKeeps
<1>3. CASE ~(o.now < o.expire) /\ life = 0
  <2> DEFINE s == [o EXCEPT !.used = NotUsed]
  <2>1. GcsCredentialed(o, life) = s
    BY <1>3 DEF GcsCredentialed
  <2>2. s \in Holders /\ s.kind = o.kind /\ s.used = NotUsed /\ s.date = o.date /\ s.key = o.key /\ s.cred = o.cred
    BY <1>1, NotUsedIs DEF Holders
  <2> HIDE DEF s
  <2> QED BY <2>1, <2>2, NotUsedKeeps
<1>4. CASE ~(o.now < o.expire) /\ life # 0
  <2> DEFINE s == Obtained(o, life, o.now + life - RenewMargin)
  <2>1. CredentialInv(s) /\ s.kind = "gcs" /\ s.now = o.now /\ s.expire = o.now + life - RenewMargin
    BY <1>1, ObtainedKeeps
  <2>2. GcsCredentialed(o, life) = Used(s, s.expire + RenewMargin - s.now)
    BY <1>4 DEF GcsCredentialed
  <2> HIDE DEF s
  <2>3. s.expire + RenewMargin - s.now = life
    BY <1>1, <2>1
  <2>4. life \in Int /\ life >= RenewMargin /\ s.kind # "s3"
    BY <1>1, <1>4, <2>1
  <2>5. CredentialInv(Used(s, life))
    BY <2>1, <2>4, UsedKeeps
  <2> QED BY <2>2, <2>3, <2>5
<1> QED BY <1>2, <1>3, <1>4
-----------------------------------------------------------------------------
(* The calls.                                                               *)

CallInv ==
    /\ Returns("http") => call = Made("http", call.obj) /\ HttpInv(call.obj)
    /\ Returns("upload") => call = Made("upload", call.obj) /\ UploadInv(call.obj)
    /\ Returns("credentials") => call = Made("credentials", call.obj) /\ CredentialInv(call.obj)

LEMMA CallMade ==
    ASSUME NEW op, NEW o
    PROVE  Made(op, o).op = op /\ Made(op, o).obj = o /\ [Made(op, o) EXCEPT !.obj = o] = Made(op, o)
BY DEF Made

\* The object that is made or used is the only thing that changes.
LEMMA CallOf ==
    ASSUME NEW op, NEW o, call' = Made(op, o),
           op = "http" => HttpInv(o), op = "upload" => UploadInv(o), op = "credentials" => CredentialInv(o)
    PROVE  CallInv'
<1>1. call'.op = op /\ call'.obj = o
  BY DEF Made
<1> QED BY <1>1 DEF CallInv, Returns

LEMMA CallBecomes ==
    ASSUME CallInv, NEW op \in {"http", "upload", "credentials"}, Returns(op), NEW o, Become(o)
    PROVE  call' = Made(op, o)
<1>1. call = Made(op, call.obj)
  BY DEF CallInv
<1> QED BY <1>1 DEF Become, Made

LEMMA CallOther ==
    ASSUME call'.op \notin {"http", "upload", "credentials"}
    PROVE  CallInv'
BY DEF CallInv, Returns

LEMMA HttpBegins == HttpInv(NewHttp)
<1>1. NewHttp \in Https
  BY DEF NewHttp, Https
<1> QED BY <1>1 DEF NewHttp, HttpInv

LEMMA CredentialsBegin ==
    ASSUME NEW kind \in {"s3", "gcs"}
    PROVE  CredentialInv(NewCredentials(kind))
<1> DEFINE o == NewCredentials(kind)
           minus == -1
           key == << 0, 0 >>
<1>1. o = [kind |-> kind, now |-> 0, cred |-> 0, expire |-> 0, freed |-> FALSE, key |-> key, date |-> minus, used |-> NotUsed]
  BY DEF NewCredentials
<1>2. minus \in Int /\ key \in Nat \X Nat
  OBVIOUS
<1>3. o \in Holders
  <2> HIDE DEF minus, key, o
  <2> QED BY <1>1, <1>2, NotUsedIs DEF Holders
<1>4. o.date = -1 /\ o.used = NotUsed
  BY <1>1
<1> HIDE DEF o
<1>5. CredentialInv(o)
  BY <1>3, <1>4 DEF CredentialInv
<1> QED BY <1>5 DEF o

LEMMA ObjectStoreStep == CallInv /\ [ObjectStoreNext]_call => CallInv'
<1> SUFFICES ASSUME CallInv, [ObjectStoreNext]_call PROVE CallInv'
  OBVIOUS
<1>1. CASE HttpConnect
  BY <1>1, CallOf, HttpBegins DEF HttpConnect
<1>2. CASE HttpRequest
  <2>1. PICK reply \in HttpReplies : Become(HttpNew(call.obj, reply))
    BY <1>2 DEF HttpRequest
  <2>2. Returns("http") /\ HttpInv(call.obj)
    BY <1>2 DEF HttpRequest, CallInv
  <2>3. HttpInv(HttpNew(call.obj, reply))
    BY <2>2, HttpNewKeeps
  <2>4. call' = Made("http", HttpNew(call.obj, reply))
    BY <2>1, <2>2, CallBecomes
  <2> QED BY <2>3, <2>4, CallOf
<1>3. CASE HttpResponse
  <2>1. PICK r \in HttpIn("sent"), cache \in BOOLEAN, more \in [1..HttpRetries -> HttpReplies] :
           Become(HttpProcess(call.obj, r, cache, more))
    BY <1>3 DEF HttpResponse
  <2>2. Returns("http") /\ HttpInv(call.obj)
    BY <1>3 DEF HttpResponse, CallInv
  <2>3. HttpInv(HttpProcess(call.obj, r, cache, more))
    BY <2>2, HttpProcessKeeps DEF HttpIn
  <2>4. call' = Made("http", HttpProcess(call.obj, r, cache, more))
    BY <2>1, <2>2, CallBecomes
  <2> QED BY <2>3, <2>4, CallOf
<1>4. CASE HttpRead
  <2>1. PICK r \in HttpIn("reading") : Become(HttpReadBlock(call.obj, r))
    BY <1>4 DEF HttpRead
  <2>2. Returns("http") /\ HttpInv(call.obj)
    BY <1>4 DEF HttpRead, CallInv
  <2>3. HttpInv(HttpReadBlock(call.obj, r))
    BY <2>2, HttpReadKeeps DEF HttpIn
  <2>4. call' = Made("http", HttpReadBlock(call.obj, r))
    BY <2>1, <2>2, CallBecomes
  <2> QED BY <2>3, <2>4, CallOf
<1>5. CASE HttpFree
  <2>1. PICK r \in HttpIn("reading") \cup HttpIn("sent") :
           Become(HttpEnds(HttpFreeSession(call.obj, call.obj.request[r].session), r, "freed"))
    BY <1>5 DEF HttpFree
  <2> DEFINE o == HttpEnds(HttpFreeSession(call.obj, call.obj.request[r].session), r, "freed")
  <2>2. Returns("http") /\ HttpInv(call.obj)
    BY <1>5 DEF HttpFree, CallInv
  <2>3. HttpInv(o)
    BY <2>2, HttpFreeKeeps DEF HttpIn
  <2> HIDE DEF o
  <2>4. call' = Made("http", o)
    BY <2>1, <2>2, CallBecomes DEF o
  <2> QED BY <2>3, <2>4, CallOf
<1>6. CASE Upload
  <2>1. PICK kind \in UploadKinds : call' = Made("upload", NewUpload(kind))
    BY <1>6 DEF Upload
  <2>2. UploadInv(NewUpload(kind))
    BY ObjectStoreAssumption, UploadBegins
  <2> QED BY <2>1, <2>2, CallOf
<1>7. CASE UploadWrite
  <2>1. PICK w \in 1..2, n \in 1..(PartSize + 1), answer \in Answers :
           UploadWriter(w) /\ Become(UploadData(call.obj, w, n, answer))
    BY <1>7 DEF UploadWrite
  <2>2. Returns("upload") /\ UploadInv(call.obj)
    BY <2>1 DEF UploadWriter, CallInv
  <2>3. n \in Nat
    BY ObjectStoreAssumption
  <2>4. UploadInv(UploadData(call.obj, w, n, answer))
    BY <2>2, <2>3, UploadDataKeeps
  <2>5. call' = Made("upload", UploadData(call.obj, w, n, answer))
    BY <2>1, <2>2, CallBecomes
  <2> QED BY <2>4, <2>5, CallOf
<1>8. CASE UploadEnd
  <2>1. PICK w \in 1..2, answer \in Answers : UploadWriter(w) /\ Become(UploadClose(call.obj, w, answer))
    BY <1>8 DEF UploadEnd
  <2>2. Returns("upload") /\ UploadInv(call.obj) /\ call.obj.writer[w].state = "open"
    BY <2>1 DEF UploadWriter, CallInv
  <2>3. UploadInv(UploadClose(call.obj, w, answer))
    BY <2>2, UploadCloseKeeps
  <2>4. call' = Made("upload", UploadClose(call.obj, w, answer))
    BY <2>1, <2>2, CallBecomes
  <2> QED BY <2>3, <2>4, CallOf
<1>9. CASE Credentials
  <2>1. PICK kind \in {"s3", "gcs"} : call' = Made("credentials", NewCredentials(kind))
    BY <1>9 DEF Credentials
  <2>2. CredentialInv(NewCredentials(kind))
    BY CredentialsBegin
  <2> QED BY <2>1, <2>2, CallOf
<1>10. CASE CredentialTick
  <2> DEFINE s == [call.obj EXCEPT !.now = @ + 1, !.used = NotUsed]
  <2>1. Returns("credentials") /\ CredentialInv(call.obj) /\ call.obj \in Holders
    BY <1>10 DEF CredentialTick, CallInv, CredentialInv
  <2>2. s \in Holders /\ s.kind = call.obj.kind /\ s.used = NotUsed /\ s.date = call.obj.date /\ s.key = call.obj.key /\ s.cred = call.obj.cred
    <3> DEFINE o == call.obj
               now == o.now + 1
    <3>1. now \in Nat /\ o \in Holders
      BY <2>1 DEF Holders
    <3>2. s = [o EXCEPT !.now = now, !.used = NotUsed]
      OBVIOUS
    <3> HIDE DEF s, o, now
    <3>3. s \in Holders /\ s.kind = o.kind /\ s.used = NotUsed /\ s.date = o.date /\ s.key = o.key /\ s.cred = o.cred
      BY <3>1, <3>2, NotUsedIs DEF Holders
    <3> QED BY <3>3 DEF o
  <2>3. Become(s)
    BY <1>10 DEF CredentialTick
  <2> HIDE DEF s
  <2>4. CredentialInv(s)
    BY <2>1, <2>2, NotUsedKeeps
  <2>5. call' = Made("credentials", s)
    BY <2>1, <2>3, CallBecomes
  <2> QED BY <2>4, <2>5, CallOf
<1>11. CASE CredentialUse
  <2>1. PICK life \in {0, RenewMargin + 1, 2 * RenewMargin + 1} :
           Become(IF call.obj.kind = "s3" THEN S3Credentialed(call.obj, life) ELSE GcsCredentialed(call.obj, life))
    BY <1>11 DEF CredentialUse
  <2>2. Returns("credentials") /\ CredentialInv(call.obj) /\ call.obj.kind \in {"s3", "gcs"}
    BY <1>11 DEF CredentialUse, CallInv, CredentialInv, Holders
  <2>3. life \in Nat /\ (life = 0 \/ life > RenewMargin) /\ (life = 0 \/ life >= RenewMargin)
    BY ObjectStoreAssumption
  <2> DEFINE o == IF call.obj.kind = "s3" THEN S3Credentialed(call.obj, life) ELSE GcsCredentialed(call.obj, life)
  <2>4. CredentialInv(o)
    BY <2>2, <2>3, S3CredentialedKeeps, GcsCredentialedKeeps
  <2> HIDE DEF o
  <2>5. call' = Made("credentials", o)
    BY <2>1, <2>2, CallBecomes DEF o
  <2> QED BY <2>4, <2>5, CallOf
<1>12. CASE \/ Body \/ Header \/ Multi \/ Uri \/ Query \/ UrlParse \/ List \/ FileCall \/ PathRemoveObjects \/ RequestCall \/ RoleCall
  <2>1. Body => call'.op = "body"
    BY DEF Body, Called
  <2>2. Header => call'.op = "header"
    BY DEF Header, Called
  <2>3. Multi => call'.op = "multi"
    BY DEF Multi, Called
  <2>4. Uri => call'.op = "uri"
    BY DEF Uri, Called
  <2>5. Query => call'.op = "query"
    BY DEF Query, Called
  <2>6. UrlParse => call'.op = "url"
    BY DEF UrlParse, Called
  <2>7. List => call'.op = "objects"
    BY DEF List, Called
  <2>8. FileCall => call'.op = "object"
    BY DEF FileCall, Called
  <2>9. PathRemoveObjects => call'.op = "removed"
    BY DEF PathRemoveObjects, Called
  <2>10. RequestCall => call'.op = "request"
    BY DEF RequestCall, Called
  <2>11. RoleCall => call'.op = "role"
    BY DEF RoleCall, Called
  <2> QED BY <1>12, <2>1, <2>2, <2>3, <2>4, <2>5, <2>6, <2>7, <2>8, <2>9, <2>10, <2>11, CallOther
<1>13. CASE UNCHANGED call
  BY <1>13 DEF CallInv, Returns
<1> QED BY <1>1, <1>2, <1>3, <1>4, <1>5, <1>6, <1>7, <1>8, <1>9, <1>10, <1>11, <1>12, <1>13 DEF ObjectStoreNext

\* However many requests there are and however often they fail, they get the
\* replies to themselves, an object is never mixed or part of what was written,
\* and requests are signed with credentials that are good.
THEOREM ObjectStoreAlways == ObjectStoreSpec => []RequestsSound
<1>1. NoCall => CallInv
  BY DEF NoCall, CallInv, Returns, None
<1>2. CallInv => RequestsSound
  <2> SUFFICES ASSUME CallInv PROVE RequestsSound
    OBVIOUS
  <2>1. OwnReplies
    <3> DEFINE o == call.obj
    <3>1. SUFFICES ASSUME HttpInv(o)
                   PROVE  /\ \A r \in DOMAIN o.request : o.request[r].state \in {"done", "reading"} => o.request[r].got = r
                          /\ \A i \in DOMAIN o.reuse :
                                /\ IdleSession(o.session[o.reuse[i]])
                                /\ \A r \in DOMAIN o.request : o.request[r].session # o.reuse[i]
                                /\ \A j \in DOMAIN o.reuse : o.reuse[i] = o.reuse[j] => i = j
      BY DEF OwnReplies, CallInv, IdleSession
    <3> HIDE DEF o
    <3> QED BY <3>1 DEF HttpInv, RequestInv
  <2>2. UploadsWhole
    BY DEF UploadsWhole, CallInv, UploadInv, Stores
  <2>3. CredentialsGood
    BY DEF CredentialsGood, CallInv, CredentialInv
  <2> QED BY <2>1, <2>2, <2>3 DEF RequestsSound
<1> QED BY <1>1, <1>2, ObjectStoreStep, PTL DEF ObjectStoreSpec
=============================================================================
