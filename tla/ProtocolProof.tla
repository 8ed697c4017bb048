---------------------------- MODULE ProtocolProof ----------------------------
(***************************************************************************)
(* Proofs about the protocol: what a client makes of the answers of its    *)
(* server and what the parallel executor makes of the answers of its       *)
(* clients, for any number of sessions, blocks and jobs.                   *)
(***************************************************************************)
EXTENDS Protocol, WellFoundedInduction, TLAPS

\* A set of numbers has a least one.
LEMMA LeastNumber ==
    ASSUME NEW T \in SUBSET Nat, T # {}
    PROVE  Min(T) \in T /\ \A y \in T : Min(T) <= y
<1> DEFINE Less == {p \in Nat \X Nat : p[1] < p[2]}
<1>1. IsWellFoundedOn(Less, Nat)
  BY NatLessThanWellFounded DEF OpToRel
<1>2. PICK x \in T : \A y \in T : ~ (<<y, x>> \in Less)
  BY <1>1, WFMin
<1>3. ASSUME NEW y \in T PROVE x <= y
  <2>1. ~ (y < x)
    BY <1>2
  <2> QED BY <2>1
<1> QED BY <1>3 DEF Min
-----------------------------------------------------------------------------
(* The executor.                                                            *)

JobStates == {"pending", "running", "done"}
ExecutorsOf(J) ==
    [allowed : Seq(SUBSET (1..2)), left : SUBSET J, job : [1..2 -> J \cup {0}], freed : [1..2 -> 0..2],
     list : Seq(J), state : [J -> JobStates], result : [J -> Int], returned : Seq(Int), done : BOOLEAN]

\* A job is left, in the list or was returned.
Listed(o, j) == \E i \in DOMAIN o.list : o.list[i] = j
Returned(o, j) == \E i \in DOMAIN o.returned : o.returned[i] = j \/ o.returned[i] = -j

\* What holds between the steps of protocolParallelProcess() too.
Executing(o) ==
    /\ o \in ExecutorsOf(DOMAIN o.allowed)
    /\ \A j \in o.left : o.state[j] = "pending" /\ ~Listed(o, j) /\ ~Returned(o, j)
    /\ \A c \in 1..2 : o.job[c] # 0 => o.state[o.job[c]] = "running" /\ Listed(o, o.job[c])
    /\ o.job[1] = o.job[2] => o.job[1] = 0
    /\ \A i, k \in DOMAIN o.list : o.list[i] = o.list[k] => i = k
    /\ \A i \in DOMAIN o.list : ~Returned(o, o.list[i])
    /\ \A i \in DOMAIN o.returned : \E j \in DOMAIN o.allowed : o.returned[i] \in {j, -j}
    /\ \A i, k \in DOMAIN o.returned : o.returned[i] \in {o.returned[k], -o.returned[k]} => i = k
    /\ \A j \in DOMAIN o.allowed : j \in o.left \/ ((Listed(o, j) \/ Returned(o, j)) /\ o.allowed[j] # {})
    /\ \A j \in DOMAIN o.allowed : o.state[j] = "done" => o.result[j] \in {j, -j}
    /\ \A c \in 1..2 : o.freed[c] > 0 => o.job[c] = 0 /\ \A j \in o.left : c \notin o.allowed[j]

\* A client that has been asked has a job or was freed.
Settled(o, c) == o.freed[c] > 0 \/ o.job[c] # 0

\* The inductive invariant of the executor.
ExecutorInv(o) ==
    /\ Executing(o)
    /\ (\E c \in 1..2 : o.freed[c] > 0) => \A c \in 1..2 : Settled(o, c)
    /\ o.done => o.list = << >> /\ \E c \in 1..2 : o.freed[c] > 0

\* No job is done yet.
LEMMA NewExecutor ==
    ASSUME NEW allowed \in Seq(SUBSET (1..2))
    PROVE  ExecutorInv(NewParallel(allowed))
<1> DEFINE o == NewParallel(allowed)
           J == DOMAIN allowed
<1>1. J \in SUBSET Nat /\ 0 \notin J
  OBVIOUS
<1>2. /\ o.allowed = allowed /\ o.left = J /\ o.list = << >> /\ o.returned = << >> /\ o.done = FALSE
      /\ o.state = [j \in J |-> "pending"] /\ \A c \in 1..2 : o.job[c] = 0 /\ o.freed[c] = 0
  BY DEF NewParallel
<1>3. o \in ExecutorsOf(J)
  <2>1. /\ [c \in 1..2 |-> 0] \in [1..2 -> J \cup {0}] /\ [c \in 1..2 |-> 0] \in [1..2 -> 0..2]
        /\ [j \in J |-> "pending"] \in [J -> JobStates] /\ [j \in J |-> 0] \in [J -> Int] /\ << >> \in Seq(J) /\ << >> \in Seq(Int)
    BY DEF JobStates
  <2> QED BY <2>1 DEF NewParallel, ExecutorsOf
<1> HIDE DEF o
<1>4. \A j : ~Listed(o, j) /\ ~Returned(o, j)
  BY <1>2 DEF Listed, Returned
<1>5. Executing(o)
  BY <1>1, <1>2, <1>3, <1>4 DEF Executing
<1> QED BY <1>2, <1>5 DEF ExecutorInv, o

\* Answers for some of the clients that have a job.
LEMMA FinishKeeps ==
    ASSUME NEW o, Executing(o), NEW ready \in SUBSET Running(o), NEW good \in SUBSET ready
    PROVE  Executing(Finish(o, ready, good))
<1> DEFINE n == Finish(o, ready, good)
           J == DOMAIN o.allowed
           State == States(o, ready)
           Result == Results(o, ready, good)
           Job == [c \in DOMAIN o.job |-> IF c \in ready THEN 0 ELSE o.job[c]]
<1>1. /\ o \in ExecutorsOf(J) /\ o.job \in [1..2 -> J \cup {0}] /\ o.state \in [J -> JobStates] /\ o.result \in [J -> Int]
      /\ o.allowed \in Seq(SUBSET (1..2)) /\ J \subseteq Nat /\ 0 \notin J
  BY DEF Executing, ExecutorsOf
<1>2. \A c \in ready : c \in 1..2 /\ o.job[c] # 0 /\ o.job[c] \in J
  BY <1>1 DEF Running
<1>3. State \in [J -> JobStates] /\ Result \in [J -> Int] /\ Job \in [1..2 -> J \cup {0}]
  BY <1>1 DEF States, Results, JobStates
<1>4. \A j \in J : State[j] = IF \E c \in ready : o.job[c] = j THEN "done" ELSE o.state[j]
  BY <1>1 DEF States
<1>5. \A j \in J : \/ (\E c \in ready : o.job[c] = j) /\ Result[j] \in {j, -j}
                   \/ (~ \E c \in ready : o.job[c] = j) /\ Result[j] = o.result[j]
  BY <1>1 DEF Results
<1>6. \A c \in 1..2 : Job[c] = IF c \in ready THEN 0 ELSE o.job[c]
  BY <1>1
<1>7. n = [o EXCEPT !.state = State, !.result = Result, !.job = Job]
  BY DEF Finish
<1> HIDE DEF State, Result, Job, n
<1>8. /\ n \in ExecutorsOf(J) /\ n.state = State /\ n.result = Result /\ n.job = Job
      /\ n.allowed = o.allowed /\ n.left = o.left /\ n.freed = o.freed /\ n.list = o.list /\ n.returned = o.returned
  BY <1>1, <1>3, <1>7 DEF ExecutorsOf
<1>9. \A j : (Listed(n, j) <=> Listed(o, j)) /\ (Returned(n, j) <=> Returned(o, j))
  BY <1>8 DEF Listed, Returned
<1>10. \A j \in o.left : n.state[j] = "pending"
  <2>1. ASSUME NEW j \in o.left, NEW c \in ready PROVE o.job[c] # j
    BY <1>2, <2>1 DEF Executing
  <2>2. o.left \subseteq J
    BY <1>1 DEF ExecutorsOf
  <2> QED BY <1>4, <1>8, <2>1, <2>2 DEF Executing
<1>11. ASSUME NEW c \in 1..2, n.job[c] # 0 PROVE n.state[n.job[c]] = "running" /\ n.job[c] = o.job[c]
  <2>1. c \notin ready /\ n.job[c] = o.job[c] /\ o.job[c] \in J
    BY <1>1, <1>6, <1>8, <1>11
  <2>2. \A d \in ready : o.job[d] # o.job[c]
    BY <1>2, <1>11, <2>1 DEF Executing
  <2> QED BY <1>4, <1>8, <1>11, <2>1, <2>2 DEF Executing
<1>12. n.job[1] = n.job[2] => n.job[1] = 0
  BY <1>11, <1>8 DEF Executing
<1>13. \A j \in J : n.state[j] = "done" => n.result[j] \in {j, -j}
  BY <1>4, <1>5, <1>8 DEF Executing
<1>14. \A c \in 1..2 : n.freed[c] > 0 => n.job[c] = 0
  BY <1>6, <1>8 DEF Executing
<1> QED BY <1>8, <1>9, <1>10, <1>11, <1>12, <1>13, <1>14 DEF Executing, n

\* A sequence with one more element.
LEMMA Appended ==
    ASSUME NEW S, NEW s \in Seq(S), NEW x \in S
    PROVE  LET t == Append(s, x)
           IN  /\ t \in Seq(S) /\ t # << >> /\ Len(s) \in Nat /\ DOMAIN t = 1..(Len(s) + 1)
               /\ t[Len(s) + 1] = x /\ \A i \in DOMAIN s : i \in DOMAIN t /\ t[i] = s[i]
               /\ \A i \in DOMAIN t : i = Len(s) + 1 \/ i \in DOMAIN s
<1> DEFINE t == Append(s, x)
<1>1. t \in Seq(S) /\ Len(s) \in Nat /\ Len(t) = Len(s) + 1 /\ DOMAIN s = 1..Len(s) /\ DOMAIN t = 1..(Len(s) + 1)
  OBVIOUS
<1>2. t # << >>
  BY <1>1
<1>3. t[Len(s) + 1] = x
  OBVIOUS
<1>4. \A i \in DOMAIN s : i \in DOMAIN t /\ t[i] = s[i]
  OBVIOUS
<1> QED BY <1>1, <1>2, <1>3, <1>4

\* A client without a job gets one of the jobs it may run, or is freed.
LEMMA NextJobKeeps ==
    ASSUME NEW o, Executing(o), NEW c \in 1..2
    PROVE  LET n == NextJob(o, c)
           IN  /\ Executing(n) /\ Settled(n, c)
               /\ \A d \in 1..2 : Settled(o, d) => Settled(n, d)
               /\ n.done = o.done /\ (o.list # << >> => n.list # << >>)
<1> DEFINE n == NextJob(o, c)
           J == DOMAIN o.allowed
           mine == {j \in o.left : c \in o.allowed[j]}
           j0 == Callback(o, c)
<1>1. /\ o \in ExecutorsOf(J) /\ o.job \in [1..2 -> J \cup {0}] /\ o.state \in [J -> JobStates] /\ o.freed \in [1..2 -> 0..2]
      /\ o.list \in Seq(J) /\ o.left \subseteq J /\ J \subseteq Nat /\ 0 \notin J
  BY DEF Executing, ExecutorsOf
<1>2. CASE o.job[c] # 0
  <2>1. n = o
    BY <1>2 DEF NextJob
  <2> QED BY <1>2, <2>1 DEF Settled
<1>3. CASE o.job[c] = 0 /\ mine = {}
  <2>1. j0 = 0
    BY <1>3 DEF Callback
  <2>2. n = [o EXCEPT !.freed[c] = IF @ < 2 THEN @ + 1 ELSE @]
    BY <1>3, <2>1 DEF NextJob
  <2> DEFINE Freeing == [o.freed EXCEPT ![c] = IF @ < 2 THEN @ + 1 ELSE @]
  <2>3. /\ Freeing \in [1..2 -> 0..2] /\ Freeing[c] > 0 /\ \A d \in 1..2 : d # c => Freeing[d] = o.freed[d]
    BY <1>1
  <2>4. n = [o EXCEPT !.freed = Freeing]
    BY <1>1, <2>2 DEF ExecutorsOf
  <2> HIDE DEF Freeing, n, mine
  <2>5. /\ n \in ExecutorsOf(J) /\ n.freed = Freeing /\ n.allowed = o.allowed /\ n.left = o.left /\ n.job = o.job
        /\ n.list = o.list /\ n.state = o.state /\ n.result = o.result /\ n.returned = o.returned /\ n.done = o.done
    BY <1>1, <2>3, <2>4 DEF ExecutorsOf
  <2>6. \A j : (Listed(n, j) <=> Listed(o, j)) /\ (Returned(n, j) <=> Returned(o, j))
    BY <2>5 DEF Listed, Returned
  <2>7. \A d \in 1..2 : n.freed[d] > 0 => n.job[d] = 0 /\ \A j \in n.left : d \notin n.allowed[j]
    BY <1>3, <2>3, <2>5 DEF Executing, mine
  <2>8. Executing(n)
    BY <2>5, <2>6, <2>7 DEF Executing
  <2>9. Settled(n, c) /\ \A d \in 1..2 : Settled(o, d) => Settled(n, d)
    BY <2>3, <2>5 DEF Settled
  <2> QED BY <2>5, <2>8, <2>9 DEF n
<1>4. CASE o.job[c] = 0 /\ mine # {}
  <2>1. j0 = Min(mine)
    BY <1>4 DEF Callback
  <2>2. mine \in SUBSET Nat
    BY <1>1
  <2>3. j0 \in mine
    BY <1>4, <2>1, <2>2, LeastNumber
  <2>4. j0 \in o.left /\ c \in o.allowed[j0] /\ j0 # 0 /\ j0 \in J
    BY <1>1, <2>3
  <2> HIDE DEF mine
  <2>5. n = [o EXCEPT !.job[c] = j0, !.left = @ \ {j0}, !.list = Append(@, j0),
                      !.state[j0] = IF @ = "pending" THEN "running" ELSE "assert"]
    BY <1>4, <2>4 DEF NextJob
  <2>6. o.state[j0] = "pending" /\ ~Listed(o, j0) /\ ~Returned(o, j0)
    BY <2>4 DEF Executing
  <2> HIDE DEF j0, n
  <2> DEFINE Job == [o.job EXCEPT ![c] = j0]
             List == Append(o.list, j0)
             State == [o.state EXCEPT ![j0] = "running"]
  <2>7. n = [o EXCEPT !.job = Job, !.left = o.left \ {j0}, !.list = List, !.state = State]
    BY <1>1, <2>4, <2>5, <2>6 DEF ExecutorsOf
  <2>8. /\ Job \in [1..2 -> J \cup {0}] /\ Job[c] = j0 /\ \A d \in 1..2 : d # c => Job[d] = o.job[d]
    BY <1>1, <2>4
  <2>9. /\ State \in [J -> JobStates] /\ State[j0] = "running" /\ \A j \in J : j # j0 => State[j] = o.state[j]
    BY <1>1, <2>4 DEF JobStates
  <2>10. /\ List \in Seq(J) /\ List # << >> /\ Len(o.list) \in Nat /\ DOMAIN List = 1..(Len(o.list) + 1)
         /\ List[Len(o.list) + 1] = j0 /\ \A i \in DOMAIN o.list : i \in DOMAIN List /\ List[i] = o.list[i]
         /\ \A i \in DOMAIN List : i = Len(o.list) + 1 \/ i \in DOMAIN o.list
    <3> HIDE DEF J
    <3>1. o.list \in Seq(J) /\ j0 \in J
      BY <1>1, <2>4
    <3> HIDE DEF List
    <3>2. List = Append(o.list, j0)
      BY DEF List
    <3> QED BY <3>1, <3>2, Appended
  <2> HIDE DEF Job, List, State
  <2>11. /\ n \in ExecutorsOf(J) /\ n.job = Job /\ n.left = o.left \ {j0} /\ n.list = List /\ n.state = State
         /\ n.allowed = o.allowed /\ n.freed = o.freed /\ n.result = o.result /\ n.returned = o.returned /\ n.done = o.done
    BY <1>1, <2>7, <2>8, <2>9, <2>10 DEF ExecutorsOf
  <2>12. \A j : (Listed(n, j) <=> Listed(o, j) \/ j = j0) /\ (Returned(n, j) <=> Returned(o, j))
    <3>1. \A j : Returned(n, j) <=> Returned(o, j)
      BY <2>11 DEF Returned
    <3>2. ASSUME NEW j, Listed(n, j) PROVE Listed(o, j) \/ j = j0
      BY <2>10, <2>11, <3>2 DEF Listed
    <3>3. ASSUME NEW j, Listed(o, j) PROVE Listed(n, j)
      BY <2>10, <2>11, <3>3 DEF Listed
    <3>4. Listed(n, j0)
      <4>1. Len(o.list) + 1 \in DOMAIN List
        BY <2>10
      <4> QED BY <2>10, <2>11, <4>1 DEF Listed
    <3> QED BY <3>1, <3>2, <3>3, <3>4
  <2>13. \A j \in n.left : n.state[j] = "pending" /\ ~Listed(n, j) /\ ~Returned(n, j)
    BY <1>1, <2>9, <2>11, <2>12 DEF Executing
  <2>14. ASSUME NEW d \in 1..2, n.job[d] # 0 PROVE n.state[n.job[d]] = "running" /\ Listed(n, n.job[d]) /\ (d # c => n.job[d] # j0)
    <3>1. CASE d = c
      BY <2>8, <2>9, <2>11, <2>12, <3>1
    <3>2. CASE d # c
      <4>1. n.job[d] = o.job[d] /\ o.job[d] \in J
        BY <1>1, <2>8, <2>11, <2>14, <3>2
      <4>2. o.state[o.job[d]] = "running" /\ Listed(o, o.job[d])
        BY <2>14, <4>1 DEF Executing
      <4> QED BY <2>6, <2>9, <2>11, <2>12, <4>1, <4>2
    <3> QED BY <3>1, <3>2
  <2>15. n.job[1] = n.job[2] => n.job[1] = 0
    BY <2>8, <2>11, <2>14
  <2>16. ASSUME NEW i \in DOMAIN n.list, NEW k \in DOMAIN n.list, n.list[i] = n.list[k] PROVE i = k
    <3>1. ASSUME NEW m \in DOMAIN o.list PROVE o.list[m] # j0
      BY <2>6 DEF Listed
    <3> QED BY <2>10, <2>11, <2>16, <3>1 DEF Executing
  <2>17. \A i \in DOMAIN n.list : ~Returned(n, n.list[i])
    BY <2>6, <2>10, <2>11, <2>12 DEF Executing
  <2>18. \A j \in J : j \in n.left \/ ((Listed(n, j) \/ Returned(n, j)) /\ n.allowed[j] # {})
    BY <2>4, <2>11, <2>12 DEF Executing
  <2>19. \A j \in J : n.state[j] = "done" => n.result[j] \in {j, -j}
    BY <2>9, <2>11 DEF Executing
  <2>20. o.freed[c] = 0
    <3>1. ~ (o.freed[c] > 0)
      BY <2>4 DEF Executing
    <3> QED BY <1>1, <3>1
  <2>21. \A d \in 1..2 : n.freed[d] > 0 => n.job[d] = 0 /\ \A j \in n.left : d \notin n.allowed[j]
    BY <2>8, <2>11, <2>20 DEF Executing
  <2>22. Executing(n)
    BY <2>11, <2>12, <2>13, <2>14, <2>15, <2>16, <2>17, <2>18, <2>19, <2>21 DEF Executing
  <2>23. Settled(n, c) /\ \A d \in 1..2 : Settled(o, d) => Settled(n, d)
    BY <2>4, <2>8, <2>11 DEF Settled
  <2> QED BY <2>10, <2>11, <2>22, <2>23 DEF n
<1> QED BY <1>2, <1>3, <1>4

\* The answers that are there, then the new jobs.
LEMMA ProcessedKeeps ==
    ASSUME NEW o, ExecutorInv(o), ~o.done, NEW ready \in SUBSET Running(o), NEW good \in SUBSET ready
    PROVE  ExecutorInv(Processed(o, ready, good))
<1> DEFINE f == Finish(o, ready, good)
           m == NextJob(f, 1)
           n == NextJob(m, 2)
<1>1. Executing(f) /\ f.done = o.done
  <2>1. f.done = o.done
    BY DEF Finish, ExecutorInv, Executing, ExecutorsOf
  <2> QED BY <2>1, FinishKeeps DEF ExecutorInv
<1> HIDE DEF f
<1>2. Executing(m) /\ Settled(m, 1) /\ m.done = f.done
  BY <1>1, NextJobKeeps
<1> HIDE DEF m
<1>3. Executing(n) /\ Settled(n, 2) /\ Settled(n, 1) /\ n.done = m.done
  BY <1>2, NextJobKeeps
<1>4. n = Processed(o, ready, good)
  BY DEF Processed, f, m
<1> HIDE DEF n
<1>5. \A c \in 1..2 : c = 1 \/ c = 2
  OBVIOUS
<1> QED BY <1>1, <1>2, <1>3, <1>4, <1>5 DEF ExecutorInv

\* A sequence with one element less.
LEMMA Removed ==
    ASSUME NEW S, NEW s \in Seq(S), NEW k \in DOMAIN s
    PROVE  LET t == RemoveAt(s, k)
           IN  /\ t \in Seq(S) /\ k \in Nat /\ \A i \in DOMAIN t : i \in Nat
               /\ \A i \in DOMAIN t : IF i < k THEN i \in DOMAIN s /\ t[i] = s[i] ELSE i + 1 \in DOMAIN s /\ t[i] = s[i + 1]
               /\ \A i \in DOMAIN s : i = k \/ (i < k /\ i \in DOMAIN t /\ t[i] = s[i]) \/ (i > k /\ i - 1 \in DOMAIN t /\ t[i - 1] = s[i])
<1> DEFINE a == SubSeq(s, 1, k - 1)
           b == SubSeq(s, k + 1, Len(s))
           t == a \o b
<1>1. Len(s) \in Nat /\ DOMAIN s = 1..Len(s) /\ k \in 1..Len(s)
  OBVIOUS
<1>2. a \in Seq(S) /\ Len(a) = k - 1 /\ \A i \in 1..(k - 1) : a[i] = s[i]
  BY <1>1
<1>3. b \in Seq(S) /\ Len(b) = Len(s) - k /\ \A i \in 1..(Len(s) - k) : b[i] = s[k + i]
  BY <1>1
<1> HIDE DEF a, b
<1>4. t \in Seq(S) /\ Len(t) = Len(s) - 1 /\ DOMAIN t = 1..(Len(s) - 1)
  <2>0. a \in Seq(S) /\ b \in Seq(S)
    BY <1>2, <1>3
  <2>1. t \in Seq(S) /\ Len(t) = Len(a) + Len(b)
    BY <2>0
  <2>2. Len(t) = Len(s) - 1
    BY <1>1, <1>2, <1>3, <2>1
  <2> QED BY <2>1, <2>2
<1>5. \A i \in 1..(k - 1) : t[i] = s[i]
  BY <1>1, <1>2, <1>3
<1>6. ASSUME NEW i \in k..(Len(s) - 1) PROVE t[i] = s[i + 1]
  <2>1. i - (k - 1) \in 1..(Len(s) - k) /\ i > Len(a) /\ i <= Len(a) + Len(b)
    BY <1>1, <1>2, <1>3
  <2>2. t[i] = b[i - (k - 1)]
    BY <1>1, <1>2, <1>3, <2>1, SMTT(30)
  <2>3. b[i - (k - 1)] = s[k + (i - (k - 1))] /\ k + (i - (k - 1)) = i + 1
    BY <1>1, <1>3, <2>1
  <2> QED BY <2>2, <2>3
<1> HIDE DEF t
<1>7. \A i \in DOMAIN t : IF i < k THEN i \in DOMAIN s /\ t[i] = s[i] ELSE i + 1 \in DOMAIN s /\ t[i] = s[i + 1]
  BY <1>1, <1>4, <1>5, <1>6
<1>8. \A i \in DOMAIN s : i = k \/ (i < k /\ i \in DOMAIN t /\ t[i] = s[i]) \/ (i > k /\ i - 1 \in DOMAIN t /\ t[i - 1] = s[i])
  <2>1. SUFFICES ASSUME NEW i \in DOMAIN s, i # k
                 PROVE  (i < k /\ i \in DOMAIN t /\ t[i] = s[i]) \/ (i > k /\ i - 1 \in DOMAIN t /\ t[i - 1] = s[i])
    OBVIOUS
  <2>2. CASE i < k
    BY <1>1, <1>4, <1>5, <2>2
  <2>3. CASE i > k
    <3>1. i - 1 \in k..(Len(s) - 1) /\ (i - 1) + 1 = i
      BY <1>1, <2>3
    <3> QED BY <1>1, <1>4, <1>6, <2>3, <3>1
  <2> QED BY <1>1, <2>1, <2>2, <2>3
<1>9. t = RemoveAt(s, k)
  BY DEF RemoveAt, t, a, b
<1> QED BY <1>1, <1>4, <1>7, <1>8, <1>9

\* A job that is done is returned.
LEMMA ResultKeeps ==
    ASSUME NEW o, ExecutorInv(o), ~o.done, Finished(o) # {}
    PROVE  LET i == Min(Finished(o))
               j == o.list[i]
           IN  ExecutorInv([o EXCEPT !.list = RemoveAt(@, i), !.returned = Append(@, o.result[j])])
<1> DEFINE k == Min(Finished(o))
           j0 == o.list[k]
           J == DOMAIN o.allowed
           List == RemoveAt(o.list, k)
           Back == Append(o.returned, o.result[j0])
           n == [o EXCEPT !.list = List, !.returned = Back]
<1>1. /\ o \in ExecutorsOf(J) /\ o.list \in Seq(J) /\ o.returned \in Seq(Int) /\ o.result \in [J -> Int] /\ J \subseteq Nat /\ 0 \notin J
      /\ o.left \subseteq J /\ o.job \in [1..2 -> J \cup {0}]
  BY DEF ExecutorInv, Executing, ExecutorsOf
<1>2. k \in DOMAIN o.list /\ o.state[j0] = "done"
  <2>1. Finished(o) \in SUBSET Nat
    BY <1>1, SMTT(30) DEF Finished
  <2>2. k \in Finished(o)
    BY <2>1, LeastNumber
  <2> QED BY <2>2 DEF Finished
<1>3. j0 \in J /\ o.result[j0] \in {j0, -j0} /\ o.result[j0] \in Int
  BY <1>1, <1>2 DEF ExecutorInv, Executing
<1>4. Listed(o, j0) /\ ~Returned(o, j0) /\ j0 \notin o.left
  BY <1>2 DEF ExecutorInv, Executing, Listed
<1> HIDE DEF k
<1>5. /\ List \in Seq(J) /\ k \in Nat /\ \A i \in DOMAIN List : i \in Nat
      /\ \A i \in DOMAIN List : IF i < k THEN i \in DOMAIN o.list /\ List[i] = o.list[i] ELSE i + 1 \in DOMAIN o.list /\ List[i] = o.list[i + 1]
      /\ \A i \in DOMAIN o.list : i = k \/ (i < k /\ i \in DOMAIN List /\ List[i] = o.list[i]) \/ (i > k /\ i - 1 \in DOMAIN List /\ List[i - 1] = o.list[i])
  <2> HIDE DEF J
  <2>1. o.list \in Seq(J)
    BY <1>1
  <2> QED BY <1>2, <2>1, Removed
<1>6. /\ Back \in Seq(Int) /\ DOMAIN Back = 1..(Len(o.returned) + 1) /\ Len(o.returned) \in Nat
      /\ Back[Len(o.returned) + 1] = o.result[j0] /\ \A i \in DOMAIN o.returned : i \in DOMAIN Back /\ Back[i] = o.returned[i]
      /\ \A i \in DOMAIN Back : i = Len(o.returned) + 1 \/ i \in DOMAIN o.returned
  BY <1>1, <1>3, Appended
<1> HIDE DEF List, Back, j0
<1>7. /\ n \in ExecutorsOf(J) /\ n.list = List /\ n.returned = Back /\ n.allowed = o.allowed /\ n.left = o.left
      /\ n.job = o.job /\ n.freed = o.freed /\ n.state = o.state /\ n.result = o.result /\ n.done = o.done
  BY <1>1, <1>5, <1>6 DEF ExecutorsOf
<1> HIDE DEF n
<1>8. \A j : Listed(n, j) <=> Listed(o, j) /\ j # j0
  <2>1. ASSUME NEW j, Listed(n, j) PROVE Listed(o, j) /\ j # j0
    <3>1. PICK i \in DOMAIN List : List[i] = j
      BY <1>7, <2>1 DEF Listed
    <3>2. i \in Nat /\ k \in Nat
      BY <1>1, <1>2, <1>5
    <3>3. PICK h \in DOMAIN o.list : h # k /\ o.list[h] = j
      BY <1>5, <3>1, <3>2
    <3> QED BY <1>2, <3>3 DEF Listed, ExecutorInv, Executing, j0
  <2>2. ASSUME NEW j, Listed(o, j), j # j0 PROVE Listed(n, j)
    <3>1. PICK i \in DOMAIN o.list : o.list[i] = j
      BY <2>2 DEF Listed
    <3>2. i # k
      BY <2>2, <3>1 DEF j0
    <3> QED BY <1>5, <1>7, <3>1, <3>2 DEF Listed
  <2> QED BY <2>1, <2>2
<1>9. \A j \in J : Returned(n, j) <=> Returned(o, j) \/ j = j0
  <2>1. ASSUME NEW j \in J, Returned(n, j) PROVE Returned(o, j) \/ j = j0
    <3>1. PICK i \in DOMAIN Back : Back[i] = j \/ Back[i] = -j
      BY <1>7, <2>1 DEF Returned
    <3>2. CASE i = Len(o.returned) + 1
      BY <1>1, <1>3, <1>6, <3>1, <3>2, SMTT(30)
    <3>3. CASE i \in DOMAIN o.returned
      BY <1>6, <3>1, <3>3 DEF Returned
    <3> QED BY <1>6, <3>2, <3>3
  <2>2. ASSUME NEW j, Returned(o, j) PROVE Returned(n, j)
    BY <1>6, <1>7, <2>2 DEF Returned
  <2>3. Returned(n, j0)
    <3>1. Len(o.returned) + 1 \in DOMAIN Back
      BY <1>6
    <3> QED BY <1>3, <1>6, <1>7, <3>1 DEF Returned
  <2> QED BY <2>1, <2>2, <2>3
<1>10. ASSUME NEW i \in DOMAIN n.list, NEW h \in DOMAIN n.list, n.list[i] = n.list[h] PROVE i = h
  <2>1. i \in Nat /\ h \in Nat /\ k \in Nat
    BY <1>1, <1>2, <1>5, <1>7
  <2>2. DEFINE At(x) == IF x < k THEN x ELSE x + 1
  <2>3. At(i) \in DOMAIN o.list /\ At(h) \in DOMAIN o.list /\ o.list[At(i)] = n.list[i] /\ o.list[At(h)] = n.list[h]
    BY <1>5, <1>7, <2>1
  <2>4. At(i) = At(h)
    BY <1>10, <2>3 DEF ExecutorInv, Executing
  <2> QED BY <2>1, <2>4
<1>11. \A i \in DOMAIN n.list : ~Returned(n, n.list[i])
  <2>1. ASSUME NEW i \in DOMAIN n.list PROVE ~Returned(n, n.list[i])
    <3>1. Listed(n, n.list[i]) /\ n.list[i] \in J
      BY <1>5, <1>7 DEF Listed
    <3>2. Listed(o, n.list[i]) /\ n.list[i] # j0
      BY <1>8, <3>1
    <3>3. ~Returned(o, n.list[i])
      BY <3>2 DEF Listed, ExecutorInv, Executing
    <3> QED BY <1>9, <3>1, <3>2, <3>3
  <2> QED BY <2>1
<1>12. \A i \in DOMAIN n.returned : \E j \in J : n.returned[i] \in {j, -j}
  BY <1>3, <1>6, <1>7 DEF ExecutorInv, Executing
<1>13. ASSUME NEW i \in DOMAIN n.returned, NEW h \in DOMAIN n.returned, n.returned[i] \in {n.returned[h], -n.returned[h]} PROVE i = h
  <2>1. \A x \in DOMAIN o.returned : o.returned[x] # j0 /\ o.returned[x] # -j0 /\ o.returned[x] \in Int /\ j0 \in Int
    BY <1>1, <1>3, <1>4 DEF Returned
  <2>2. CASE i \in DOMAIN o.returned /\ h \in DOMAIN o.returned
    BY <1>6, <1>7, <1>13, <2>2 DEF ExecutorInv, Executing
  <2>3. CASE i = Len(o.returned) + 1 /\ h \in DOMAIN o.returned
    <3>1. n.returned[i] = o.result[j0] /\ n.returned[h] = o.returned[h]
      BY <1>6, <1>7, <2>3
    <3> QED BY <1>3, <1>13, <2>1, <2>3, <3>1
  <2>4. CASE h = Len(o.returned) + 1 /\ i \in DOMAIN o.returned
    <3>1. n.returned[h] = o.result[j0] /\ n.returned[i] = o.returned[i]
      BY <1>6, <1>7, <2>4
    <3> QED BY <1>3, <1>13, <2>1, <2>4, <3>1
  <2>5. CASE i = Len(o.returned) + 1 /\ h = Len(o.returned) + 1
    BY <2>5
  <2> QED BY <1>6, <1>7, <2>2, <2>3, <2>4, <2>5
<1>14. \A j \in o.left : n.state[j] = "pending" /\ ~Listed(n, j) /\ ~Returned(n, j)
  BY <1>1, <1>4, <1>7, <1>8, <1>9 DEF ExecutorInv, Executing
<1>15. \A c \in 1..2 : n.job[c] # 0 => n.state[n.job[c]] = "running" /\ Listed(n, n.job[c])
  BY <1>2, <1>7, <1>8 DEF ExecutorInv, Executing, j0
<1>16. \A j \in J : j \in n.left \/ ((Listed(n, j) \/ Returned(n, j)) /\ n.allowed[j] # {})
  BY <1>7, <1>8, <1>9 DEF ExecutorInv, Executing
<1>17. Executing(n)
  BY <1>7, <1>10, <1>11, <1>12, <1>13, <1>14, <1>15, <1>16 DEF ExecutorInv, Executing
<1>18. ExecutorInv(n)
  BY <1>7, <1>17 DEF ExecutorInv, Settled
<1> QED BY <1>18 DEF n, k, j0, List, Back

\* Nothing is left to wait for.
LEMMA DoneKeeps ==
    ASSUME NEW o, ExecutorInv(o), o.list = << >>, \E c \in DOMAIN o.freed : o.freed[c] > 0
    PROVE  ExecutorInv([o EXCEPT !.done = TRUE])
<1> DEFINE n == [o EXCEPT !.done = TRUE]
           J == DOMAIN o.allowed
<1>1. o \in ExecutorsOf(J) /\ DOMAIN o.freed = 1..2
  BY DEF ExecutorInv, Executing, ExecutorsOf
<1>2. /\ n \in ExecutorsOf(J) /\ n.list = o.list /\ n.returned = o.returned /\ n.allowed = o.allowed /\ n.left = o.left
      /\ n.job = o.job /\ n.freed = o.freed /\ n.state = o.state /\ n.result = o.result /\ n.done = TRUE
  BY <1>1 DEF ExecutorsOf
<1> HIDE DEF n
<1>3. \A j : (Listed(n, j) <=> Listed(o, j)) /\ (Returned(n, j) <=> Returned(o, j))
  BY <1>2 DEF Listed, Returned
<1>4. Executing(n)
  BY <1>2, <1>3 DEF ExecutorInv, Executing
<1> QED BY <1>1, <1>2, <1>4 DEF ExecutorInv, Settled, n

\* Each job was run once and its own result was returned once.
LEMMA ExecutorResult ==
    ASSUME NEW o, ExecutorInv(o)
    PROVE  LET abs(x) == IF x < 0 THEN -x ELSE x
           IN  /\ \A c \in DOMAIN o.job : o.freed[c] > 0 => o.job[c] = 0
               /\ \A j \in DOMAIN o.state : o.state[j] # "assert"
               /\ \A i, k \in DOMAIN o.returned : abs(o.returned[i]) = abs(o.returned[k]) => i = k
               /\ o.done => {abs(x) : x \in Range(o.returned)} = {j \in DOMAIN o.allowed : o.allowed[j] # {}}
<1> DEFINE abs(x) == IF x < 0 THEN -x ELSE x
           J == DOMAIN o.allowed
<1>1. /\ o \in ExecutorsOf(J) /\ DOMAIN o.job = 1..2 /\ DOMAIN o.state = J /\ o.state \in [J -> JobStates]
      /\ o.returned \in Seq(Int) /\ o.allowed \in Seq(SUBSET (1..2)) /\ J \subseteq Nat /\ 0 \notin J /\ o.left \subseteq J
      /\ o.freed \in [1..2 -> 0..2]
  BY DEF ExecutorInv, Executing, ExecutorsOf
<1>2. \A c \in DOMAIN o.job : o.freed[c] > 0 => o.job[c] = 0
  BY <1>1 DEF ExecutorInv, Executing
<1>3. \A j \in DOMAIN o.state : o.state[j] # "assert"
  BY <1>1 DEF JobStates
<1>4. \A i \in DOMAIN o.returned : o.returned[i] \in Int
  BY <1>1
<1>5. ASSUME NEW i \in DOMAIN o.returned, NEW k \in DOMAIN o.returned, abs(o.returned[i]) = abs(o.returned[k]) PROVE i = k
  <2>1. o.returned[i] \in {o.returned[k], -o.returned[k]}
    BY <1>4, <1>5
  <2> QED BY <2>1 DEF ExecutorInv, Executing
<1>6. ASSUME o.done PROVE {abs(x) : x \in Range(o.returned)} = {j \in J : o.allowed[j] # {}}
  <2>1. \A j : ~Listed(o, j)
    BY <1>6 DEF ExecutorInv, Listed
  <2>2. \A c \in 1..2 : o.freed[c] > 0
    BY <1>1, <1>6, <2>1 DEF ExecutorInv, Executing, Settled
  <2>3. \A j \in o.left : o.allowed[j] = {}
    <3>1. \A j \in J : o.allowed[j] \subseteq 1..2
      BY <1>1
    <3>2. \A j \in o.left : \A c \in 1..2 : c \notin o.allowed[j]
      BY <2>2 DEF ExecutorInv, Executing
    <3> QED BY <1>1, <3>1, <3>2
  <2>4. ASSUME NEW i \in DOMAIN o.returned PROVE abs(o.returned[i]) \in J /\ o.allowed[abs(o.returned[i])] # {}
    <3>1. PICK j \in J : o.returned[i] \in {j, -j}
      BY DEF ExecutorInv, Executing
    <3>2. abs(o.returned[i]) = j
      BY <1>1, <3>1
    <3>3. Returned(o, j)
      BY <3>1 DEF Returned
    <3>4. j \notin o.left
      BY <3>3 DEF ExecutorInv, Executing
    <3> QED BY <3>2, <3>4 DEF ExecutorInv, Executing
  <2>5. ASSUME NEW j \in J, o.allowed[j] # {} PROVE \E i \in DOMAIN o.returned : abs(o.returned[i]) = j
    <3>1. Returned(o, j)
      BY <2>1, <2>3, <2>5 DEF ExecutorInv, Executing
    <3>2. PICK i \in DOMAIN o.returned : o.returned[i] = j \/ o.returned[i] = -j
      BY <3>1 DEF Returned
    <3>3. j \in Nat /\ j # 0
      BY <1>1
    <3> QED BY <3>2, <3>3
  <2> QED BY <2>4, <2>5 DEF Range
<1> QED BY <1>2, <1>3, <1>5, <1>6

-----------------------------------------------------------------------------
(* The server and the processes at the other end.                           *)

\* A request is tried again, and every error is told.
LEMMA RetryTells ==
    ASSUME NEW outcomes \in Seq(STRING), outcomes # << >>, NEW retries \in Nat
    PROVE  LET r == Handled(outcomes, retries)
           IN  /\ r.tries <= retries + 1
               /\ r.error # None => \A i \in 1..r.tries : outcomes[i] \in {r.error} \cup DOMAIN r.more
               /\ r.error = None => outcomes[r.tries] = None
<1> DEFINE n == IF Len(outcomes) > retries THEN retries + 1 ELSE Len(outcomes)
           tries == SubSeq(outcomes, 1, n)
           good == {i \in DOMAIN tries : tries[i] = None}
           Counted(m) == Cardinality({i \in 2..Len(tries) : tries[i] = m})
           r == Handled(outcomes, retries)
<1>1. n \in 1..Len(outcomes) /\ n <= retries + 1
  OBVIOUS
<1> HIDE DEF n
<1>2. tries \in Seq(STRING) /\ DOMAIN tries = 1..n /\ Len(tries) = n /\ \A i \in 1..n : tries[i] = outcomes[i]
  BY <1>1
<1>3. r = IF good # {} THEN [error |-> None, tries |-> Min(good), more |-> << >>]
          ELSE [error |-> tries[1], tries |-> Len(tries), more |-> [m \in Range(Tail(tries)) |-> Counted(m)]]
  BY DEF Handled, n
<1> HIDE DEF r, tries
<1>4. CASE good # {}
  <2>1. good \in SUBSET Nat
    BY <1>1, <1>2
  <2>2. Min(good) \in good
    BY <1>4, <2>1, LeastNumber
  <2>3. Min(good) \in 1..n /\ outcomes[Min(good)] = None
    BY <1>2, <2>2
  <2>4. r.error = None /\ r.tries = Min(good)
    BY <1>3, <1>4
  <2> QED BY <1>1, <2>3, <2>4 DEF r
<1>5. CASE good = {}
  <2>1. r.error = tries[1] /\ r.tries = n /\ DOMAIN r.more = Range(Tail(tries))
    BY <1>2, <1>3, <1>5
  <2>2. r.error # None
    BY <1>1, <1>2, <1>5, <2>1
  <2>3. ASSUME NEW i \in 1..n, i # 1 PROVE tries[i] \in Range(Tail(tries))
    <3>1. i - 1 \in DOMAIN Tail(tries) /\ Tail(tries)[i - 1] = tries[i]
      BY <1>2, <2>3
    <3> QED BY <3>1 DEF Range
  <2> QED BY <1>1, <1>2, <2>1, <2>2, <2>3 DEF r
<1> QED BY <1>4, <1>5

\* Access is only given for a stanza the certificate was made for.
LEMMA ServesOnly ==
    ASSUME NEW a, Accepted(a) = "serve"
    PROVE  a.certificate /\ ("*" \in a.list \/ a.stanza \in a.list)
BY DEF Accepted, Authorized, Error

\* A remote for a pg host finds its own options under the first index.
LEMMA RemoteOwn ==
    ASSUME NEW a, \A x \in a.options : x \in [group : {"pg", "repo"}, index : Nat, value : STRING, needed : BOOLEAN]
    PROVE  /\ a.type = "pg" => \A x \in RemoteOptions(a) : x.index = 1 /\ x.group = "pg"
           /\ a.type = "repo" => \A x \in RemoteOptions(a) : x.group = "repo" => x.index = a.host
BY DEF RemoteOptions

-----------------------------------------------------------------------------
(* The client.                                                              *)

Messages == [id : Nat, n : Int, close : BOOLEAN, error : BOOLEAN]
Commands == {"read", "write", "call", "job", None}
Sessions == [command : Commands, blocks : Nat, open : BOOLEAN, queued : BOOLEAN, stored : Messages, listed : BOOLEAN,
             alive : BOOLEAN, failed : BOOLEAN, asked : Nat, taken : Nat]
IsClient(o) ==
    /\ o = [session |-> o.session, stream |-> o.stream, server |-> o.server, idle |-> o.idle, thrown |-> o.thrown, lost |-> o.lost]
    /\ o.session \in Seq(Sessions) /\ o.stream \in Seq(Messages)
    /\ o.idle = TRUE /\ o.thrown \in BOOLEAN /\ o.lost = FALSE

\* The message that waits for a session.
Waits(o, m) ==
    /\ m.id \in DOMAIN o.session
    /\ o.session[m.id].queued
    /\ m.n = o.session[m.id].taken + 1
    /\ m.close => m.id \notin DOMAIN o.server
InStream(o, id, m) == \E i \in DOMAIN o.stream : o.stream[i].id = id /\ m = o.stream[i]
Pending(o, id, m) == IF o.session[id].stored # NoMessage THEN m = o.session[id].stored ELSE InStream(o, id, m)
HasAnswer(o, id) == o.session[id].stored # NoMessage \/ \E i \in DOMAIN o.stream : o.stream[i].id = id

\* What holds between the steps of a call too.
Streamed(o) == \A i \in DOMAIN o.stream : Waits(o, o.stream[i]) /\ o.session[o.stream[i].id].stored = NoMessage
OneEach(o) == \A i, j \in DOMAIN o.stream : o.stream[i].id = o.stream[j].id => i = j
InTurn(o, id) ==
    LET s == o.session[id]
    IN  /\ s.asked = IF s.queued THEN s.taken + 1 ELSE s.taken
        /\ s.stored # NoMessage => s.stored.id = id /\ Waits(o, s.stored)
        /\ s.queued => HasAnswer(o, id)
Turns(o) == IsClient(o) /\ Streamed(o) /\ OneEach(o) /\ \A id \in DOMAIN o.session : InTurn(o, id)

\* What the sessions that no call is working on have.
Known(o, E) ==
    /\ \A i \in DOMAIN o.stream : o.stream[i].id \in E \/ o.session[o.stream[i].id].listed
    /\ \A id \in DOMAIN o.server : id \in DOMAIN o.session /\ (id \in E \/ (o.session[id].listed /\ o.session[id].open))
    /\ \A id \in DOMAIN o.session : id \in E \/ (o.session[id].alive => o.session[id].listed)

\* The inductive invariant of a client.
ClientInv(o) == Turns(o) /\ Known(o, {})

\* One session is changed.
With(o, id, s) == [o EXCEPT !.session[id] = s]
\* Only that session is another one then.
LEMMA WithIs ==
    ASSUME NEW o, IsClient(o), NEW id \in DOMAIN o.session, NEW s \in Sessions
    PROVE  LET n == With(o, id, s)
           IN  /\ IsClient(n) /\ DOMAIN n.session = DOMAIN o.session /\ n.session[id] = s
               /\ \A x \in DOMAIN o.session : x # id => n.session[x] = o.session[x]
               /\ n.stream = o.stream /\ n.server = o.server /\ n.thrown = o.thrown
<1> DEFINE Session1 == [o.session EXCEPT ![id] = s]
           n == With(o, id, s)
<1>1. /\ Session1 \in Seq(Sessions) /\ DOMAIN Session1 = DOMAIN o.session /\ Session1[id] = s
      /\ \A x \in DOMAIN o.session : x # id => Session1[x] = o.session[x]
  BY DEF IsClient
<1>2. n = [o EXCEPT !.session = Session1]
  BY DEF With, IsClient
<1> HIDE DEF Session1, n
<1>3. n = [session |-> Session1, stream |-> o.stream, server |-> o.server, idle |-> o.idle, thrown |-> o.thrown, lost |-> o.lost]
  BY <1>2 DEF IsClient
<1> QED BY <1>1, <1>3 DEF IsClient, n

\* protocolServerProcess(): the answer, and what the server has open then.
Told(o, id, type, r) ==
    /\ r.answer \in Messages /\ r.answer.id = id /\ r.answer.n = o.session[id].asked + 1
    /\ r.answer.close => id \notin DOMAIN r.open
    /\ \A x \in DOMAIN r.open : x \in DOMAIN o.server \/ (x = id /\ type = "open")
    /\ type = "cancel" => id \notin DOMAIN r.open /\ r.answer.close /\ ~r.answer.error
\* Every kind of request gets one such answer.
LEMMA ServeIs ==
    ASSUME NEW o, IsClient(o), NEW id \in DOMAIN o.session, NEW type \in {"open", "process", "close", "cancel"}, NEW fails \in BOOLEAN,
           type = "open" => id \notin DOMAIN o.server,
           type = "process" => o.session[id].command # "read" \/ o.session[id].open
    PROVE  Told(o, id, type, Serve(o, id, type, fails))
<1> DEFINE s == o.session[id]
           Gives(close, error) == Answer(o, id, close, error)
           Rest == Restrict(o.server, DOMAIN o.server \ {id})
           Left(n) == [x \in DOMAIN o.server \cup {id} |-> IF x = id THEN n ELSE o.server[x]]
           r == Serve(o, id, type, fails)
<1>0. s \in Sessions /\ id \in Nat /\ s.asked \in Nat
  <2>1. s \in Sessions /\ id \in Nat
    BY DEF IsClient
  <2> QED BY <2>1 DEF Sessions
<1>1. \A close \in BOOLEAN, error \in BOOLEAN :
         /\ Gives(close, error) \in Messages /\ Gives(close, error).id = id /\ Gives(close, error).n = s.asked + 1
         /\ Gives(close, error).close = close /\ Gives(close, error).error = error
  BY <1>0 DEF Answer, Messages
<1>2. DOMAIN Rest = DOMAIN o.server \ {id}
  BY DEF Restrict
<1>3. \A n : DOMAIN Left(n) = {id} \cup DOMAIN o.server
  OBVIOUS
<1> DEFINE A1 == r = [answer |-> Gives(FALSE, TRUE), open |-> o.server] /\ type # "cancel"
           A2 == r = [answer |-> Gives(FALSE, FALSE), open |-> o.server] /\ type # "cancel"
           A3 == r = [answer |-> Gives(TRUE, FALSE), open |-> o.server] /\ type = "open"
           A4 == r = [answer |-> Gives(TRUE, FALSE), open |-> Rest]
           A5 == type # "cancel" /\ (type = "open" \/ id \in DOMAIN o.server)
                 /\ \E n : r = [answer |-> Gives(FALSE, FALSE), open |-> Left(n)]
<1>4. A1 \/ A2 \/ A3 \/ A4 \/ A5
  <2>1. CASE fails /\ type # "cancel"
    <3>1. A1
      BY <2>1 DEF Serve
    <3> QED BY <3>1
  <2>2. CASE ~(fails /\ type # "cancel") /\ type = "open"
    <3>1. CASE s.command = "read" /\ s.blocks = 0
      <4>1. A3
        BY <2>2, <3>1 DEF Serve
      <4> QED BY <4>1
    <3>2. CASE ~(s.command = "read" /\ s.blocks = 0)
      <4>1. r = [answer |-> Gives(FALSE, FALSE), open |-> Left(s.blocks)]
        BY <2>2, <3>2 DEF Serve
      <4> HIDE DEF r, Gives, Left, s
      <4>2. A5
        BY <2>2, <4>1
      <4> QED BY <4>2
    <3> QED BY <3>1, <3>2
  <2>3. CASE type = "cancel"
    <3>1. A4
      BY <2>3 DEF Serve
    <3> QED BY <3>1
  <2>4. CASE ~fails /\ type = "close"
    <3>1. A1 \/ A4
      BY <2>4 DEF Serve
    <3> QED BY <3>1
  <2>5. CASE ~fails /\ type = "process"
    <3>1. CASE s.open /\ id \notin DOMAIN o.server
      <4>1. A1
        BY <2>5, <3>1 DEF Serve
      <4> QED BY <4>1
    <3>2. CASE ~(s.open /\ id \notin DOMAIN o.server) /\ s.command = "read"
      <4>1. CASE o.server[id] = 1
        <5>1. A4
          BY <2>5, <3>2, <4>1 DEF Serve
        <5> QED BY <5>1
      <4>2. CASE o.server[id] # 1
        <5>1. r = [answer |-> Gives(FALSE, FALSE), open |-> Left(o.server[id] - 1)]
          BY <2>5, <3>2, <4>2 DEF Serve
        <5> HIDE DEF r, Gives, Left
        <5>2. A5
          BY <2>5, <3>2, <5>1
        <5> QED BY <5>2
      <4> QED BY <4>1, <4>2
    <3>3. CASE ~(s.open /\ id \notin DOMAIN o.server) /\ s.command # "read"
      <4>1. A2
        BY <2>5, <3>3 DEF Serve
      <4> QED BY <4>1
    <3> QED BY <3>1, <3>2, <3>3
  <2> HIDE DEF A1, A2, A3, A4, A5
  <2> QED BY <2>1, <2>2, <2>3, <2>4, <2>5
<1> HIDE DEF r, Gives, Rest, Left, s
<1>5. Told(o, id, type, r)
  <2>1. CASE A1
    BY <1>1, <2>1 DEF Told, s
  <2>2. CASE A2
    BY <1>1, <2>2 DEF Told, s
  <2>3. CASE A3
    BY <1>1, <2>3 DEF Told, s
  <2>4. CASE A4
    BY <1>1, <1>2, <2>4 DEF Told, s
  <2>5. CASE A5
    <3>1. PICK n : r = [answer |-> Gives(FALSE, FALSE), open |-> Left(n)]
      BY <2>5 DEF A5
    <3>2. r.answer = Gives(FALSE, FALSE) /\ DOMAIN r.open = {id} \cup DOMAIN o.server
      BY <3>1, <1>3
    <3>3. type # "cancel" /\ (type = "open" \/ id \in DOMAIN o.server)
      BY <2>5 DEF A5
    <3> QED BY <1>1, <3>2, <3>3 DEF Told, s
  <2> QED BY <1>4, <2>1, <2>2, <2>3, <2>4, <2>5
<1> QED BY <1>5 DEF r

\* A client from its parts.
Rec(session, stream, server, thrown) ==
    [session |-> session, stream |-> stream, server |-> server, idle |-> TRUE, thrown |-> thrown, lost |-> FALSE]
\* It is a client when its parts are right.
LEMMA RecIs ==
    ASSUME NEW session \in Seq(Sessions), NEW stream \in Seq(Messages), NEW server, NEW thrown \in BOOLEAN
    PROVE  /\ IsClient(Rec(session, stream, server, thrown))
           /\ Rec(session, stream, server, thrown).session = session /\ Rec(session, stream, server, thrown).stream = stream
           /\ Rec(session, stream, server, thrown).server = server /\ Rec(session, stream, server, thrown).thrown = thrown
BY DEF Rec, IsClient

\* What two sessions have in common whatever they were asked.
Alike(s, t) == /\ t.command = s.command /\ t.blocks = s.blocks
               /\ t.listed = s.listed /\ t.alive = s.alive
\* A session that asked for something, and one that was answered.
LEMMA QueuedIs ==
    ASSUME NEW s \in Sessions
    PROVE  /\ Queued(s) \in Sessions /\ Queued(s).queued /\ Queued(s).asked = s.asked + 1 /\ Alike(s, Queued(s))
           /\ Queued(s).open = s.open /\ Queued(s).stored = s.stored /\ Queued(s).taken = s.taken
<1> DEFINE k == s.asked + 1
<1>a. k \in Nat /\ Queued(s) = [s EXCEPT !.queued = TRUE, !.asked = k]
  BY DEF Queued, Sessions
<1> HIDE DEF k
<1>1. Queued(s) \in Sessions
  BY <1>a DEF Sessions
<1>2. Queued(s).queued
  BY DEF Queued, Sessions
<1>2a. Queued(s).asked = s.asked + 1
  BY <1>a DEF Sessions, k
<1>3. Alike(s, Queued(s))
  BY DEF Queued, Sessions, Alike
<1>4. Queued(s).open = s.open
  BY DEF Queued, Sessions
<1>5. Queued(s).stored = s.stored
  BY DEF Queued, Sessions
<1>6. Queued(s).taken = s.taken
  BY DEF Queued, Sessions
<1> QED BY <1>1, <1>2, <1>2a, <1>3, <1>4, <1>5, <1>6

\* A session that was answered has one answer more and waits for none.
LEMMA GivenAnswerIs ==
    ASSUME NEW s \in Sessions, NEW m \in Messages
    PROVE  /\ GivenAnswer(s, m) \in Sessions /\ ~GivenAnswer(s, m).queued /\ GivenAnswer(s, m).taken = s.taken + 1 /\ Alike(s, GivenAnswer(s, m))
           /\ GivenAnswer(s, m).open = (s.open /\ ~m.close) /\ GivenAnswer(s, m).stored = s.stored /\ GivenAnswer(s, m).asked = s.asked
<1>0. m.close \in BOOLEAN /\ m.error \in BOOLEAN
  BY DEF Messages
<1>a. s.open \in BOOLEAN /\ s.failed \in BOOLEAN /\ s.taken \in Nat
  BY DEF Sessions
<1> DEFINE op == s.open /\ ~m.close
           fl == s.failed \/ m.error
           tk == s.taken + 1
<1>b. op \in BOOLEAN /\ fl \in BOOLEAN /\ tk \in Nat
  BY <1>0, <1>a
<1>c. GivenAnswer(s, m) = [s EXCEPT !.queued = FALSE, !.taken = tk, !.open = op, !.failed = fl]
  BY DEF GivenAnswer
<1> HIDE DEF op, fl, tk
<1>1. GivenAnswer(s, m) \in Sessions
  BY <1>b, <1>c DEF Sessions
<1>2. ~GivenAnswer(s, m).queued
  BY <1>b, <1>c DEF Sessions
<1>5. GivenAnswer(s, m).taken = s.taken + 1
  BY <1>b, <1>c DEF Sessions, tk
<1>6. GivenAnswer(s, m).open = op
  BY <1>b, <1>c DEF Sessions
<1>3. Alike(s, GivenAnswer(s, m))
  BY <1>c DEF Sessions, Alike
<1>4. GivenAnswer(s, m).stored = s.stored
  BY <1>c DEF Sessions
<1>7. GivenAnswer(s, m).asked = s.asked
  BY <1>c DEF Sessions
<1> QED BY <1>7, <1>1, <1>2, <1>3, <1>4, <1>5, <1>6 DEF op

\* One session of a sequence of them is changed.
LEMMA Changed ==
    ASSUME NEW session \in Seq(Sessions), NEW id \in DOMAIN session, NEW s \in Sessions
    PROVE  LET n == [session EXCEPT ![id] = s]
           IN  /\ n \in Seq(Sessions) /\ DOMAIN n = DOMAIN session /\ Len(n) = Len(session) /\ n[id] = s
               /\ \A x \in DOMAIN session : x # id => n[x] = session[x]
OBVIOUS

\* A record with the fields of a client is put together from them.
LEMMA RecOf ==
    ASSUME NEW session, NEW stream, NEW server, NEW thrown,
           NEW x \in [session : {session}, stream : {stream}, server : {server}, idle : {TRUE}, thrown : {thrown}, lost : {FALSE}]
    PROVE  x = Rec(session, stream, server, thrown)
<1>1. x = [session |-> x.session, stream |-> x.stream, server |-> x.server, idle |-> x.idle, thrown |-> x.thrown, lost |-> x.lost]
  OBVIOUS
<1>2. x.session = session /\ x.stream = stream /\ x.server = server /\ x.idle = TRUE /\ x.thrown = thrown /\ x.lost = FALSE
  OBVIOUS
<1> QED BY <1>1, <1>2 DEF Rec

\* A client is put together from its parts.
LEMMA ClientIs ==
    ASSUME NEW o, IsClient(o)
    PROVE  /\ o = Rec(o.session, o.stream, o.server, o.thrown)
           /\ o.session \in Seq(Sessions) /\ o.stream \in Seq(Messages) /\ o.idle = TRUE /\ o.lost = FALSE /\ o.thrown \in BOOLEAN
BY DEF IsClient, Rec

\* protocolClientRequestInternal(): the answer is put in the stream.
LEMMA RequestIs ==
    ASSUME NEW o, IsClient(o), NEW id \in DOMAIN o.session, NEW type, NEW fails
    PROVE  LET r == Serve(o, id, type, fails)
           IN  Request(o, id, type, fails) =
                   Rec([o.session EXCEPT ![id] = Queued(o.session[id])], Append(o.stream, r.answer), r.open, o.thrown)
<1> DEFINE r == Serve(o, id, type, fails)
           st == Append(o.stream, r.answer)
           sv == r.open
           as == Queued(o.session[id])
           se == [o.session EXCEPT ![id] = as]
<1>0. o = Rec(o.session, o.stream, o.server, o.thrown)
  BY ClientIs
<1>1. PICK a, b, c, d : o = Rec(a, b, c, d)
  BY <1>0, Zenon
<1>2. o.idle = TRUE /\ o.thrown = d
  BY <1>1 DEF Rec
<1>3. Request(o, id, type, fails) = [o EXCEPT !.stream = st, !.server = sv, !.session[id] = as]
  BY <1>2 DEF Request
<1> HIDE DEF r, st, sv, as
<1>4. [o EXCEPT !.stream = st, !.server = sv, !.session[id] = as] = [o EXCEPT !.stream = st, !.server = sv, !.session = se]
  BY <1>1 DEF Rec
<1> HIDE DEF se
<1> DEFINE x == [o EXCEPT !.stream = st, !.server = sv, !.session = se]
<1>6. x = Rec(se, st, sv, d)
  <2>1. x \in [session : {se}, stream : {st}, server : {sv}, idle : {TRUE}, thrown : {d}, lost : {FALSE}]
    BY <1>1 DEF Rec
  <2> HIDE DEF x
  <2> QED BY <2>1, RecOf
<1>5. Request(o, id, type, fails) = Rec(se, st, sv, o.thrown)
  BY <1>2, <1>3, <1>4, <1>6
<1> QED BY <1>5 DEF se, st, sv, as, r

\* protocolClientResponseInternal(): the answer is the result of the session.
LEMMA TakeIs ==
    ASSUME NEW o, IsClient(o), NEW id \in DOMAIN o.session, NEW m \in Messages, m.id = id, m.n = o.session[id].taken + 1
    PROVE  Take(o, id, m) = Rec([o.session EXCEPT ![id] = GivenAnswer(o.session[id], m)], o.stream, o.server, m.error)
<1> DEFINE as == GivenAnswer(o.session[id], m)
           se == [o.session EXCEPT ![id] = as]
           th == m.error
<1>0. o = Rec(o.session, o.stream, o.server, o.thrown)
  BY ClientIs
<1>1. PICK a, b, c, d : o = Rec(a, b, c, d)
  BY <1>0, Zenon
<1>2. o.lost = FALSE /\ o.stream = b /\ o.server = c
  BY <1>1 DEF Rec
<1>3. Take(o, id, m) = [o EXCEPT !.session[id] = as, !.thrown = th, !.lost = FALSE]
  BY <1>2 DEF Take
<1> HIDE DEF as, th
<1>4. [o EXCEPT !.session[id] = as, !.thrown = th, !.lost = FALSE] = [o EXCEPT !.session = se, !.thrown = th, !.lost = FALSE]
  BY <1>1 DEF Rec
<1> HIDE DEF se
<1> DEFINE x == [o EXCEPT !.session = se, !.thrown = th, !.lost = FALSE]
<1>5. x = Rec(se, b, c, th)
  <2>1. x \in [session : {se}, stream : {b}, server : {c}, idle : {TRUE}, thrown : {th}, lost : {FALSE}]
    BY <1>1 DEF Rec
  <2> HIDE DEF x
  <2> QED BY <2>1, RecOf
<1>6. Take(o, id, m) = Rec(se, o.stream, o.server, th)
  BY <1>2, <1>3, <1>4, <1>5
<1> QED BY <1>6 DEF se, as, th

\* A request of a session that waits for nothing leaves all in turn.
Requested(o, r, id, type) ==
    /\ Turns(r) /\ Known(r, {id}) /\ DOMAIN r.session = DOMAIN o.session /\ r.thrown = o.thrown
    /\ r.session[id] = Queued(o.session[id]) /\ r.session[id].stored = NoMessage
    /\ \A x \in DOMAIN r.server : x \in DOMAIN o.server \/ (x = id /\ type = "open")
    /\ type = "cancel" => id \notin DOMAIN r.server /\ \A m : InStream(r, id, m) => m.close /\ ~m.error
\* protocolClientRequestInternal() keeps the turns when the session has none queued.
LEMMA RequestKeeps ==
    ASSUME NEW o, Turns(o), NEW id \in DOMAIN o.session, Known(o, {id}), ~o.session[id].queued,
           NEW type \in {"open", "process", "close", "cancel"}, NEW fails \in BOOLEAN,
           type = "open" => id \notin DOMAIN o.server,
           type = "process" => o.session[id].command # "read" \/ o.session[id].open
    PROVE  Requested(o, Request(o, id, type, fails), id, type)
<1> DEFINE r == Request(o, id, type, fails)
           S == Serve(o, id, type, fails)
           a == S.answer
           s == o.session[id]
           se == [o.session EXCEPT ![id] = Queued(s)]
           st == Append(o.stream, a)
<1>c. /\ IsClient(o) /\ o.session \in Seq(Sessions) /\ o.stream \in Seq(Messages) /\ o.thrown \in BOOLEAN
      /\ s \in Sessions
  <2>1. IsClient(o)
    BY DEF Turns
  <2>2. o.session \in Seq(Sessions) /\ o.stream \in Seq(Messages) /\ o.thrown \in BOOLEAN
    BY <2>1, ClientIs
  <2> QED BY <2>1, <2>2
<1>1. Told(o, id, type, S)
  BY <1>c, ServeIs
<1>2. r = Rec(se, st, S.open, o.thrown)
  BY <1>c, RequestIs
<1>3. /\ Queued(s) \in Sessions /\ Queued(s).queued /\ Queued(s).asked = s.asked + 1 /\ Alike(s, Queued(s))
      /\ Queued(s).open = s.open /\ Queued(s).stored = s.stored /\ Queued(s).taken = s.taken
  BY <1>c, QueuedIs
<1>4. /\ se \in Seq(Sessions) /\ DOMAIN se = DOMAIN o.session /\ se[id] = Queued(s)
      /\ \A x \in DOMAIN o.session : x # id => se[x] = o.session[x]
  BY <1>c, <1>3, Changed
<1>5. a \in Messages /\ a.id = id /\ a.n = s.asked + 1 /\ (a.close => id \notin DOMAIN S.open)
  BY <1>1 DEF Told
<1>6. /\ st \in Seq(Messages) /\ DOMAIN st = DOMAIN o.stream \cup {Len(o.stream) + 1} /\ st[Len(o.stream) + 1] = a
      /\ \A i \in DOMAIN o.stream : st[i] = o.stream[i]
      /\ Len(o.stream) + 1 \notin DOMAIN o.stream
  <2> HIDE DEF a
  <2> QED BY <1>5, <1>c DEF st
<1> HIDE DEF r, S, a, se, st
<1>7. /\ IsClient(r) /\ r.session = se /\ r.stream = st /\ r.server = S.open /\ r.thrown = o.thrown
  BY <1>2, <1>4, <1>6, <1>c, RecIs
<1>8. /\ s.stored = NoMessage /\ s.asked = s.taken /\ \A i \in DOMAIN o.stream : o.stream[i].id # id
  BY DEF Turns, InTurn, Streamed, Waits
<1>9. Streamed(r)
  <2> SUFFICES ASSUME NEW i \in DOMAIN st PROVE Waits(r, st[i]) /\ se[st[i].id].stored = NoMessage
    BY <1>7 DEF Streamed
  <2>1. CASE i = Len(o.stream) + 1
    BY <2>1, <1>3, <1>4, <1>5, <1>6, <1>7, <1>8 DEF Waits
  <2>2. CASE i \in DOMAIN o.stream
    <3>1. Waits(o, o.stream[i]) /\ o.session[o.stream[i].id].stored = NoMessage /\ st[i] = o.stream[i] /\ o.stream[i].id # id
      BY <2>2, <1>6, <1>8 DEF Turns, Streamed
    <3> QED BY <3>1, <1>1, <1>4, <1>7 DEF Waits, Told
  <2> QED BY <2>1, <2>2, <1>6
<1>10. OneEach(r)
  BY <1>5, <1>6, <1>7, <1>8 DEF OneEach, Turns
<1>11. \A x \in DOMAIN r.session : InTurn(r, x)
  <2> SUFFICES ASSUME NEW x \in DOMAIN o.session PROVE InTurn(r, x)
    BY <1>4, <1>7
  <2>1. CASE x = id
    BY <2>1, <1>3, <1>4, <1>5, <1>6, <1>7, <1>8 DEF InTurn, HasAnswer
  <2>2. CASE x # id
    <3>1. InTurn(o, x) /\ se[x] = o.session[x]
      BY <2>2, <1>4 DEF Turns
    <3>2. HasAnswer(o, x) => HasAnswer(r, x)
      BY <3>1, <1>6, <1>7 DEF HasAnswer
    <3>3. se[x].stored.id = x => (Waits(o, se[x].stored) => Waits(r, se[x].stored))
      BY <3>1, <2>2, <1>1, <1>4, <1>7 DEF Waits, Told
    <3> QED BY <3>1, <3>2, <3>3, <1>7 DEF InTurn
  <2> QED BY <2>1, <2>2
<1>12. Known(r, {id})
  <2>1. \A i \in DOMAIN r.stream : r.stream[i].id \in {id} \/ r.session[r.stream[i].id].listed
    <3> SUFFICES ASSUME NEW i \in DOMAIN st, st[i].id # id PROVE se[st[i].id].listed
      BY <1>7
    <3>1. i \in DOMAIN o.stream /\ st[i] = o.stream[i] /\ o.stream[i].id \in DOMAIN o.session
      BY <1>5, <1>6 DEF Turns, Streamed, Waits
    <3> QED BY <3>1, <1>4 DEF Known
  <2>2. \A x \in DOMAIN r.server : x \in DOMAIN r.session /\ (x \in {id} \/ (r.session[x].listed /\ r.session[x].open))
    BY <1>1, <1>4, <1>7 DEF Known, Told
  <2>3. \A x \in DOMAIN r.session : x \in {id} \/ (r.session[x].alive => r.session[x].listed)
    BY <1>4, <1>7 DEF Known
  <2> QED BY <2>1, <2>2, <2>3 DEF Known
<1>13. type = "cancel" => id \notin DOMAIN r.server /\ \A m : InStream(r, id, m) => m.close /\ ~m.error
  <2> SUFFICES ASSUME type = "cancel" PROVE id \notin DOMAIN r.server /\ \A m : InStream(r, id, m) => m.close /\ ~m.error
    OBVIOUS
  <2>1. id \notin DOMAIN S.open /\ a.close /\ ~a.error
    BY <1>1 DEF Told, a
  <2>2. \A m : InStream(r, id, m) => m = a
    BY <1>6, <1>7, <1>8 DEF InStream
  <2> QED BY <2>1, <2>2, <1>7
<1>14. \A x \in DOMAIN r.server : x \in DOMAIN o.server \/ (x = id /\ type = "open")
  BY <1>1, <1>7 DEF Told
<1>15. Turns(r) /\ DOMAIN r.session = DOMAIN o.session /\ r.session[id] = Queued(o.session[id]) /\ r.session[id].stored = NoMessage
  BY <1>3, <1>4, <1>7, <1>8, <1>9, <1>10, <1>11 DEF Turns
<1>16. Requested(o, r, id, type)
  BY <1>7, <1>12, <1>13, <1>14, <1>15 DEF Requested
<1> QED BY <1>16 DEF r

\* What a response makes of a client: m is the answer of the session, and answers
\* of others are taken off the stream and stored with them.
Storing(s, m) == [s EXCEPT !.stored = m]
Reads(o, r, id, m) ==
    /\ m \in Messages /\ Pending(o, id, m)
    /\ IsClient(r) /\ DOMAIN r.session = DOMAIN o.session /\ r.server = o.server /\ r.thrown = m.error
    /\ r.session[id] = GivenAnswer(Storing(o.session[id], NoMessage), m)
    /\ \A x \in DOMAIN o.session :
          x # id => \/ r.session[x] = o.session[x] /\ (HasAnswer(o, x) => HasAnswer(r, x))
                    \/ \E i \in DOMAIN o.stream : o.stream[i].id = x /\ r.session[x] = Storing(o.session[x], o.stream[i])
    /\ \A j \in DOMAIN r.stream :
          /\ r.stream[j].id # id
          /\ r.session[r.stream[j].id] = o.session[r.stream[j].id]
          /\ \E i \in DOMAIN o.stream : r.stream[j] = o.stream[i]
    /\ OneEach(r)
\* The message that is stored is all that changes.
LEMMA StoringIs ==
    ASSUME NEW s \in Sessions, NEW m \in Messages
    PROVE  /\ Storing(s, m) \in Sessions /\ Storing(s, m).stored = m /\ Alike(s, Storing(s, m))
           /\ Storing(s, m).queued = s.queued /\ Storing(s, m).open = s.open
           /\ Storing(s, m).asked = s.asked /\ Storing(s, m).taken = s.taken
<1>1. Storing(s, m) \in Sessions
  BY DEF Storing, Sessions
<1>2. Storing(s, m).stored = m
  BY DEF Storing, Sessions
<1>3. Alike(s, Storing(s, m))
  BY DEF Storing, Sessions, Alike
<1>4. Storing(s, m).queued = s.queued /\ Storing(s, m).open = s.open
  BY DEF Storing, Sessions
<1>5. Storing(s, m).asked = s.asked /\ Storing(s, m).taken = s.taken
  BY DEF Storing, Sessions
<1> QED BY <1>1, <1>2, <1>3, <1>4, <1>5

\* The session has its answer, no other one is out of turn.
LEMMA ReadsKeeps ==
    ASSUME NEW o, Turns(o), NEW id \in DOMAIN o.session, Known(o, {id}), o.session[id].queued,
           NEW r, NEW m, Reads(o, r, id, m)
    PROVE  /\ Turns(r) /\ Known(r, {id}) /\ ~r.session[id].queued /\ r.session[id].stored = NoMessage
           /\ Alike(o.session[id], r.session[id]) /\ r.session[id].open = (o.session[id].open /\ ~m.close)
           /\ m.close => id \notin DOMAIN r.server
<1> DEFINE s == o.session[id]
           u == Storing(s, NoMessage)
<1>1. IsClient(o) /\ IsClient(r) /\ DOMAIN r.session = DOMAIN o.session /\ r.server = o.server
  BY DEF Turns, Reads
<1>a. /\ \A x \in DOMAIN o.session : o.session[x] \in Sessions /\ x # 0
      /\ \A i \in DOMAIN o.stream : o.stream[i] \in Messages
  <2>1. o.session \in Seq(Sessions) /\ o.stream \in Seq(Messages)
    BY <1>1, ClientIs
  <2> QED BY <2>1
<1>2. s \in Sessions /\ NoMessage \in Messages /\ m \in Messages
  <2>1. o.session \in Seq(Sessions)
    BY <1>1, ClientIs
  <2> QED BY <2>1 DEF NoMessage, Messages, Reads
<1>3. /\ u \in Sessions /\ u.stored = NoMessage /\ Alike(s, u) /\ u.queued = s.queued /\ u.open = s.open
      /\ u.asked = s.asked /\ u.taken = s.taken
  BY <1>2, StoringIs
<1>4. r.session[id] = GivenAnswer(u, m)
  BY DEF Reads
<1>5. /\ ~r.session[id].queued /\ r.session[id].taken = u.taken + 1 /\ Alike(u, r.session[id])
      /\ r.session[id].open = (u.open /\ ~m.close) /\ r.session[id].stored = u.stored /\ r.session[id].asked = u.asked
  BY <1>2, <1>3, <1>4, GivenAnswerIs, SMTT(30)
<1>6. Waits(o, m) /\ m.id = id
  BY DEF Reads, Pending, InStream, Turns, InTurn, Streamed
<1>7. s.asked = s.taken + 1
  BY DEF Turns, InTurn
<1> HIDE DEF s, u
<1>8. ASSUME NEW x \in DOMAIN o.session, x # id
      PROVE  \/ r.session[x] = o.session[x] /\ (HasAnswer(o, x) => HasAnswer(r, x))
             \/ \E i \in DOMAIN o.stream : o.stream[i].id = x /\ r.session[x] = Storing(o.session[x], o.stream[i])
  BY <1>8 DEF Reads
<1>9. ASSUME NEW j \in DOMAIN r.stream
      PROVE  /\ r.stream[j].id # id /\ r.session[r.stream[j].id] = o.session[r.stream[j].id]
             /\ \E i \in DOMAIN o.stream : r.stream[j] = o.stream[i]
  BY DEF Reads
<1>10. Streamed(r)
  <2> SUFFICES ASSUME NEW j \in DOMAIN r.stream PROVE Waits(r, r.stream[j]) /\ r.session[r.stream[j].id].stored = NoMessage
    BY DEF Streamed
  <2>1. PICK i \in DOMAIN o.stream : r.stream[j] = o.stream[i]
    BY <1>9
  <2>2. Waits(o, r.stream[j]) /\ o.session[r.stream[j].id].stored = NoMessage
    BY <2>1 DEF Turns, Streamed
  <2> QED BY <2>2, <1>1, <1>9 DEF Waits
<1>11. ASSUME NEW x \in DOMAIN o.session PROVE InTurn(r, x)
  <2>1. CASE x = id
    BY <2>1, <1>3, <1>5, <1>7 DEF InTurn, s
  <2>2. CASE x # id
    <3>1. InTurn(o, x)
      BY DEF Turns
    <3>2. CASE r.session[x] = o.session[x] /\ (HasAnswer(o, x) => HasAnswer(r, x))
      <4>1. o.session[x].stored.id = x => (Waits(o, o.session[x].stored) => Waits(r, o.session[x].stored))
        BY <3>2, <1>1 DEF Waits
      <4> QED BY <3>1, <3>2, <4>1 DEF InTurn
    <3>3. ASSUME NEW i \in DOMAIN o.stream, o.stream[i].id = x, r.session[x] = Storing(o.session[x], o.stream[i]) PROVE InTurn(r, x)
      <4>1. o.session[x] \in Sessions /\ o.stream[i] \in Messages
        BY <1>a
      <4>2. Waits(o, o.stream[i])
        BY DEF Turns, Streamed
      <4>3. /\ r.session[x].stored = o.stream[i] /\ r.session[x].queued = o.session[x].queued
            /\ r.session[x].asked = o.session[x].asked /\ r.session[x].taken = o.session[x].taken
        BY <4>1, <3>3, StoringIs
      <4>4. Waits(r, o.stream[i])
        BY <4>2, <4>3, <3>3, <1>1 DEF Waits
      <4>5. HasAnswer(r, x)
        <5>1. o.stream[i].id # NoMessage.id
          BY <1>a, <3>3 DEF NoMessage
        <5> QED BY <5>1, <4>3 DEF HasAnswer
      <4> QED BY <4>3, <4>4, <4>5, <3>1, <3>3 DEF InTurn
    <3> QED BY <3>2, <3>3, <2>2, <1>8
  <2> QED BY <2>1, <2>2
<1>12. Turns(r)
  BY <1>1, <1>10, <1>11 DEF Turns, Reads
<1>13. ASSUME NEW x \in DOMAIN o.session, x # id PROVE Alike(o.session[x], r.session[x]) /\ r.session[x].open = o.session[x].open
  <2>1. CASE r.session[x] = o.session[x]
    BY <2>1 DEF Alike
  <2>2. ASSUME NEW i \in DOMAIN o.stream, r.session[x] = Storing(o.session[x], o.stream[i])
        PROVE  Alike(o.session[x], r.session[x]) /\ r.session[x].open = o.session[x].open
    <3>1. o.session[x] \in Sessions /\ o.stream[i] \in Messages
      BY <1>a
    <3> QED BY <2>2, <3>1, StoringIs
  <2> QED BY <2>1, <2>2, <1>8, <1>13
<1>14. Known(r, {id})
  <2>1. \A j \in DOMAIN r.stream : r.stream[j].id \in {id} \/ r.session[r.stream[j].id].listed
    BY <1>9 DEF Known
  <2>2. \A x \in DOMAIN r.server : x \in DOMAIN r.session /\ (x \in {id} \/ (r.session[x].listed /\ r.session[x].open))
    BY <1>1, <1>13 DEF Known, Alike
  <2>3. \A x \in DOMAIN r.session : x \in {id} \/ (r.session[x].alive => r.session[x].listed)
    BY <1>1, <1>13 DEF Known, Alike
  <2> QED BY <2>1, <2>2, <2>3 DEF Known
<1>15. Alike(s, r.session[id])
  BY <1>3, <1>5 DEF Alike
<1>16. m.close => id \notin DOMAIN r.server
  BY <1>1, <1>6 DEF Waits
<1> QED BY <1>12, <1>14, <1>15, <1>16, <1>3, <1>5 DEF s

\* An answer that was stored is taken.
LEMMA ResponseStored ==
    ASSUME NEW o, Turns(o), NEW id \in DOMAIN o.session, o.session[id].stored # NoMessage
    PROVE  Reads(o, Response(o, id), id, o.session[id].stored)
<1> DEFINE s == o.session[id]
           u == Storing(s, NoMessage)
           m == s.stored
           su == [o.session EXCEPT ![id] = u]
           p == Rec(su, o.stream, o.server, o.thrown)
           se == [su EXCEPT ![id] = GivenAnswer(u, m)]
           r == Response(o, id)
<1>1. /\ IsClient(o) /\ o.session \in Seq(Sessions) /\ o.stream \in Seq(Messages) /\ o.thrown \in BOOLEAN /\ o.idle = TRUE
  <2>1. IsClient(o)
    BY DEF Turns
  <2> QED BY <2>1, ClientIs
<1>2. s \in Sessions /\ NoMessage \in Messages
  BY <1>1 DEF NoMessage, Messages
<1>3. m \in Messages
  BY <1>2 DEF Sessions
<1>4. u \in Sessions /\ u.taken = s.taken /\ GivenAnswer(u, m) \in Sessions
  <2>1. u \in Sessions /\ u.taken = s.taken
    BY <1>2, StoringIs
  <2> HIDE DEF u
  <2> QED BY <2>1, <1>3, GivenAnswerIs
<1>5. m.id = id /\ m.n = s.taken + 1 /\ s.queued
  BY DEF Turns, InTurn, Waits
<1>6. /\ su \in Seq(Sessions) /\ DOMAIN su = DOMAIN o.session /\ su[id] = u
      /\ \A x \in DOMAIN o.session : x # id => su[x] = o.session[x]
  BY <1>1, <1>4, Changed
<1>7. /\ IsClient(p) /\ p.session = su /\ p.stream = o.stream /\ p.server = o.server
  BY <1>1, <1>6, RecIs
<1>8. [o EXCEPT !.session[id].stored = NoMessage] = p
  <2>0. o = Rec(o.session, o.stream, o.server, o.thrown)
    BY <1>1, ClientIs
  <2>1. PICK a, b, c, d : o = Rec(a, b, c, d)
    BY <2>0, Zenon
  <2>2. o.stream = b /\ o.server = c /\ o.thrown = d
    BY <2>1 DEF Rec
  <2>3. [o EXCEPT !.session[id].stored = NoMessage] = [o EXCEPT !.session = su]
    BY <2>1 DEF Rec, Storing
  <2> HIDE DEF su
  <2> DEFINE y == [o EXCEPT !.session = su]
  <2>4. y \in [session : {su}, stream : {b}, server : {c}, idle : {TRUE}, thrown : {d}, lost : {FALSE}]
    BY <2>1 DEF Rec
  <2> HIDE DEF y
  <2>5. y = Rec(su, b, c, d)
    BY <2>4, RecOf
  <2> QED BY <2>2, <2>3, <2>5 DEF y
<1>9. r = Take(p, id, m)
  BY <1>1, <1>8 DEF Response
<1> HIDE DEF r, p, m, su, u, se
<1>10. Take(p, id, m) = Rec([p.session EXCEPT ![id] = GivenAnswer(p.session[id], m)], p.stream, p.server, m.error)
  <2>1. IsClient(p) /\ id \in DOMAIN p.session /\ m \in Messages /\ m.id = id /\ m.n = p.session[id].taken + 1
    BY <1>3, <1>4, <1>5, <1>6, <1>7
  <2> QED BY <2>1, TakeIs
<1>11. r = Rec(se, o.stream, o.server, m.error)
  BY <1>6, <1>7, <1>9, <1>10 DEF se
<1>12. /\ se \in Seq(Sessions) /\ DOMAIN se = DOMAIN o.session /\ se[id] = GivenAnswer(u, m)
       /\ \A x \in DOMAIN o.session : x # id => se[x] = o.session[x]
  <2>1. /\ se \in Seq(Sessions) /\ DOMAIN se = DOMAIN su /\ se[id] = GivenAnswer(u, m)
        /\ \A x \in DOMAIN su : x # id => se[x] = su[x]
    BY <1>4, <1>6, Changed DEF se
  <2> QED BY <2>1, <1>6
<1>13. m.error \in BOOLEAN
  BY <1>3 DEF Messages
<1>14. IsClient(r) /\ r.session = se /\ r.stream = o.stream /\ r.server = o.server /\ r.thrown = m.error
  BY <1>1, <1>11, <1>12, <1>13, RecIs
<1>15. \A i \in DOMAIN o.stream : o.stream[i].id # id
  BY DEF Turns, Streamed
<1>16. \A x \in DOMAIN o.session : x # id => r.session[x] = o.session[x] /\ (HasAnswer(o, x) => HasAnswer(r, x))
  BY <1>12, <1>14 DEF HasAnswer
<1>17. \A j \in DOMAIN r.stream : /\ r.stream[j].id # id
                                  /\ r.session[r.stream[j].id] = o.session[r.stream[j].id]
                                  /\ \E i \in DOMAIN o.stream : r.stream[j] = o.stream[i]
  BY <1>12, <1>14, <1>15 DEF Turns, Streamed, Waits
<1>18. OneEach(r)
  BY <1>14 DEF OneEach, Turns
<1>19. Pending(o, id, m) /\ r.session[id] = GivenAnswer(u, m)
  BY <1>12, <1>14 DEF Pending, m, s
<1>20. Reads(o, r, id, m)
  BY <1>3, <1>12, <1>14, <1>16, <1>17, <1>18, <1>19 DEF Reads, u
<1> QED BY <1>20 DEF r, m

\* The answer is in the stream: the ones before it are stored.
LEMMA ResponseRead ==
    ASSUME NEW o, Turns(o), NEW id \in DOMAIN o.session, Known(o, {id}), o.session[id].queued, o.session[id].stored = NoMessage
    PROVE  \E m : Reads(o, Response(o, id), id, m)
<1> DEFINE s == o.session[id]
           own == {i \in DOMAIN o.stream : o.stream[i].id = id}
           k == Min(own)
           before == SubSeq(o.stream, 1, k - 1)
           Others == {before[i].id : i \in DOMAIN before}
           Of(x) == before[CHOOSE i \in DOMAIN before : before[i].id = x]
           Afterwards(x) == IF x \in Others THEN [o.session[x] EXCEPT !.stored = Of(x)] ELSE o.session[x]
           ws == << >> \o [x \in DOMAIN o.session |-> Afterwards(x)]
           st == SubSeq(o.stream, k + 1, Len(o.stream))
           m == o.stream[k]
           p == Rec(ws, st, o.server, o.thrown)
           se == [ws EXCEPT ![id] = GivenAnswer(s, m)]
           r == Response(o, id)
<1>1. /\ IsClient(o) /\ o.session \in Seq(Sessions) /\ o.stream \in Seq(Messages) /\ o.thrown \in BOOLEAN /\ o.idle = TRUE
  <2>1. IsClient(o)
    BY DEF Turns
  <2> QED BY <2>1, ClientIs
<1>2. /\ \A x \in DOMAIN o.session : o.session[x] \in Sessions
      /\ \A i \in DOMAIN o.stream : o.stream[i] \in Messages
  BY <1>1
<1>3. own # {}
  BY DEF Turns, InTurn, HasAnswer
<1>4. k \in DOMAIN o.stream /\ m.id = id /\ k \in 1..Len(o.stream)
  <2>1. own \in SUBSET Nat
    BY <1>1
  <2> HIDE DEF own
  <2>2. k \in own
    BY <2>1, <1>3, LeastNumber
  <2> QED BY <2>2, <1>1 DEF own
<1>5. m \in Messages /\ m.n = s.taken + 1
  BY <1>2, <1>4 DEF Turns, Streamed, Waits
<1> HIDE DEF k, own
<1>6. /\ before \in Seq(Messages) /\ DOMAIN before = 1..(k - 1)
      /\ \A i \in 1..(k - 1) : i \in DOMAIN o.stream /\ i # k /\ before[i] = o.stream[i]
  BY <1>1, <1>4
<1>7. /\ st \in Seq(Messages) /\ DOMAIN st = 1..(Len(o.stream) - k)
      /\ \A j \in 1..(Len(o.stream) - k) : k + j \in DOMAIN o.stream /\ st[j] = o.stream[k + j] /\ k + j > k
  BY <1>1, <1>4, SMTT(30)
<1> HIDE DEF before, st
<1>8. ASSUME NEW x \in Others
      PROVE  /\ x \in DOMAIN o.session /\ x # id /\ o.session[x].stored = NoMessage /\ o.session[x].listed
             /\ \E i \in 1..(k - 1) : Of(x) = o.stream[i] /\ o.stream[i].id = x
  <2>1. PICK i \in 1..(k - 1) : before[i].id = x
    BY <1>6
  <2>2. i \in DOMAIN o.stream /\ i # k /\ o.stream[i].id = x
    BY <2>1, <1>6
  <2>3. x \in DOMAIN o.session /\ o.session[x].stored = NoMessage /\ x # id
    BY <2>2, <1>4 DEF Turns, Streamed, Waits, OneEach
  <2>4. o.session[x].listed
    BY <2>2, <2>3 DEF Known
  <2>5. DEFINE c == CHOOSE i2 \in DOMAIN before : before[i2].id = x
  <2>6. c \in 1..(k - 1) /\ before[c].id = x
    BY <2>1, <1>6
  <2> HIDE DEF c
  <2>7. Of(x) = o.stream[c] /\ o.stream[c].id = x
    BY <2>6, <1>6 DEF c
  <2> QED BY <2>3, <2>4, <2>6, <2>7
<1>9. \A i, j \in DOMAIN before : before[i].id = before[j].id => i = j
  BY <1>6 DEF Turns, OneEach
<1> HIDE DEF Others, Of
<1>10. ws \in Seq(Sessions) /\ DOMAIN ws = DOMAIN o.session /\ \A x \in DOMAIN o.session : ws[x] = Afterwards(x)
  <2>1. \A x \in DOMAIN o.session : Afterwards(x) \in Sessions
    <3> SUFFICES ASSUME NEW x \in Others PROVE [o.session[x] EXCEPT !.stored = Of(x)] \in Sessions
      BY <1>2
    <3>1. o.session[x] \in Sessions /\ Of(x) \in Messages
      BY <1>2, <1>6, <1>8
    <3> QED BY <3>1, StoringIs DEF Storing
  <2> HIDE DEF Afterwards
  <2>2. [x \in DOMAIN o.session |-> Afterwards(x)] \in Seq(Sessions)
    BY <2>1, <1>1
  <2> QED BY <2>1, <2>2, <1>1
<1> HIDE DEF ws
<1>11. [o EXCEPT !.stream = st, !.session = ws] = p
  <2>0. o = Rec(o.session, o.stream, o.server, o.thrown)
    BY <1>1, ClientIs
  <2>1. PICK a, b, c, d : o = Rec(a, b, c, d)
    BY <2>0, Zenon
  <2>2. o.server = c /\ o.thrown = d
    BY <2>1 DEF Rec
  <2> DEFINE y == [o EXCEPT !.stream = st, !.session = ws]
  <2>4. y \in [session : {ws}, stream : {st}, server : {c}, idle : {TRUE}, thrown : {d}, lost : {FALSE}]
    BY <2>1 DEF Rec
  <2> HIDE DEF y
  <2>5. y = Rec(ws, st, c, d)
    BY <2>4, RecOf
  <2> QED BY <2>2, <2>5 DEF y
<1>12. r = Take(p, id, m)
  <2>1. ~(\E x \in Others : ~o.session[x].listed \/ o.session[x].stored # NoMessage)
    BY <1>8
  <2> QED BY <2>1, <1>1, <1>3, <1>9, <1>11 DEF Response, ws, st, before, Others, Of, k, own
<1> HIDE DEF r, p, m, s, se, Afterwards
<1>13. /\ IsClient(p) /\ p.session = ws /\ p.stream = st /\ p.server = o.server
  BY <1>1, <1>7, <1>10, RecIs DEF p
<1>14. id \notin Others /\ ws[id] = s /\ s \in Sessions
  <2>1. id \notin Others
    BY <1>8
  <2> QED BY <2>1, <1>2, <1>10 DEF Afterwards, s
<1>15. Take(p, id, m) = Rec([p.session EXCEPT ![id] = GivenAnswer(p.session[id], m)], p.stream, p.server, m.error)
  <2>1. IsClient(p) /\ id \in DOMAIN p.session /\ m \in Messages /\ m.id = id /\ m.n = p.session[id].taken + 1
    BY <1>4, <1>5, <1>10, <1>13, <1>14
  <2> QED BY <2>1, TakeIs
<1>16. r = Rec(se, st, o.server, m.error)
  BY <1>12, <1>13, <1>14, <1>15 DEF se
<1>17. /\ se \in Seq(Sessions) /\ DOMAIN se = DOMAIN o.session /\ se[id] = GivenAnswer(s, m)
       /\ \A x \in DOMAIN o.session : x # id => se[x] = Afterwards(x)
  <2>1. GivenAnswer(s, m) \in Sessions
    BY <1>5, <1>14, GivenAnswerIs
  <2>2. /\ se \in Seq(Sessions) /\ DOMAIN se = DOMAIN ws /\ se[id] = GivenAnswer(s, m)
        /\ \A x \in DOMAIN ws : x # id => se[x] = ws[x]
    BY <2>1, <1>10, Changed DEF se
  <2> QED BY <2>2, <1>10
<1>18. m.error \in BOOLEAN
  BY <1>5 DEF Messages
<1>19. IsClient(r) /\ r.session = se /\ r.stream = st /\ r.server = o.server /\ r.thrown = m.error
  BY <1>7, <1>16, <1>17, <1>18, RecIs
<1>20. Storing(s, NoMessage) = s
  BY <1>14 DEF Storing, Sessions, s
<1>21. Pending(o, id, m)
  BY <1>4 DEF Pending, InStream, m
<1>22. ASSUME NEW x \in DOMAIN o.session, x # id
       PROVE  \/ r.session[x] = o.session[x] /\ (HasAnswer(o, x) => HasAnswer(r, x))
              \/ \E i \in DOMAIN o.stream : o.stream[i].id = x /\ r.session[x] = Storing(o.session[x], o.stream[i])
  <2>1. CASE x \in Others
    <3>1. PICK i \in 1..(k - 1) : Of(x) = o.stream[i] /\ o.stream[i].id = x
      BY <2>1, <1>8
    <3>2. i \in DOMAIN o.stream
      BY <1>6
    <3>3. r.session[x] = Storing(o.session[x], o.stream[i])
      BY <2>1, <3>1, <1>17, <1>19, <1>22 DEF Afterwards, Storing
    <3> QED BY <3>1, <3>2, <3>3
  <2>2. CASE x \notin Others
    <3>1. r.session[x] = o.session[x]
      BY <2>2, <1>17, <1>19, <1>22 DEF Afterwards
    <3>2. HasAnswer(o, x) => HasAnswer(r, x)
      <4>1. ASSUME NEW i \in DOMAIN o.stream, o.stream[i].id = x PROVE \E j \in DOMAIN r.stream : r.stream[j].id = x
        <5>1. i \in 1..Len(o.stream)
          BY <1>1
        <5>2. i \notin 1..(k - 1)
          <6>1. ASSUME i \in 1..(k - 1) PROVE FALSE
            BY <6>1, <4>1, <2>2, <1>6 DEF Others
          <6> QED BY <6>1
        <5>3. i # k
          BY <4>1, <1>4, <1>22 DEF m
        <5>4. i - k \in 1..(Len(o.stream) - k) /\ k + (i - k) = i
          BY <5>1, <5>2, <5>3, <1>4
        <5>5. i - k \in DOMAIN st /\ st[i - k] = o.stream[i]
          BY <5>4, <1>7
        <5> QED BY <5>5, <4>1, <1>19
      <4> QED BY <3>1, <4>1 DEF HasAnswer
    <3> QED BY <3>1, <3>2
  <2> QED BY <2>1, <2>2
<1>23. ASSUME NEW j \in DOMAIN r.stream
       PROVE  /\ r.stream[j].id # id
              /\ r.session[r.stream[j].id] = o.session[r.stream[j].id]
              /\ \E i \in DOMAIN o.stream : r.stream[j] = o.stream[i]
  <2>1. j \in 1..(Len(o.stream) - k) /\ k + j \in DOMAIN o.stream /\ r.stream[j] = o.stream[k + j] /\ k + j > k
    BY <1>7, <1>19
  <2>2. k + j # k
    BY <2>1, <1>4
  <2>3. r.stream[j].id # id
    BY <2>1, <2>2, <1>4 DEF Turns, OneEach, m
  <2>4. r.stream[j].id \in DOMAIN o.session
    BY <2>1 DEF Turns, Streamed, Waits
  <2>5. r.stream[j].id \notin Others
    <3>1. ASSUME NEW i \in 1..(k - 1), o.stream[i].id = o.stream[k + j].id PROVE FALSE
      <4>1. i \in DOMAIN o.stream /\ i # k + j
        BY <2>1, <1>4, <1>6
      <4> QED BY <4>1, <2>1, <3>1 DEF Turns, OneEach
    <3> QED BY <3>1, <2>1, <1>6 DEF Others
  <2> QED BY <2>1, <2>3, <2>4, <2>5, <1>17, <1>19 DEF Afterwards
<1>24. OneEach(r)
  <2> SUFFICES ASSUME NEW i \in DOMAIN st, NEW j \in DOMAIN st, st[i].id = st[j].id PROVE i = j
    BY <1>19 DEF OneEach
  <2>1. i \in 1..(Len(o.stream) - k) /\ j \in 1..(Len(o.stream) - k)
    BY <1>7
  <2>2. k + i = k + j
    BY <2>1, <1>7 DEF Turns, OneEach
  <2> QED BY <2>1, <2>2, <1>4
<1>25. DOMAIN r.session = DOMAIN o.session /\ r.session[id] = GivenAnswer(Storing(o.session[id], NoMessage), m)
  BY <1>17, <1>19, <1>20 DEF s
<1>26. Reads(o, r, id, m)
  BY <1>5, <1>19, <1>21, <1>22, <1>23, <1>24, <1>25 DEF Reads
<1> QED BY <1>26 DEF r

\* protocolClientResponseInternal(): what the caller knows then.
Responded(o, r, id) ==
    /\ Turns(r) /\ Known(r, {id}) /\ DOMAIN r.session = DOMAIN o.session /\ r.server = o.server
    /\ ~r.session[id].queued /\ Alike(o.session[id], r.session[id])
    /\ id \in DOMAIN r.server /\ o.session[id].open => r.session[id].open
    /\ (\A m : Pending(o, id, m) => ~m.error) => ~r.thrown
    /\ (\A m : Pending(o, id, m) => m.close) => ~r.session[id].open
\* protocolClientResponseInternal() keeps the turns, whether its answer was stored or is read.
LEMMA ResponseKeeps ==
    ASSUME NEW o, Turns(o), NEW id \in DOMAIN o.session, Known(o, {id}), o.session[id].queued
    PROVE  Responded(o, Response(o, id), id)
<1> DEFINE r == Response(o, id)
<1>1. \E m : Reads(o, r, id, m)
  BY ResponseStored, ResponseRead
<1> HIDE DEF r
<1>2. PICK m : Reads(o, r, id, m)
  BY <1>1
<1>3. /\ Turns(r) /\ Known(r, {id}) /\ ~r.session[id].queued /\ r.session[id].stored = NoMessage
      /\ Alike(o.session[id], r.session[id]) /\ r.session[id].open = (o.session[id].open /\ ~m.close)
      /\ m.close => id \notin DOMAIN r.server
  BY <1>2, ReadsKeeps
<1>4. DOMAIN r.session = DOMAIN o.session /\ r.server = o.server /\ r.thrown = m.error /\ Pending(o, id, m)
  BY <1>2 DEF Reads
<1>5. Responded(o, r, id)
  BY <1>3, <1>4 DEF Responded
<1> QED BY <1>5 DEF r

\* A new session waits for nothing, nor does one that is gone.
LEMMA NewSessionIs ==
    ASSUME NEW command \in Commands, NEW blocks \in Nat
    PROVE  LET s == NewSession(command, blocks)
           IN  /\ s \in Sessions /\ s.command = command /\ ~s.queued /\ s.stored = NoMessage /\ s.asked = 0 /\ s.taken = 0
               /\ ~s.open /\ s.alive /\ s.listed = (command # "call")
<1>1. NoMessage \in Messages
  BY DEF NoMessage, Messages
<1> QED BY <1>1 DEF NewSession, Sessions

\* The object of a session that was freed asks for nothing.
LEMMA GoneIs == /\ Gone \in Sessions /\ ~Gone.queued /\ Gone.stored = NoMessage /\ Gone.asked = 0 /\ Gone.taken = 0 /\ ~Gone.alive
<1> DEFINE s == NewSession(None, 0)
<1>1. /\ s \in Sessions /\ ~s.queued /\ s.stored = NoMessage /\ s.asked = 0 /\ s.taken = 0
  BY NewSessionIs DEF Commands
<1>2. Gone = [s EXCEPT !.listed = FALSE, !.alive = FALSE]
  BY DEF Gone
<1> HIDE DEF s
<1>3. Gone \in Sessions
  BY <1>1, <1>2 DEF Sessions
<1>4. ~Gone.queued
  BY <1>1, <1>2 DEF Sessions
<1>5. Gone.stored = NoMessage
  BY <1>1, <1>2 DEF Sessions
<1>6. Gone.asked = 0
  BY <1>1, <1>2 DEF Sessions
<1>7. Gone.taken = 0
  BY <1>1, <1>2 DEF Sessions
<1>8. ~Gone.alive
  BY <1>1, <1>2 DEF Sessions
<1> QED BY <1>3, <1>4, <1>5, <1>6, <1>7, <1>8

\* A session of a client is changed, but not what it waits for.
IsSet(o, n, id, t) ==
    /\ Turns(n) /\ Known(n, {id}) /\ DOMAIN n.session = DOMAIN o.session /\ n.session[id] = t
    /\ n.server = o.server /\ n.stream = o.stream /\ n.thrown = o.thrown
\* The parts of a session that are not about its answers may change.
LEMMA SetKeeps ==
    ASSUME NEW o, Turns(o), NEW id \in DOMAIN o.session, Known(o, {id}), NEW t \in Sessions,
           t.queued = o.session[id].queued, t.stored = o.session[id].stored,
           t.asked = o.session[id].asked, t.taken = o.session[id].taken
    PROVE  IsSet(o, With(o, id, t), id, t)
<1> DEFINE n == With(o, id, t)
<1>1. IsClient(o)
  BY DEF Turns
<1>2. /\ IsClient(n) /\ DOMAIN n.session = DOMAIN o.session /\ n.session[id] = t
      /\ \A x \in DOMAIN o.session : x # id => n.session[x] = o.session[x]
      /\ n.stream = o.stream /\ n.server = o.server /\ n.thrown = o.thrown
  BY <1>1, WithIs
<1> HIDE DEF n
<1>3. \A m : Waits(o, m) => Waits(n, m)
  BY <1>2 DEF Waits
<1>4. Streamed(n) /\ OneEach(n)
  <2>1. OneEach(n)
    BY <1>2 DEF Turns, OneEach
  <2>2. Streamed(n)
    <3> SUFFICES ASSUME NEW i \in DOMAIN o.stream PROVE Waits(n, o.stream[i]) /\ n.session[o.stream[i].id].stored = NoMessage
      BY <1>2 DEF Streamed
    <3>1. Waits(o, o.stream[i]) /\ o.session[o.stream[i].id].stored = NoMessage
      BY DEF Turns, Streamed
    <3> QED BY <3>1, <1>2, <1>3 DEF Waits
  <2> QED BY <2>1, <2>2
<1>5. ASSUME NEW x \in DOMAIN o.session PROVE InTurn(n, x)
  <2>1. InTurn(o, x)
    BY DEF Turns
  <2>2. /\ n.session[x].queued = o.session[x].queued /\ n.session[x].stored = o.session[x].stored
        /\ n.session[x].asked = o.session[x].asked /\ n.session[x].taken = o.session[x].taken
    BY <1>2
  <2>3. HasAnswer(o, x) => HasAnswer(n, x)
    BY <2>2, <1>2 DEF HasAnswer
  <2> QED BY <2>1, <2>2, <2>3, <1>3 DEF InTurn
<1>6. Turns(n)
  BY <1>2, <1>4, <1>5 DEF Turns
<1>7. Known(n, {id})
  <2>1. \A i \in DOMAIN n.stream : n.stream[i].id \in {id} \/ n.session[n.stream[i].id].listed
    BY <1>2 DEF Known, Turns, Streamed, Waits
  <2> QED BY <2>1, <1>2 DEF Known
<1>8. IsSet(o, n, id, t)
  BY <1>2, <1>6, <1>7 DEF IsSet
<1> QED BY <1>8 DEF n

\* A session that waits for nothing in the stream and has no file open is gone.
LEMMA GoneKeeps ==
    ASSUME NEW o, Turns(o), NEW id \in DOMAIN o.session, Known(o, {id}),
           ~o.session[id].queued \/ o.session[id].stored # NoMessage, id \notin DOMAIN o.server
    PROVE  ClientInv(With(o, id, Gone))
<1> DEFINE n == With(o, id, Gone)
<1>0. /\ Gone \in Sessions /\ ~Gone.queued /\ Gone.stored = NoMessage /\ Gone.asked = 0 /\ Gone.taken = 0 /\ ~Gone.alive
  BY GoneIs
<1>1. IsClient(o)
  BY DEF Turns
<1> HIDE DEF n
<1>2. /\ IsClient(n) /\ DOMAIN n.session = DOMAIN o.session /\ n.session[id] = Gone
      /\ \A x \in DOMAIN o.session : x # id => n.session[x] = o.session[x]
      /\ n.stream = o.stream /\ n.server = o.server /\ n.thrown = o.thrown
  BY <1>0, <1>1, WithIs DEF n
<1>3. \A i \in DOMAIN o.stream : o.stream[i].id # id
  BY DEF Turns, Streamed, Waits
<1>4. \A m : m.id # id => (Waits(o, m) => Waits(n, m))
  BY <1>2 DEF Waits
<1>5. Streamed(n)
  BY <1>2, <1>3, <1>4 DEF Turns, Streamed, Waits
<1>6. OneEach(n)
  BY <1>2 DEF Turns, OneEach
<1>7. ASSUME NEW x \in DOMAIN o.session PROVE InTurn(n, x)
  <2>1. CASE x = id
    BY <2>1, <1>0, <1>2 DEF InTurn
  <2>2. CASE x # id
    <3>1. InTurn(o, x) /\ n.session[x] = o.session[x]
      BY <2>2, <1>2 DEF Turns
    <3>2. HasAnswer(o, x) => HasAnswer(n, x)
      BY <3>1, <1>2 DEF HasAnswer
    <3> QED BY <3>1, <3>2, <2>2, <1>4 DEF InTurn
  <2> QED BY <2>1, <2>2
<1>8. Turns(n)
  BY <1>2, <1>5, <1>6, <1>7 DEF Turns
<1>9. Known(n, {})
  <2>1. \A i \in DOMAIN n.stream : n.session[n.stream[i].id].listed
    BY <1>2, <1>3 DEF Known, Turns, Streamed, Waits
  <2>2. \A x \in DOMAIN n.server : x \in DOMAIN n.session /\ n.session[x].listed /\ n.session[x].open
    BY <1>2 DEF Known
  <2>3. \A x \in DOMAIN n.session : n.session[x].alive => n.session[x].listed
    BY <1>0, <1>2 DEF Known
  <2> QED BY <2>1, <2>2, <2>3 DEF Known
<1> QED BY <1>8, <1>9 DEF ClientInv, n

\* A session that is on the list and open while the server has its file is settled.
Lively(o, id) == o.session[id].listed /\ (id \in DOMAIN o.server => o.session[id].open)
\* A client all of whose sessions are settled has the invariant.
LEMMA Settles ==
    ASSUME NEW o, Turns(o), NEW id \in DOMAIN o.session, Known(o, {id}), Lively(o, id)
    PROVE  ClientInv(o)
BY DEF ClientInv, Known, Lively

\* A session of a client may be worked on, and is settled while its owner has it.
LEMMA Unsettles ==
    ASSUME NEW o, ClientInv(o), NEW id \in DOMAIN o.session
    PROVE  Turns(o) /\ Known(o, {id}) /\ (o.session[id].alive => Lively(o, id))
BY DEF ClientInv, Known, Lively

\* A part of a session is set.
LEMMA Part ==
    ASSUME NEW o, IsClient(o), NEW id \in DOMAIN o.session
    PROVE  /\ [o EXCEPT !.session[id].open = TRUE] = With(o, id, [o.session[id] EXCEPT !.open = TRUE])
           /\ [o EXCEPT !.session[id].listed = FALSE] = With(o, id, [o.session[id] EXCEPT !.listed = FALSE])
           /\ [o EXCEPT !.session[id].alive = FALSE] = With(o, id, [o.session[id] EXCEPT !.alive = FALSE])
           /\ [o EXCEPT !.session[id].stored = Freed] = With(o, id, [o.session[id] EXCEPT !.stored = Freed])
<1>0. o = Rec(o.session, o.stream, o.server, o.thrown)
  BY ClientIs
<1>1. PICK a, b, c, d : o = Rec(a, b, c, d)
  BY <1>0, Zenon
<1> QED BY <1>1 DEF Rec, With

\* The other parts stay as they were.
LEMMA PartIs ==
    ASSUME NEW s \in Sessions, NEW v \in BOOLEAN
    PROVE  /\ LET t == [s EXCEPT !.open = v]
              IN  t \in Sessions /\ t.open = v /\ t.listed = s.listed /\ t.alive = s.alive /\ t.queued = s.queued
                  /\ t.stored = s.stored /\ t.asked = s.asked /\ t.taken = s.taken
           /\ LET t == [s EXCEPT !.listed = v]
              IN  t \in Sessions /\ t.listed = v /\ t.open = s.open /\ t.alive = s.alive /\ t.queued = s.queued
                  /\ t.stored = s.stored /\ t.asked = s.asked /\ t.taken = s.taken
           /\ LET t == [s EXCEPT !.alive = v]
              IN  t \in Sessions /\ t.alive = v /\ t.listed = s.listed /\ t.open = s.open /\ t.queued = s.queued
                  /\ t.stored = s.stored /\ t.asked = s.asked /\ t.taken = s.taken
BY DEF Sessions

\* The rest of protocolClientSessionFreeResource(), and protocolClientSessionFree().
CancelledRest(r, id) == IF r.session[id].open THEN Response(Request(r, id, "cancel", FALSE), id) ELSE r
UnlistedRest(r, id) == Then(r, [r EXCEPT !.session[id].listed = FALSE])
FreeRest(r, id) == FreedOrLeft(Then(r, UnlistedRest(CancelledRest(r, id), id)), id)
\* The session is cancelled, taken off the list and gone.
LEMMA FreeRestKeeps ==
    ASSUME NEW o, Turns(o), NEW id \in DOMAIN o.session, Known(o, {id}), ~o.session[id].queued, o.thrown = FALSE,
           id \in DOMAIN o.server => o.session[id].open
    PROVE  ClientInv(FreeRest(o, id))
<1> DEFINE c == CancelledRest(o, id)
           l == [c.session[id] EXCEPT !.listed = FALSE]
           u == With(c, id, l)
<1>1. /\ Turns(c) /\ id \in DOMAIN c.session /\ Known(c, {id}) /\ ~c.session[id].queued /\ c.thrown = FALSE
      /\ id \notin DOMAIN c.server
  <2>1. CASE ~o.session[id].open
    BY <2>1 DEF CancelledRest
  <2>2. CASE o.session[id].open
    <3> DEFINE q == Request(o, id, "cancel", FALSE)
               r == Response(q, id)
    <3>1. /\ Turns(q) /\ Known(q, {id}) /\ DOMAIN q.session = DOMAIN o.session
          /\ q.session[id] = Queued(o.session[id]) /\ q.session[id].stored = NoMessage
          /\ id \notin DOMAIN q.server /\ \A m : InStream(q, id, m) => m.close /\ ~m.error
      <4>1. "cancel" \in {"open", "process", "close", "cancel"} /\ FALSE \in BOOLEAN /\ "cancel" # "open" /\ "cancel" # "process"
        OBVIOUS
      <4>2. Requested(o, q, id, "cancel")
        BY <4>1, RequestKeeps
      <4> HIDE DEF q
      <4> QED BY <4>2 DEF Requested
    <3>2. q.session[id].queued
      <4>1. o.session[id] \in Sessions
        BY DEF Turns, IsClient
      <4> QED BY <4>1, <3>1, QueuedIs
    <3>3. \A m : Pending(q, id, m) => ~m.error
      BY <3>1 DEF Pending
    <3> HIDE DEF q
    <3>4. /\ Turns(r) /\ Known(r, {id}) /\ DOMAIN r.session = DOMAIN q.session /\ r.server = q.server
          /\ ~r.session[id].queued /\ ~r.thrown
      <4>1. Responded(q, r, id)
        BY <3>1, <3>2, ResponseKeeps
      <4> HIDE DEF r
      <4> QED BY <4>1, <3>3 DEF Responded
    <3>5. r.thrown \in BOOLEAN
      BY <3>4 DEF Turns, IsClient
    <3>6. c = r
      BY <2>2 DEF CancelledRest, q
    <3> HIDE DEF r, c
    <3> QED BY <3>1, <3>4, <3>5, <3>6
  <2> QED BY <2>1, <2>2
<1> HIDE DEF c
<1>2. IsClient(c) /\ c.session[id] \in Sessions
  BY <1>1 DEF Turns, IsClient
<1>3. /\ l \in Sessions /\ l.listed = FALSE /\ l.queued = c.session[id].queued /\ l.stored = c.session[id].stored
      /\ l.asked = c.session[id].asked /\ l.taken = c.session[id].taken
  BY <1>2, PartIs
<1>4. /\ Turns(u) /\ Known(u, {id}) /\ DOMAIN u.session = DOMAIN c.session /\ u.session[id] = l /\ u.server = c.server
  <2> HIDE DEF l
  <2>1. IsSet(c, u, id, l)
    BY <1>1, <1>3, SetKeeps
  <2> HIDE DEF u
  <2> QED BY <2>1 DEF IsSet
<1>5. ClientInv(With(u, id, Gone))
  <2> HIDE DEF u, l
  <2> QED BY <1>1, <1>3, <1>4, GoneKeeps
<1>6. UnlistedRest(c, id) = u
  <2>1. [c EXCEPT !.session[id].listed = FALSE] = With(c, id, [c.session[id] EXCEPT !.listed = FALSE])
    BY <1>1, <1>2, Part
  <2> QED BY <2>1, <1>1 DEF UnlistedRest, Then
<1>7. FreeRest(o, id) = FreedOrLeft(u, id)
  BY <1>6 DEF FreeRest, Then, c
<1>8. FreedOrLeft(u, id) = With(u, id, Gone)
  <2> HIDE DEF u, l
  <2> QED BY <1>3, <1>4 DEF FreedOrLeft, With
<1> QED BY <1>5, <1>7, <1>8

\* protocolClientSessionFree() of a session that waits for nothing.
LEMMA FreeKeeps ==
    ASSUME NEW o, Turns(o), NEW id \in DOMAIN o.session, Known(o, {id}), ~o.session[id].queued, o.thrown = FALSE,
           id \in DOMAIN o.server => o.session[id].open
    PROVE  ClientInv(Free(o, id))
<1>1. Free(o, id) = FreeRest(o, id)
  BY DEF Free, FreeResource, FreeRest, UnlistedRest, CancelledRest
<1> QED BY <1>1, FreeRestKeeps

\* A client whose error was reported.
LEMMA FreshKeeps ==
    ASSUME NEW o, Turns(o)
    PROVE  /\ Turns(Fresh(o)) /\ \A E : Known(o, E) => Known(Fresh(o), E)
           /\ Fresh(o).session = o.session /\ Fresh(o).stream = o.stream /\ Fresh(o).server = o.server /\ Fresh(o).thrown = FALSE
<1> DEFINE p == Fresh(o)
<1>0. IsClient(o) /\ o = Rec(o.session, o.stream, o.server, o.thrown) /\ o.session \in Seq(Sessions) /\ o.stream \in Seq(Messages)
  <2>1. IsClient(o)
    BY DEF Turns
  <2> QED BY <2>1, ClientIs
<1>1. PICK a, b, c, d : o = Rec(a, b, c, d)
  BY <1>0, Zenon
<1>2. a = o.session /\ b = o.stream /\ c = o.server
  BY <1>1 DEF Rec
<1>3. p = Rec(a, b, c, FALSE)
  <2>1. p \in [session : {a}, stream : {b}, server : {c}, idle : {TRUE}, thrown : {FALSE}, lost : {FALSE}]
    BY <1>1 DEF Rec, Fresh
  <2> HIDE DEF p
  <2> QED BY <2>1, RecOf
<1> HIDE DEF p
<1>4. /\ IsClient(p) /\ p.session = o.session /\ p.stream = o.stream /\ p.server = o.server /\ p.thrown = FALSE
  BY <1>0, <1>2, <1>3 DEF Rec, IsClient
<1>5. \A m : Waits(p, m) = Waits(o, m)
  BY <1>4 DEF Waits
<1>6. \A x : HasAnswer(p, x) = HasAnswer(o, x)
  BY <1>4 DEF HasAnswer
<1>7. \A x \in DOMAIN o.session : InTurn(p, x)
  BY <1>4, <1>5, <1>6 DEF Turns, InTurn
<1>8. Turns(p)
  BY <1>4, <1>5, <1>7 DEF Turns, Streamed, OneEach
<1>9. \A E : Known(o, E) => Known(p, E)
  BY <1>4 DEF Known
<1> QED BY <1>4, <1>8, <1>9 DEF p

\* A new session is the last one, and the server knows nothing of it.
Began(o, command, blocks) == [Fresh(o) EXCEPT !.session = Append(@, NewSession(command, blocks))]
HasBegun(c, n, s) ==
    /\ Turns(c) /\ n \in DOMAIN c.session /\ Known(c, {n}) /\ c.session[n] = s
    /\ n \notin DOMAIN c.server /\ c.thrown = FALSE
\* protocolClientSessionNew() adds nothing that waits for an answer.
LEMMA BeginKeeps ==
    ASSUME NEW o, ClientInv(o), NEW command \in Commands, NEW blocks \in Nat
    PROVE  HasBegun(Began(o, command, blocks), Len(o.session) + 1, NewSession(command, blocks))
<1> DEFINE f == Fresh(o)
           s == NewSession(command, blocks)
           se == Append(o.session, s)
           c == Began(o, command, blocks)
           n == Len(o.session) + 1
<1>1. Turns(o) /\ Known(o, {})
  BY DEF ClientInv
<1>2. /\ Turns(f) /\ Known(f, {}) /\ f.session = o.session /\ f.stream = o.stream /\ f.server = o.server /\ f.thrown = FALSE
  BY <1>1, FreshKeeps
<1>3. /\ IsClient(f) /\ f = Rec(f.session, f.stream, f.server, f.thrown) /\ f.session \in Seq(Sessions)
      /\ f.stream \in Seq(Messages)
  <2>1. IsClient(f)
    BY <1>2 DEF Turns
  <2> HIDE DEF f
  <2> QED BY <2>1, ClientIs
<1>4. /\ s \in Sessions /\ ~s.queued /\ s.stored = NoMessage /\ s.asked = 0 /\ s.taken = 0
  BY NewSessionIs
<1> HIDE DEF s, f
<1>5. /\ se \in Seq(Sessions) /\ DOMAIN se = DOMAIN o.session \cup {n} /\ se[n] = s /\ n \notin DOMAIN o.session
      /\ \A x \in DOMAIN o.session : se[x] = o.session[x]
  BY <1>2, <1>3, <1>4
<1> HIDE DEF se, n
<1>6. c = Rec(se, o.stream, o.server, FALSE)
  <2>0. f = Rec(o.session, o.stream, o.server, FALSE)
    BY <1>2, <1>3
  <2>1. PICK a, b, e : f = Rec(a, b, e, FALSE) /\ a = o.session /\ b = o.stream /\ e = o.server
    BY <2>0, Zenon
  <2>2. c = [f EXCEPT !.session = se]
    BY <2>1 DEF Began, f, se, s, Rec
  <2>3. [f EXCEPT !.session = se] = Rec(se, b, e, FALSE)
    <3> DEFINE y == [f EXCEPT !.session = se]
    <3>1. y \in [session : {se}, stream : {b}, server : {e}, idle : {TRUE}, thrown : {FALSE}, lost : {FALSE}]
      BY <2>1 DEF Rec
    <3> HIDE DEF y
    <3>2. y = Rec(se, b, e, FALSE)
      BY <3>1, RecOf
    <3> QED BY <3>2 DEF y
  <2> QED BY <2>1, <2>2, <2>3
<1> HIDE DEF c
<1>7. /\ IsClient(c) /\ c.session = se /\ c.stream = o.stream /\ c.server = o.server /\ c.thrown = FALSE
  BY <1>2, <1>3, <1>5, <1>6 DEF Rec, IsClient
<1>8. \A m : Waits(o, m) => Waits(c, m)
  BY <1>5, <1>7 DEF Waits
<1>9. Streamed(c)
  BY <1>1, <1>5, <1>7, <1>8 DEF Turns, Streamed, Waits
<1>10. ASSUME NEW x \in DOMAIN se PROVE InTurn(c, x)
  <2>1. CASE x = n
    BY <2>1, <1>4, <1>5, <1>7 DEF InTurn
  <2>2. CASE x \in DOMAIN o.session
    <3>1. InTurn(o, x) /\ se[x] = o.session[x]
      BY <2>2, <1>1, <1>5 DEF Turns
    <3>2. HasAnswer(o, x) => HasAnswer(c, x)
      BY <3>1, <1>7 DEF HasAnswer
    <3> QED BY <3>1, <3>2, <1>7, <1>8 DEF InTurn
  <2> QED BY <2>1, <2>2, <1>5
<1>11. Turns(c)
  BY <1>1, <1>7, <1>9, <1>10 DEF Turns, OneEach
<1>12. Known(c, {n}) /\ n \notin DOMAIN c.server
  <2>1. \A i \in DOMAIN c.stream : c.stream[i].id \in {n} \/ c.session[c.stream[i].id].listed
    BY <1>1, <1>5, <1>7 DEF Known, Turns, Streamed, Waits
  <2> QED BY <2>1, <1>1, <1>5, <1>7 DEF Known
<1>13. HasBegun(c, n, s)
  BY <1>5, <1>7, <1>11, <1>12 DEF HasBegun
<1> QED BY <1>13 DEF c, n, s

\* What was set last is what is left.
LEMMA WithTwice ==
    ASSUME NEW o, IsClient(o), NEW id \in DOMAIN o.session, NEW s, NEW t
    PROVE  With(With(o, id, s), id, t) = With(o, id, t)
<1>0. o = Rec(o.session, o.stream, o.server, o.thrown)
  BY ClientIs
<1>1. PICK a, b, c, d : o = Rec(a, b, c, d)
  BY <1>0, Zenon
<1> QED BY <1>1 DEF Rec, With

\* protocolClientSessionFree() of any session that its owner has, but not of an
\* open one whose answer is stored.
LEMMA SessionFreeKeeps ==
    ASSUME NEW o, ClientInv(o), NEW id \in DOMAIN o.session, o.session[id].alive, o.thrown = FALSE,
           o.session[id].stored # NoMessage => ~o.session[id].open
    PROVE  ClientInv(Free(o, id))
<1> DEFINE s == o.session[id]
<1>1. Turns(o) /\ Known(o, {id}) /\ Lively(o, id)
  BY Unsettles
<1>2. IsClient(o) /\ s \in Sessions
  BY <1>1 DEF Turns, IsClient
<1>3. CASE ~s.queued
  BY <1>1, <1>3, FreeKeeps DEF Lively
<1>4. CASE s.queued /\ s.stored # NoMessage
  <2> DEFINE t == [s EXCEPT !.stored = Freed]
             p == With(o, id, t)
             l == [t EXCEPT !.listed = FALSE]
             u == With(p, id, l)
  <2>1. Freed \in Messages
    <3>1. NoMessage \in Messages /\ -1 \in Int
      BY <1>2, GoneIs DEF NoMessage, Messages
    <3> QED BY <3>1 DEF Freed, Messages
  <2>2. t \in Sessions /\ t.open = s.open /\ l \in Sessions /\ l.listed = FALSE
    <3>1. t \in Sessions
      BY <1>2, <2>1 DEF Sessions
    <3>2. t.open = s.open
      BY <1>2, <2>1 DEF Sessions
    <3> HIDE DEF t
    <3> QED BY <3>1, <3>2, PartIs
  <2> HIDE DEF t, l
  <2>3. IsClient(p) /\ id \in DOMAIN p.session /\ p.session[id] = t /\ p.thrown = FALSE
    BY <1>2, <2>2, WithIs
  <2>4. [o EXCEPT !.session[id].stored = Freed] = p
    BY <1>2, Part DEF t
  <2> HIDE DEF p
  <2>5. [p EXCEPT !.session[id].listed = FALSE] = u
    <3>1. [p EXCEPT !.session[id].listed = FALSE] = With(p, id, [p.session[id] EXCEPT !.listed = FALSE])
      BY <2>3, Part, ZenonT(40)
    <3> QED BY <3>1, <2>3 DEF l
  <2>6. IsClient(u) /\ id \in DOMAIN u.session /\ u.session[id] = l
    BY <2>2, <2>3, WithIs
  <2> HIDE DEF u
  <2>7. FreeResource(o, id) = u
    BY <1>4, <2>2, <2>3, <2>4, <2>5 DEF FreeResource, Then
  <2>8. Free(o, id) = With(u, id, Gone)
    BY <2>2, <2>6, <2>7 DEF Free, FreedOrLeft, With
  <2>9. With(u, id, Gone) = With(o, id, Gone)
    <3>1. With(u, id, Gone) = With(p, id, Gone)
      BY <2>3, WithTwice DEF u
    <3>2. With(p, id, Gone) = With(o, id, Gone)
      BY <1>2, WithTwice DEF p
    <3> QED BY <3>1, <3>2
  <2>10. ClientInv(With(o, id, Gone))
    BY <1>1, <1>4, GoneKeeps DEF Lively
  <2> QED BY <2>8, <2>9, <2>10
<1>5. CASE s.queued /\ s.stored = NoMessage
  <2> DEFINE r == Response(o, id)
  <2>1. Responded(o, r, id)
    BY <1>1, <1>5, ResponseKeeps
  <2> HIDE DEF r
  <2>2. /\ Turns(r) /\ Known(r, {id}) /\ DOMAIN r.session = DOMAIN o.session /\ r.server = o.server
        /\ ~r.session[id].queued /\ r.session[id].listed /\ (id \in DOMAIN r.server => r.session[id].open)
    BY <2>1, <1>1 DEF Responded, Lively, Alike
  <2>3. IsClient(r) /\ r.session[id] \in Sessions
    BY <2>2 DEF Turns, IsClient
  <2>4. CASE r.thrown
    <3> DEFINE t == [r.session[id] EXCEPT !.alive = FALSE]
               p == With(r, id, t)
    <3>1. Free(o, id) = p
      <4>1. Free(o, id) = [r EXCEPT !.session[id].alive = FALSE]
        BY <1>5, <2>2, <2>4 DEF Free, FreeResource, FreedOrLeft, Then, r
      <4>2. [r EXCEPT !.session[id].alive = FALSE] = With(r, id, [r.session[id] EXCEPT !.alive = FALSE])
        <5>1. id \in DOMAIN r.session
          BY <2>2
        <5> QED BY <5>1, <2>3, Part
      <4> QED BY <4>1, <4>2, SMTT(30)
    <3>2. /\ t \in Sessions /\ t.listed = r.session[id].listed /\ t.open = r.session[id].open
          /\ t.queued = r.session[id].queued /\ t.stored = r.session[id].stored
          /\ t.asked = r.session[id].asked /\ t.taken = r.session[id].taken
      BY <2>3, PartIs
    <3> HIDE DEF t
    <3>3. /\ Turns(p) /\ Known(p, {id}) /\ DOMAIN p.session = DOMAIN r.session /\ p.session[id] = t
          /\ p.server = r.server
      <4>1. Turns(r) /\ Known(r, {id}) /\ id \in DOMAIN r.session
        BY <2>2
      <4>2. IsSet(r, p, id, t)
        BY <4>1, <3>2, SetKeeps
      <4> HIDE DEF p
      <4> QED BY <4>2 DEF IsSet
    <3> HIDE DEF p
    <3>4. Lively(p, id)
      BY <2>2, <3>2, <3>3 DEF Lively
    <3>5. ClientInv(p)
      BY <2>2, <3>3, <3>4, Settles
    <3> QED BY <3>1, <3>5
  <2>5. CASE ~r.thrown
    <3>1. r.thrown = FALSE
      BY <2>3, <2>5 DEF IsClient
    <3>2. Free(o, id) = FreeRest(r, id)
      BY <1>5 DEF Free, FreeResource, FreeRest, UnlistedRest, CancelledRest, r
    <3>3. ClientInv(FreeRest(r, id))
      BY <2>2, <3>1, FreeRestKeeps
    <3> QED BY <3>2, <3>3
  <2> QED BY <2>4, <2>5
<1> QED BY <1>3, <1>4, <1>5

\* A session that a call is working on, which will be listed and open for its file.
Working(o, id) == Turns(o) /\ id \in DOMAIN o.session /\ Known(o, {id}) /\ Lively(o, id)
Worked(o, r, id) == Working(r, id) /\ Alike(o.session[id], r.session[id])

\* What one call of a session does to its client leaves the other calls in turn.
LEMMA WorkSettles ==
    ASSUME NEW o, NEW id, Working(o, id)
    PROVE  ClientInv(o)
BY Settles DEF Working

\* A call begins with a session its owner still has.
LEMMA WorkStarts ==
    ASSUME NEW o, ClientInv(o), NEW id \in DOMAIN o.session, o.session[id].alive
    PROVE  Working(Fresh(o), id) /\ Fresh(o).session = o.session
<1>1. Turns(o) /\ Known(o, {id}) /\ Lively(o, id)
  BY Unsettles
<1> DEFINE f == Fresh(o)
<1>2. /\ Turns(f) /\ Known(f, {id}) /\ f.session = o.session /\ f.server = o.server
  BY <1>1, FreshKeeps
<1> HIDE DEF f
<1>3. Working(f, id) /\ f.session = o.session
  BY <1>1, <1>2 DEF Working, Lively
<1> QED BY <1>3 DEF f

\* A request of a call.
LEMMA WorkRequest ==
    ASSUME NEW o, NEW id, Working(o, id), ~o.session[id].queued, NEW type \in {"process", "close"}, NEW fails \in BOOLEAN,
           type = "process" => o.session[id].command # "read" \/ o.session[id].open
    PROVE  LET q == Request(o, id, type, fails)
           IN  Worked(o, q, id) /\ q.session[id].queued /\ q.session[id].open = o.session[id].open
<1> DEFINE q == Request(o, id, type, fails)
<1>1. Turns(o) /\ id \in DOMAIN o.session /\ Known(o, {id}) /\ Lively(o, id) /\ type # "open" /\ type \in {"open", "process", "close", "cancel"}
  BY DEF Working
<1>2. Requested(o, q, id, type)
  BY <1>1, RequestKeeps
<1>3. o.session[id] \in Sessions
  BY <1>1 DEF Turns, IsClient
<1>4. /\ Queued(o.session[id]).queued /\ Alike(o.session[id], Queued(o.session[id]))
      /\ Queued(o.session[id]).open = o.session[id].open
  BY <1>3, QueuedIs
<1> HIDE DEF q
<1>5. Worked(o, q, id) /\ q.session[id].queued /\ q.session[id].open = o.session[id].open
  BY <1>1, <1>2, <1>4 DEF Requested, Worked, Working, Lively, Alike
<1> QED BY <1>5 DEF q

\* An answer that a call waits for.
LEMMA WorkResponse ==
    ASSUME NEW o, NEW id, Working(o, id), o.session[id].queued
    PROVE  LET r == Response(o, id)
           IN  Worked(o, r, id) /\ ~r.session[id].queued
<1> DEFINE r == Response(o, id)
<1>1. Turns(o) /\ id \in DOMAIN o.session /\ Known(o, {id}) /\ Lively(o, id)
  BY DEF Working
<1>2. Responded(o, r, id)
  BY <1>1, ResponseKeeps
<1> HIDE DEF r
<1>3. Worked(o, r, id) /\ ~r.session[id].queued
  BY <1>1, <1>2 DEF Responded, Worked, Working, Lively, Alike
<1> QED BY <1>3 DEF r

\* A call that ends with the session.
LEMMA WorkFree ==
    ASSUME NEW o, NEW id, Working(o, id), ~o.session[id].queued, o.thrown = FALSE
    PROVE  ClientInv(Free(o, id))
BY FreeKeeps DEF Working, Lively

\* Connect: a new client has no session.
LEMMA ConnectKeeps == ClientInv(NewClient)
BY DEF NewClient, ClientInv, Turns, Known, IsClient, Streamed, OneEach

\* FileOpen
LEMMA OpenKeeps ==
    ASSUME NEW o, ClientInv(o), NEW command \in {"read", "write"}, NEW blocks \in Nat, NEW fails \in BOOLEAN
    PROVE  ClientInv(Open(Began(o, command, blocks), Len(o.session) + 1, fails))
<1> DEFINE s == NewSession(command, blocks)
           c == Began(o, command, blocks)
           n == Len(o.session) + 1
           q == Request(c, n, "open", fails)
           t == [q.session[n] EXCEPT !.open = TRUE]
           p == With(q, n, t)
           r == Response(p, n)
<1>1. HasBegun(c, n, s)
  <2>1. command \in Commands
    BY DEF Commands
  <2> QED BY <2>1, BeginKeeps
<1>2. ~s.queued /\ s.listed
  <2>1. command \in Commands /\ command # "call"
    BY DEF Commands
  <2> QED BY <2>1, NewSessionIs
<1> HIDE DEF c, n, s
<1>3. Turns(c) /\ n \in DOMAIN c.session /\ Known(c, {n}) /\ c.session[n] = s /\ n \notin DOMAIN c.server
  BY <1>1 DEF HasBegun
<1>4. Requested(c, q, n, "open")
  <2>1. "open" \in {"open", "process", "close", "cancel"} /\ "open" # "process"
    OBVIOUS
  <2> QED BY <1>2, <1>3, <2>1, RequestKeeps
<1> HIDE DEF q
<1>5. Turns(q) /\ n \in DOMAIN q.session /\ Known(q, {n}) /\ q.session[n] = Queued(s)
  BY <1>3, <1>4 DEF Requested
<1>6. IsClient(q) /\ q.session[n] \in Sessions /\ s \in Sessions
  BY <1>3, <1>5 DEF Turns, IsClient
<1>7. Queued(s).queued /\ Queued(s).listed
  BY <1>2, <1>6, QueuedIs DEF Alike
<1>8. /\ t \in Sessions /\ t.open /\ t.listed = q.session[n].listed /\ t.queued = q.session[n].queued
      /\ t.stored = q.session[n].stored /\ t.asked = q.session[n].asked /\ t.taken = q.session[n].taken
  BY <1>6, PartIs
<1>9. [q EXCEPT !.session[n].open = TRUE] = p
  BY <1>5, <1>6, Part, ZenonT(40)
<1> HIDE DEF t
<1>10. IsSet(q, p, n, t)
  BY <1>5, <1>8, SetKeeps
<1> HIDE DEF p
<1>11. Turns(p) /\ n \in DOMAIN p.session /\ Known(p, {n}) /\ p.session[n] = t
  BY <1>5, <1>10 DEF IsSet
<1>12. p.session[n].queued /\ p.session[n].open /\ p.session[n].listed
  BY <1>5, <1>7, <1>8, <1>11
<1>13. Responded(p, r, n)
  BY <1>11, <1>12, ResponseKeeps
<1> HIDE DEF r
<1>14. Turns(r) /\ n \in DOMAIN r.session /\ Known(r, {n}) /\ Lively(r, n)
  BY <1>11, <1>12, <1>13 DEF Responded, Lively, Alike
<1>15. ClientInv(r)
  BY <1>14, Settles
<1>16. Open(c, n, fails) = r
  BY <1>9 DEF Open, r, q
<1> QED BY <1>15, <1>16 DEF c, n

\* ReadBlock
ReadNext(o, id, fails) ==
    LET asked == IF o.session[id].queued THEN o ELSE Request(o, id, "process", fails)
        r == Response(asked, id)
    IN  Then(r, IF r.session[id].open THEN Request(r, id, "process", fails) ELSE r)
\* The next block is asked for before this one is used.
LEMMA ReadKeeps ==
    ASSUME NEW o, NEW id, Working(o, id), o.session[id].open, NEW fails \in BOOLEAN
    PROVE  ClientInv(ReadNext(o, id, fails))
<1> DEFINE a == IF o.session[id].queued THEN o ELSE Request(o, id, "process", fails)
           r == Response(a, id)
           q == Request(r, id, "process", fails)
<1>0. "process" \in {"process", "close"}
  OBVIOUS
<1>1. Working(a, id) /\ a.session[id].queued
  <2>1. CASE o.session[id].queued
    BY <2>1
  <2>2. CASE ~o.session[id].queued
    <3> DEFINE b == Request(o, id, "process", fails)
    <3>1. Worked(o, b, id) /\ b.session[id].queued
      BY <1>0, <2>2, WorkRequest
    <3> HIDE DEF b
    <3>2. Working(b, id) /\ b.session[id].queued
      BY <3>1 DEF Worked
    <3> QED BY <3>2, <2>2 DEF b
  <2> QED BY <2>1, <2>2
<1> HIDE DEF a
<1>2. Working(r, id) /\ ~r.session[id].queued
  <2>1. Worked(a, r, id) /\ ~r.session[id].queued
    BY <1>1, WorkResponse
  <2> QED BY <2>1 DEF Worked
<1> HIDE DEF r
<1>3. ClientInv(r)
  BY <1>2, WorkSettles
<1>4. ASSUME r.session[id].open PROVE ClientInv(q)
  <2>1. Worked(r, q, id)
    BY <1>0, <1>2, <1>4, WorkRequest
  <2> HIDE DEF q
  <2> QED BY <2>1, WorkSettles DEF Worked
<1> HIDE DEF q
<1>5. ReadNext(o, id, fails) = Then(r, IF r.session[id].open THEN q ELSE r)
  BY DEF ReadNext, a, r, q
<1> QED BY <1>3, <1>4, <1>5 DEF Then

\* WriteBlock, WriteClose
LEMMA WaitedKeeps ==
    ASSUME NEW o, NEW id, Working(o, id)
    PROVE  Worked(o, Waited(o, id), id) /\ ~Waited(o, id).session[id].queued
<1>1. CASE ~o.session[id].queued
  BY <1>1 DEF Waited, Worked, Alike
<1>2. CASE o.session[id].queued
  <2>1. Waited(o, id) = Response(o, id)
    BY <1>2 DEF Waited
  <2> DEFINE r == Response(o, id)
  <2>2. Worked(o, r, id) /\ ~r.session[id].queued
    BY <1>2, WorkResponse
  <2> HIDE DEF r
  <2> QED BY <2>1, <2>2 DEF r
<1> QED BY <1>1, <1>2

\* The last block is waited for before the next one is sent.
LEMMA WriteKeeps ==
    ASSUME NEW o, NEW id, Working(o, id), o.session[id].command = "write", NEW fails \in BOOLEAN
    PROVE  LET c == Waited(o, id)
           IN  ClientInv(Then(c, Request(c, id, "process", fails)))
<1> DEFINE c == Waited(o, id)
           q == Request(c, id, "process", fails)
<1>1. Worked(o, c, id) /\ ~c.session[id].queued
  BY WaitedKeeps
<1> HIDE DEF c
<1>2. Working(c, id) /\ c.session[id].command # "read" /\ "process" \in {"process", "close"}
  BY <1>1 DEF Worked, Alike
<1>3. Worked(c, q, id)
  BY <1>1, <1>2, WorkRequest
<1> HIDE DEF q
<1>4. ClientInv(c) /\ ClientInv(q)
  BY <1>2, <1>3, WorkSettles DEF Worked
<1>5. ClientInv(Then(c, q))
  BY <1>4 DEF Then
<1> QED BY <1>5 DEF c, q

\* The last block is waited for before the file is closed.
LEMMA CloseKeeps ==
    ASSUME NEW o, NEW id, Working(o, id), NEW fails \in BOOLEAN
    PROVE  LET c == Waited(o, id)
           IN  ClientInv(Then(c, Close(c, id, fails)))
<1> DEFINE c == Waited(o, id)
           q == Request(c, id, "close", fails)
           r == Response(q, id)
           f == Free(r, id)
<1>1. Worked(o, c, id) /\ ~c.session[id].queued
  BY WaitedKeeps
<1> HIDE DEF c
<1>2. Working(c, id) /\ "close" \in {"process", "close"} /\ "close" # "process"
  BY <1>1 DEF Worked
<1>3. Worked(c, q, id) /\ q.session[id].queued
  BY <1>1, <1>2, WorkRequest
<1> HIDE DEF q
<1>4. Worked(q, r, id) /\ ~r.session[id].queued
  <2>1. Working(q, id)
    BY <1>3 DEF Worked
  <2> QED BY <2>1, <1>3, WorkResponse
<1> HIDE DEF r
<1>5. ClientInv(c) /\ ClientInv(r) /\ Working(r, id)
  BY <1>2, <1>4, WorkSettles DEF Worked
<1>6. r.thrown \in BOOLEAN
  BY <1>5 DEF ClientInv, Turns, IsClient
<1>7. ASSUME ~r.thrown PROVE ClientInv(f)
  <2>1. r.thrown = FALSE
    BY <1>6, <1>7
  <2> QED BY <2>1, <1>4, <1>5, WorkFree
<1> HIDE DEF f
<1>8. Close(c, id, fails) = Then(r, f)
  BY DEF Close, q, r, f
<1>9. ClientInv(Then(c, Close(c, id, fails)))
  BY <1>5, <1>7, <1>8 DEF Then
<1> QED BY <1>9 DEF c

\* SimpleRequest
LEMMA CallKeeps ==
    ASSUME NEW o, ClientInv(o), NEW fails \in BOOLEAN
    PROVE  LET n == Len(o.session) + 1
               c == Response(Request(Began(o, "call", 0), n, "process", fails), n)
           IN  ClientInv([c EXCEPT !.session[n] = Gone])
<1> DEFINE s == NewSession("call", 0)
           b == Began(o, "call", 0)
           n == Len(o.session) + 1
           q == Request(b, n, "process", fails)
           c == Response(q, n)
<1>1. HasBegun(b, n, s) /\ ~s.queued /\ s.command = "call"
  <2>1. "call" \in Commands /\ 0 \in Nat
    BY DEF Commands
  <2>2. HasBegun(b, n, s)
    BY <2>1, BeginKeeps
  <2>3. ~s.queued /\ s.command = "call"
    BY <2>1, NewSessionIs
  <2> QED BY <2>2, <2>3
<1> HIDE DEF b, n, s
<1>2. Turns(b) /\ n \in DOMAIN b.session /\ Known(b, {n}) /\ b.session[n] = s /\ n \notin DOMAIN b.server
  BY <1>1 DEF HasBegun
<1>3. Requested(b, q, n, "process")
  <2>1. "process" \in {"open", "process", "close", "cancel"} /\ "process" # "open" /\ b.session[n].command # "read" /\ ~b.session[n].queued
    BY <1>1, <1>2
  <2> QED BY <1>2, <2>1, RequestKeeps
<1>4. s \in Sessions
  BY <1>2 DEF Turns, IsClient
<1> HIDE DEF q
<1>5. Turns(q) /\ n \in DOMAIN q.session /\ Known(q, {n}) /\ n \notin DOMAIN q.server /\ q.session[n].queued
  BY <1>2, <1>3, <1>4, QueuedIs DEF Requested
<1>6. Responded(q, c, n)
  BY <1>5, ResponseKeeps
<1> HIDE DEF c
<1>7. Turns(c) /\ n \in DOMAIN c.session /\ Known(c, {n}) /\ n \notin DOMAIN c.server /\ ~c.session[n].queued
  BY <1>5, <1>6 DEF Responded
<1>8. ClientInv(With(c, n, Gone))
  BY <1>7, GoneKeeps
<1>9. ClientInv([c EXCEPT !.session[n] = Gone])
  BY <1>8 DEF With
<1> QED BY <1>9 DEF c, q, b, n

\* JobRequest, JobAnswer
LEMMA JobKeeps ==
    ASSUME NEW o, ClientInv(o), NEW fails \in BOOLEAN
    PROVE  ClientInv(Request(Began(o, "job", 0), Len(o.session) + 1, "process", fails))
<1> DEFINE s == NewSession("job", 0)
           b == Began(o, "job", 0)
           n == Len(o.session) + 1
           q == Request(b, n, "process", fails)
<1>1. HasBegun(b, n, s) /\ ~s.queued /\ s.listed /\ s.command = "job"
  <2>1. "job" \in Commands /\ 0 \in Nat /\ "job" # "call"
    BY DEF Commands
  <2>2. HasBegun(b, n, s)
    BY <2>1, BeginKeeps
  <2>3. ~s.queued /\ s.listed /\ s.command = "job"
    BY <2>1, NewSessionIs
  <2> QED BY <2>2, <2>3
<1> HIDE DEF b, n, s
<1>2. Working(b, n) /\ ~b.session[n].queued /\ b.session[n].command # "read" /\ "process" \in {"process", "close"}
  BY <1>1 DEF HasBegun, Working, Lively
<1>3. Worked(b, q, n)
  BY <1>2, WorkRequest
<1> HIDE DEF q
<1>4. ClientInv(q)
  BY <1>3, WorkSettles DEF Worked
<1> QED BY <1>4 DEF q, b, n

\* The answer of a job is read and its session freed.
LEMMA JobAnswerKeeps ==
    ASSUME NEW o, NEW id, Working(o, id), o.session[id].queued
    PROVE  LET c == Response(o, id)
           IN  ClientInv(Free([c EXCEPT !.thrown = FALSE], id))
<1> DEFINE c == Response(o, id)
           f == Fresh(c)
<1>1. Worked(o, c, id) /\ ~c.session[id].queued
  BY WorkResponse
<1> HIDE DEF c
<1>2. Turns(c) /\ id \in DOMAIN c.session /\ Known(c, {id}) /\ Lively(c, id)
  BY <1>1 DEF Worked, Working
<1>3. Turns(f) /\ Known(f, {id}) /\ f.session = c.session /\ f.server = c.server /\ f.thrown = FALSE
  BY <1>2, FreshKeeps
<1> HIDE DEF f
<1>4. Working(f, id) /\ ~f.session[id].queued
  BY <1>1, <1>2, <1>3 DEF Working, Lively
<1>5. ClientInv(Free(f, id))
  BY <1>3, <1>4, WorkFree
<1>6. f = [c EXCEPT !.thrown = FALSE]
  BY DEF f, Fresh
<1>7. ClientInv(Free([c EXCEPT !.thrown = FALSE], id))
  BY <1>5, <1>6
<1> QED BY <1>7 DEF c

-----------------------------------------------------------------------------
(* All that is called.                                                      *)

Named(op) == call = [op |-> op, obj |-> call.obj]
AnswersRetry == \E a \in RetryCalls : call = Called("retry", a, Handled(a.outcomes, a.retries))
AnswersAuthorize == \E a \in AuthorizeCalls : call = Called("authorize", a, Accepted(a))
RemoteGiven(a) ==
    [options |-> IF a.local THEN LocalOptions(a) ELSE RemoteOptions(a),
     repo |-> IF a.local THEN a.repo ELSE IF a.type = "repo" THEN a.host ELSE 0,
     lock |-> ~a.local /\ TakesLock(a)]
AnswersRemote == \E a \in RemoteCalls : call = Called("remote", a, RemoteGiven(a))

\* The inductive invariant.
ProtocolIInv ==
    \/ NoCall
    \/ Named("client") /\ ClientInv(call.obj)
    \/ Named("parallel") /\ ExecutorInv(call.obj)
    \/ AnswersRetry \/ AnswersAuthorize \/ AnswersRemote

\* What a call is can be told from its name.
LEMMA Whose ==
    ASSUME ProtocolIInv
    PROVE  /\ call.op = "client" => Named("client") /\ ClientInv(Client)
           /\ call.op = "parallel" => Named("parallel") /\ ExecutorInv(call.obj)
           /\ call.op = "retry" => AnswersRetry
           /\ call.op = "authorize" => AnswersAuthorize
           /\ call.op = "remote" => AnswersRemote
<1>1. NoCall => call.op = "none"
  BY DEF NoCall, None
<1>2. /\ Named("client") => call.op = "client"
      /\ Named("parallel") => call.op = "parallel"
  BY DEF Named
<1>3. AnswersRetry => call.op = "retry"
  BY DEF AnswersRetry, Called
<1>4. AnswersAuthorize => call.op = "authorize"
  BY DEF AnswersAuthorize, Called
<1>5. AnswersRemote => call.op = "remote"
  BY DEF AnswersRemote, Called
<1> QED BY <1>1, <1>2, <1>3, <1>4, <1>5 DEF ProtocolIInv, Client

\* The object of a call is another one, or it is a new call.
LEMMA ClientBecomes ==
    ASSUME ProtocolIInv, Object("client"), NEW o, Become(o), ClientInv(o)
    PROVE  ProtocolIInv'
<1>1. Named("client")
  BY Whose DEF Object
<1>2. call' = [op |-> "client", obj |-> o]
  BY <1>1 DEF Named, Become
<1>3. Named("client")' /\ call'.obj = o
  BY <1>2 DEF Named
<1> QED BY <1>3 DEF ProtocolIInv

\* The same for the executor.
LEMMA ExecutorBecomes ==
    ASSUME ProtocolIInv, Object("parallel"), NEW o, Become(o), ExecutorInv(o)
    PROVE  ProtocolIInv'
<1>1. Named("parallel")
  BY Whose DEF Object
<1>2. call' = [op |-> "parallel", obj |-> o]
  BY <1>1 DEF Named, Become
<1>3. Named("parallel")' /\ call'.obj = o
  BY <1>2 DEF Named
<1> QED BY <1>3 DEF ProtocolIInv

\* Every step keeps the invariant.
LEMMA ClientStepKeeps ==
    ASSUME ProtocolIInv, ~FreeEarly,
           FileOpen \/ ReadBlock \/ WriteBlock \/ WriteClose \/ SessionFree \/ SimpleRequest \/ JobRequest \/ JobAnswer
    PROVE  ProtocolIInv'
<1>1. Object("client") /\ ClientInv(Client)
  <2>1. Object("client")
    BY DEF FileOpen, ReadBlock, WriteBlock, WriteClose, SessionFree, SimpleRequest, JobRequest, JobAnswer, More
  <2> QED BY <2>1, Whose DEF Object
<1>2. \A id \in Session : Client.session[id].alive => Working(Fresh(Client), id) /\ Fresh(Client).session = Client.session
  BY <1>1, WorkStarts DEF Session
<1>3. \A command, blocks : Begin(command, blocks) = Began(Client, command, blocks)
  BY DEF Begin, Began
<1>4. CASE FileOpen
  <2>1. PICK command \in {"read", "write"}, n \in 0..MaxBlock, fails \in BOOLEAN : Become(Open(Begin(command, n), New, fails))
    BY <1>4 DEF FileOpen
  <2>2. n \in Nat
    BY ProtocolAssumption
  <2>3. ClientInv(Open(Began(Client, command, n), New, fails))
    BY <1>1, <2>2, OpenKeeps DEF New
  <2> QED BY <1>1, <1>3, <2>1, <2>3, ClientBecomes
<1>5. CASE ReadBlock
  <2>1. PICK id \in Session, fails \in BOOLEAN :
           Usable(id, "read") /\ Client.session[id].open /\ Become(ReadNext(Fresh(Client), id, fails))
    BY <1>5 DEF ReadBlock, ReadNext
  <2>2. Working(Fresh(Client), id) /\ Fresh(Client).session[id].open
    BY <1>2, <2>1 DEF Usable
  <2>3. ClientInv(ReadNext(Fresh(Client), id, fails))
    BY <2>2, ReadKeeps
  <2> QED BY <1>1, <2>1, <2>3, ClientBecomes, SMTT(30)
<1>6. CASE WriteBlock
  <2>1. PICK id \in Session, fails \in BOOLEAN :
           LET c == Waited(Fresh(Client), id) IN Usable(id, "write") /\ Become(Then(c, Request(c, id, "process", fails)))
    BY <1>6 DEF WriteBlock
  <2> DEFINE n == LET c == Waited(Fresh(Client), id) IN Then(c, Request(c, id, "process", fails))
  <2>2. Working(Fresh(Client), id) /\ Fresh(Client).session[id].command = "write"
    BY <1>2, <2>1 DEF Usable
  <2>3. ClientInv(n)
    BY <2>2, WriteKeeps
  <2>4. Become(n)
    BY <2>1
  <2> HIDE DEF n
  <2> QED BY <1>1, <2>3, <2>4, ClientBecomes
<1>7. CASE WriteClose
  <2>1. PICK id \in Session, fails \in BOOLEAN :
           LET c == Waited(Fresh(Client), id) IN Usable(id, "write") /\ Become(Then(c, Close(c, id, fails)))
    BY <1>7 DEF WriteClose
  <2> DEFINE n == LET c == Waited(Fresh(Client), id) IN Then(c, Close(c, id, fails))
  <2>2. Working(Fresh(Client), id)
    BY <1>2, <2>1 DEF Usable
  <2>3. ClientInv(n)
    BY <2>2, CloseKeeps
  <2>4. Become(n)
    BY <2>1
  <2> HIDE DEF n
  <2> QED BY <1>1, <2>3, <2>4, ClientBecomes
<1>8. CASE SessionFree
  <2>1. PICK id \in Session :
           /\ Client.session[id].alive /\ (FreeEarly \/ ~Unread(id) \/ ~Client.session[id].open)
           /\ Become(Free(Fresh(Client), id))
    BY <1>8 DEF SessionFree
  <2> DEFINE f == Fresh(Client)
  <2>2. Working(f, id) /\ f.session = Client.session
    BY <1>2, <2>1
  <2>3. f.thrown = FALSE
    BY <1>1, FreshKeeps DEF ClientInv
  <2>4. Become(Free(f, id))
    BY <2>1
  <2> HIDE DEF f
  <2>5. /\ ClientInv(f) /\ id \in DOMAIN f.session /\ f.session[id].alive
        /\ f.session[id].stored # NoMessage => ~f.session[id].open
    BY <2>1, <2>2, WorkSettles DEF Unread, Session
  <2>6. ClientInv(Free(f, id))
    BY <2>3, <2>5, SessionFreeKeeps
  <2> QED BY <1>1, <2>4, <2>6, ClientBecomes
<1>9. CASE SimpleRequest
  <2>1. PICK fails \in BOOLEAN :
           LET c == Response(Request(Begin("call", 0), New, "process", fails), New) IN Become([c EXCEPT !.session[New] = Gone])
    BY <1>9 DEF SimpleRequest
  <2> DEFINE n == LET k == Len(Client.session) + 1
                      c == Response(Request(Began(Client, "call", 0), k, "process", fails), k)
                  IN  [c EXCEPT !.session[k] = Gone]
  <2>2. ClientInv(n)
    BY <1>1, CallKeeps
  <2>3. Become(n)
    BY <1>3, <2>1 DEF New
  <2> HIDE DEF n
  <2> QED BY <1>1, <2>2, <2>3, ClientBecomes
<1>10. CASE JobRequest
  <2>1. PICK fails \in BOOLEAN : Become(Request(Begin("job", 0), New, "process", fails))
    BY <1>10 DEF JobRequest
  <2>2. ClientInv(Request(Began(Client, "job", 0), New, "process", fails))
    BY <1>1, JobKeeps DEF New
  <2> QED BY <1>1, <1>3, <2>1, <2>2, ClientBecomes
<1>11. CASE JobAnswer
  <2>1. PICK id \in Session :
           LET c == Response(Fresh(Client), id)
           IN  Usable(id, "job") /\ Client.session[id].queued /\ Become(Free([c EXCEPT !.thrown = FALSE], id))
    BY <1>11 DEF JobAnswer
  <2> DEFINE n == LET c == Response(Fresh(Client), id) IN Free([c EXCEPT !.thrown = FALSE], id)
  <2>2. Working(Fresh(Client), id) /\ Fresh(Client).session[id].queued
    BY <1>2, <2>1 DEF Usable
  <2>3. ClientInv(n)
    BY <2>2, JobAnswerKeeps
  <2>4. Become(n)
    BY <2>1
  <2> HIDE DEF n
  <2> QED BY <1>1, <2>3, <2>4, ClientBecomes
<1> QED BY <1>4, <1>5, <1>6, <1>7, <1>8, <1>9, <1>10, <1>11

\* So does every step of the executor.
LEMMA ExecutorStepKeeps ==
    ASSUME ProtocolIInv, ParallelProcess \/ ParallelResult \/ ParallelDone
    PROVE  ProtocolIInv'
<1>1. Object("parallel") /\ ExecutorInv(call.obj) /\ ~call.obj.done
  <2>1. Object("parallel") /\ ~call.obj.done
    BY DEF ParallelProcess, ParallelResult, ParallelDone
  <2> QED BY <2>1, Whose DEF Object
<1>2. CASE ParallelProcess
  <2>1. PICK ready \in SUBSET Running(call.obj) : \E good \in SUBSET ready : Become(Processed(call.obj, ready, good))
    BY <1>2 DEF ParallelProcess
  <2>3. PICK good \in SUBSET ready : Become(Processed(call.obj, ready, good))
    BY <2>1
  <2>2. ExecutorInv(Processed(call.obj, ready, good))
    BY <1>1, ProcessedKeeps
  <2> QED BY <1>1, <2>3, <2>2, ExecutorBecomes
<1>3. CASE ParallelResult
  <2> DEFINE i == Min(Finished(call.obj))
             j == call.obj.list[i]
             n == [call.obj EXCEPT !.list = RemoveAt(@, i), !.returned = Append(@, call.obj.result[j])]
  <2>1. Finished(call.obj) # {} /\ Become(n)
    BY <1>3 DEF ParallelResult
  <2>2. ExecutorInv(n)
    BY <1>1, <2>1, ResultKeeps
  <2> HIDE DEF n
  <2> QED BY <1>1, <2>1, <2>2, ExecutorBecomes
<1>4. CASE ParallelDone
  <2> DEFINE n == [call.obj EXCEPT !.done = TRUE]
  <2>1. call.obj.list = << >> /\ (\E c \in DOMAIN call.obj.freed : call.obj.freed[c] > 0) /\ Become(n)
    BY <1>4 DEF ParallelDone
  <2>2. ExecutorInv(n)
    BY <1>1, <2>1, DoneKeeps
  <2> HIDE DEF n
  <2> QED BY <1>1, <2>1, <2>2, ExecutorBecomes
<1> QED BY <1>2, <1>3, <1>4

\* So does every call.
LEMMA ProtocolStepKeeps ==
    ASSUME ProtocolIInv, ~FreeEarly, [ProtocolNext]_call
    PROVE  ProtocolIInv'
<1>1. CASE UNCHANGED call
  BY <1>1 DEF ProtocolIInv, NoCall, Named, AnswersRetry, AnswersAuthorize, AnswersRemote
<1>2. CASE Connect
  <2>1. call' = [op |-> "client", obj |-> NewClient]
    BY <1>2 DEF Connect
  <2> QED BY <2>1, ConnectKeeps DEF ProtocolIInv, Named
<1>3. CASE ParallelNew
  <2>1. PICK allowed \in Affinity : call' = [op |-> "parallel", obj |-> NewParallel(allowed)]
    BY <1>3 DEF ParallelNew
  <2>2. ExecutorInv(NewParallel(allowed))
    BY NewExecutor, ProtocolAssumption
  <2> QED BY <2>1, <2>2 DEF ProtocolIInv, Named
<1>4. CASE Retry \/ Authorize \/ RemoteParam
  BY <1>4 DEF Retry, Authorize, RemoteParam, RemoteGiven, ProtocolIInv, AnswersRetry, AnswersAuthorize, AnswersRemote
<1> QED BY <1>1, <1>2, <1>3, <1>4, ClientStepKeeps, ExecutorStepKeeps DEF ProtocolNext

\* What the users rely on follows from the invariant.
LEMMA ProtocolFollows ==
    ASSUME ProtocolIInv
    PROVE  ProtocolSound
<1>1. OwnAnswers /\ SessionsReleased
  <2> SUFFICES ASSUME Object("client")
               PROVE  /\ ~Client.lost /\ \A i \in DOMAIN Client.stream : Client.session[Client.stream[i].id].queued
                      /\ \A id \in DOMAIN Client.server : Client.session[id].listed /\ Client.session[id].open
    BY DEF OwnAnswers, SessionsReleased
  <2>1. ClientInv(Client)
    BY Whose DEF Object
  <2> QED BY <2>1 DEF ClientInv, Turns, IsClient, Streamed, Waits, Known
<1>2. AllJobsReturned
  <2> SUFFICES ASSUME Object("parallel") PROVE AllJobsReturned
    BY DEF AllJobsReturned
  <2>1. ExecutorInv(call.obj)
    BY Whose DEF Object
  <2> QED BY <2>1, ExecutorResult DEF AllJobsReturned
<1>3. ServerAnswers
  <2>1. ASSUME Returns("retry")
        PROVE  LET a == call.arg
                   r == call.result
               IN  /\ r.tries <= a.retries + 1
                   /\ r.error # None => \A i \in 1..r.tries : a.outcomes[i] \in {r.error} \cup DOMAIN r.more
                   /\ r.error = None => a.outcomes[r.tries] = None
    <3>1. PICK a \in RetryCalls : call = Called("retry", a, Handled(a.outcomes, a.retries))
      BY <2>1, Whose DEF Returns, AnswersRetry
    <3>2. call.arg = a /\ call.result = Handled(a.outcomes, a.retries)
      BY <3>1 DEF Called
    <3>3. a.retries \in Nat /\ a.outcomes \in Seq(STRING) /\ a.outcomes # << >>
      BY ProtocolAssumption
    <3> QED BY <3>2, <3>3, RetryTells
  <2>2. ASSUME Returns("authorize"), call.result = "serve"
        PROVE  call.arg.certificate /\ ("*" \in call.arg.list \/ call.arg.stanza \in call.arg.list)
    <3>1. PICK a \in AuthorizeCalls : call = Called("authorize", a, Accepted(a))
      BY <2>2, Whose DEF Returns, AnswersAuthorize
    <3>2. call.arg = a /\ call.result = Accepted(a)
      BY <3>1 DEF Called
    <3> QED BY <2>2, <3>2, ServesOnly
  <2>3. ASSUME Returns("remote")
        PROVE  LET a == call.arg
                   r == call.result
               IN  /\ ~a.local /\ a.type = "pg" => \A x \in r.options : x.index = 1 /\ x.group = "pg"
                   /\ ~a.local /\ a.type = "repo" => \A x \in r.options : x.group = "repo" => x.index = r.repo
                   /\ r.lock => a.process = 0
    <3>1. PICK a \in RemoteCalls : call = Called("remote", a, RemoteGiven(a))
      BY <2>3, Whose DEF Returns, AnswersRemote
    <3>2. call.arg = a /\ call.result = RemoteGiven(a)
      BY <3>1 DEF Called
    <3>3. /\ a.type = "pg" => \A x \in RemoteOptions(a) : x.index = 1 /\ x.group = "pg"
          /\ a.type = "repo" => \A x \in RemoteOptions(a) : x.group = "repo" => x.index = a.host
      BY ProtocolAssumption, RemoteOwn
    <3>4. (~a.local) => call.result.options = RemoteOptions(a)
      BY <3>2 DEF RemoteGiven
    <3>5. (~a.local) /\ a.type = "repo" => call.result.repo = a.host
      BY <3>2 DEF RemoteGiven
    <3>6. call.result.lock => a.process = 0
      <4> DEFINE options == IF a.local THEN LocalOptions(a) ELSE RemoteOptions(a)
                 repo == IF a.local THEN a.repo ELSE IF a.type = "repo" THEN a.host ELSE 0
                 lock == ~a.local /\ TakesLock(a)
      <4>1. lock => a.process = 0
        BY DEF TakesLock
      <4>2. call.result = [options |-> options, repo |-> repo, lock |-> lock]
        BY <3>2 DEF RemoteGiven
      <4> HIDE DEF options, repo, lock
      <4>3. call.result.lock = lock
        BY <4>2
      <4> QED BY <4>1, <4>3
    <3> QED BY <3>2, <3>3, <3>4, <3>5, <3>6
  <2> QED BY <2>1, <2>2, <2>3 DEF ServerAnswers
<1> QED BY <1>1, <1>2, <1>3 DEF ProtocolSound

\* Whatever its users read and write at the same time and whichever requests
\* fail, each session of a client gets the answers to its own requests in their
\* order, no file stays open at the server that nobody will close, the executor
\* runs and returns each job once, and the other end answers only who may ask.
\* This is for any number of sessions, blocks and jobs and any calls, but no
\* session is freed while an answer for it is stored and it is open.
THEOREM ProtocolAlways ==
    ASSUME ~FreeEarly
    PROVE  NoCall /\ [][ProtocolNext]_call => []ProtocolSound
<1>1. NoCall => ProtocolIInv
  BY DEF ProtocolIInv
<1>2. ProtocolIInv /\ [ProtocolNext]_call => ProtocolIInv'
  BY ProtocolStepKeeps
<1>3. ProtocolIInv => ProtocolSound
  BY ProtocolFollows
<1> QED BY <1>1, <1>2, <1>3, PTL
=============================================================================
