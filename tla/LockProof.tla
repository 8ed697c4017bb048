----------------------------- MODULE LockProof -----------------------------
(***************************************************************************)
(* Proofs about Lock for any number of processes, readers and lock files.  *)
(*                                                                         *)
(* FlockOwned is not inductive by itself.  A descriptor that is being      *)
(* closed must be a real one (Shape), and no process may list one inode    *)
(* twice (Distinct), or closing one entry would drop the flock of another. *)
(* On these rest the invariants about names (NamesInv), which say when the *)
(* name of a lock still refers to it and who removes it.                   *)
(***************************************************************************)
EXTENDS Lock, TLAPS

\* Where a process or a reader is tells which descriptors it has.
Shape ==
    /\ \A p \in Proc :
        /\ pc[p] \in {"flock", "read"} => fd[p] \in Inode
        /\ pc[p] \in {"write", "held", "release", "close"} => lockList[p] # << >>
        /\ pc[p] = "write" => lockList[p][Len(lockList[p])].fd \in Inode
        /\ pc[p] = "close" => lockList[p][1].fd \in Inode
    /\ \A r \in Reader : rpc[r] \in {"flock", "remove", "removed", "close"} => rfd[r] \in Inode

\* No process lists an inode twice.
Distinct ==
    \A p \in Proc : \A m, n \in 1..Len(lockList[p]) :
        lockList[p][m].fd # ByExecId /\ lockList[p][m].fd = lockList[p][n].fd => m = n

IInv == TypeOK /\ Shape /\ FlockOwned /\ Distinct

Entry == [name : File, fd : Inode \cup {ByExecId}]

-----------------------------------------------------------------------------
\* The name a process is about to lock is a lock file name.
LEMMA NameInFile ==
    ASSUME TypeOK, NEW p \in Proc
    PROVE  Name(p) \in File
<1>1. LockList[p] \in Seq(File) /\ idx[p] \in 1..Len(LockList[p])
  BY LockAssumption DEF TypeOK
<1> QED BY <1>1 DEF Name

Pcs == Ended \cup {"start", "open", "flock", "read", "write", "wait", "held",
                   "release", "close"}

\* A listed lock is a name with a descriptor or LOCK_ON_EXEC_ID.
LEMMA SeqType ==
    ASSUME TypeOK, NEW p \in Proc
    PROVE  lockList[p] \in Seq(Entry) /\ Len(lockList[p]) \in Nat
<1>1. lockList[p] \in Seq(Entry)
  BY DEF TypeOK, Entry
<1> QED BY <1>1

LEMMA EntryType ==
    ASSUME TypeOK, NEW p \in Proc, NEW n \in 1..Len(lockList[p])
    PROVE  lockList[p][n].fd \in Inode \cup {ByExecId} /\ lockList[p][n].name \in File
<1>1. lockList[p] \in Seq(Entry)
  BY SeqType
<1>2. lockList[p][n] \in Entry
  BY <1>1
<1> QED BY <1>2 DEF Entry

\* NextName keeps the types of idx and pc, ends in "held" only with TRUE, and
\* touches no other process.
LEMMA NextNameType ==
    ASSUME TypeOK, NEW p \in Proc, NEW result \in BOOLEAN, NextName(p, result)
    PROVE  /\ idx' \in [Proc -> Nat] /\ \A q \in Proc : idx'[q] \in 1..Len(LockList[q])
           /\ \E v \in {"open", "held", "wait"} :
                /\ pc' = [pc EXCEPT ![p] = v]
                /\ v = "held" => result
<1>1. /\ LockList \in [Proc -> Seq(File)]
      /\ idx \in [Proc -> Nat] /\ \A q \in Proc : idx[q] \in 1..Len(LockList[q])
  BY LockAssumption DEF TypeOK
<1>2. CASE idx[p] < Len(LockList[p])
  <2>1. idx' = [idx EXCEPT ![p] = @ + 1] /\ pc' = [pc EXCEPT ![p] = "open"]
    BY <1>2 DEF NextName
  <2>2. idx[p] + 1 \in 1..Len(LockList[p])
    BY <1>1, <1>2
  <2> QED BY <1>1, <2>1, <2>2
<1>3. CASE ~(idx[p] < Len(LockList[p]))
  <2>1. idx' = idx /\ pc' = [pc EXCEPT ![p] = IF result THEN "held" ELSE "wait"]
    BY <1>3 DEF NextName
  <2> QED BY <1>1, <2>1
<1> QED BY <1>2, <1>3

-----------------------------------------------------------------------------
\* The invariant holds initially.
LEMMA InitIInv == Init => IInv
<1> SUFFICES ASSUME Init PROVE IInv
  OBVIOUS
<1>1. \A p \in Proc : 1 \in 1..Len(LockList[p])
  BY LockAssumption
<1>2. TypeOK
  BY <1>1, LockAssumption DEF Init, TypeOK
<1>3. Shape /\ FlockOwned /\ Distinct
  BY DEF Init, Shape, FlockOwned, Distinct
<1> QED BY <1>2, <1>3 DEF IInv


\* A process that ends, for whatever reason, preserves the invariant.
LEMMA ExitIInv ==
    ASSUME IInv, NEW p \in Proc, NEW end \in Ended, Exit(p, end)
    PROVE  IInv'
<1> USE DEF IInv
<1>1. /\ pc' = [pc EXCEPT ![p] = end]
      /\ fd' = [fd EXCEPT ![p] = None]
      /\ lockList' = [lockList EXCEPT ![p] = << >>]
      /\ owner' = [i \in Inode |-> IF owner[i] = p THEN None ELSE owner[i]]
      /\ UNCHANGED << link, data, idx, readVars >>
  BY DEF Exit
<1>2. TypeOK'
  <2>1. << >> \in Seq([name : File, fd : Inode \cup {ByExecId}])
    OBVIOUS
  <2>2. pc' \in [Proc -> Pcs]
    BY <1>1 DEF TypeOK, Pcs
  <2>3. owner' \in [Inode -> Proc \cup Reader \cup {None}]
    BY <1>1 DEF TypeOK
  <2> QED BY <1>1, <2>1, <2>2, <2>3 DEF TypeOK, readVars, Pcs
<1>3. Shape'
  <2>1. \A q \in Proc \ {p} : pc'[q] = pc[q] /\ fd'[q] = fd[q] /\ lockList'[q] = lockList[q]
    BY <1>1 DEF TypeOK
  <2>2. pc'[p] = end /\ rpc' = rpc /\ rfd' = rfd
    BY <1>1 DEF TypeOK, readVars
  <2> QED BY <2>1, <2>2 DEF Shape, Ended
<1>4. FlockOwned'
  <2> SUFFICES ASSUME NEW q \in Proc, NEW n \in 1..Len(lockList'[q]),
                      lockList'[q][n].fd # ByExecId
               PROVE  owner'[lockList'[q][n].fd] = q
    BY DEF FlockOwned
  <2>1. q # p /\ lockList'[q] = lockList[q]
    BY <1>1 DEF TypeOK
  <2>2. owner[lockList[q][n].fd] = q /\ lockList[q][n].fd \in Inode
    BY <2>1, EntryType DEF FlockOwned
  <2>3. owner'[lockList[q][n].fd] = q
    BY <1>1, <2>1, <2>2
  <2>4. lockList'[q][n].fd = lockList[q][n].fd
    BY <2>1
  <2> QED BY <2>3, <2>4
<1>5. Distinct'
  BY <1>1 DEF Distinct, TypeOK
<1> QED BY <1>2, <1>3, <1>4, <1>5

\* What List appends to the list of p.
LEMMA ListAppends ==
    ASSUME TypeOK, NEW p \in Proc, NEW i \in Inode \cup {ByExecId}, List(p, i)
    PROVE  /\ lockList' \in [Proc -> Seq(Entry)]
           /\ \A q \in Proc \ {p} : lockList'[q] = lockList[q]
           /\ Len(lockList'[p]) = Len(lockList[p]) + 1
           /\ \A n \in 1..Len(lockList[p]) : lockList'[p][n] = lockList[p][n]
           /\ lockList'[p][Len(lockList[p]) + 1].fd = i
<1>1. Name(p) \in File
  BY NameInFile
<1>2. [name |-> Name(p), fd |-> i] \in Entry
  BY <1>1 DEF Entry
<1>3. lockList \in [Proc -> Seq(Entry)]
  BY DEF TypeOK, Entry
<1> DEFINE e == [name |-> Name(p), fd |-> i]
<1>4. lockList' = [lockList EXCEPT ![p] = Append(lockList[p], e)]
  BY DEF List
<1>5. e \in Entry /\ e.fd = i
  BY <1>2
<1> HIDE DEF e
<1> QED BY <1>3, <1>4, <1>5

\* What dropping the first lock leaves of the list of p.
LEMMA TailDrops ==
    ASSUME TypeOK, NEW p \in Proc, lockList[p] # << >>,
           lockList' = [lockList EXCEPT ![p] = Tail(@)]
    PROVE  /\ lockList' \in [Proc -> Seq(Entry)]
           /\ \A q \in Proc \ {p} : lockList'[q] = lockList[q]
           /\ Len(lockList[p]) \in Nat \ {0}
           /\ Len(lockList'[p]) = Len(lockList[p]) - 1
           /\ \A n \in 1..Len(lockList'[p]) : lockList'[p][n] = lockList[p][n + 1]
<1>1. lockList \in [Proc -> Seq(Entry)]
  BY DEF TypeOK, Entry
<1>2. lockList'[p] = Tail(lockList[p]) /\ lockList[p] \in Seq(Entry)
  BY <1>1
<1>3. /\ Tail(lockList[p]) \in Seq(Entry)
      /\ Len(lockList[p]) \in Nat \ {0}
      /\ Len(Tail(lockList[p])) = Len(lockList[p]) - 1
      /\ \A n \in 1..Len(Tail(lockList[p])) : Tail(lockList[p])[n] = lockList[p][n + 1]
  BY <1>2
<1> QED BY <1>1, <1>2, <1>3

-----------------------------------------------------------------------------
\* Steps that change neither a list nor an owner only have to preserve TypeOK
\* and Shape.
LEMMA NoOwnerChange ==
    ASSUME IInv, UNCHANGED << owner, lockList >>, TypeOK', Shape'
    PROVE  IInv'
BY DEF IInv, FlockOwned, Distinct

\* A step of p that sets pc[p] to v, and fd[p] to i, preserves Shape.
LEMMA ShapeStep ==
    ASSUME TypeOK, Shape, NEW p \in Proc, NEW v \in Pcs, NEW i \in Inode \cup {None},
           pc' = [pc EXCEPT ![p] = v], fd' = [fd EXCEPT ![p] = i],
           \A q \in Proc \ {p} : lockList'[q] = lockList[q],
           v \in {"flock", "read"} => i \in Inode,
           v \in {"write", "held", "release", "close"} => lockList'[p] # << >>,
           v = "write" => lockList'[p][Len(lockList'[p])].fd \in Inode,
           v = "close" => lockList'[p][1].fd \in Inode,
           UNCHANGED readVars
    PROVE  Shape'
<1>1. \A q \in Proc \ {p} : pc'[q] = pc[q] /\ fd'[q] = fd[q]
  BY DEF TypeOK
<1>2. pc'[p] = v /\ fd'[p] = i
  BY DEF TypeOK
<1>3. rpc' = rpc /\ rfd' = rfd
  BY DEF readVars
<1> QED BY <1>1, <1>2, <1>3 DEF Shape

LEMMA StartIInv == ASSUME IInv, NEW p \in Proc, Start(p) PROVE IInv'
<1> USE DEF IInv
<1>1. 1 \in 1..Len(LockList[p]) /\ "open" \in Pcs
  BY LockAssumption DEF Pcs
<1>2. TypeOK'
  BY <1>1 DEF Start, TypeOK, readVars, Pcs
<1>3. Shape'
  <2>1. fd' = [fd EXCEPT ![p] = fd[p]] /\ fd[p] \in Inode \cup {None}
    BY DEF Start, TypeOK
  <2> QED BY <1>1, <2>1, ShapeStep DEF Start
<1> QED BY <1>2, <1>3, NoOwnerChange DEF Start

LEMMA OpenIInv == ASSUME IInv, NEW p \in Proc, Open(p) PROVE IInv'
<1> USE DEF IInv
<1>1. Name(p) \in File /\ "flock" \in Pcs
  BY NameInFile DEF Pcs
<1>2. PICK i \in Inode :
        /\ fd' = [fd EXCEPT ![p] = i]
        /\ link' \in [File -> Inode \cup {None}]
        /\ data' \in [Inode -> Proc \cup {None}]
  <2>1. CASE link[Name(p)] # None
    <3>1. link[Name(p)] \in Inode
      BY <1>1, <2>1 DEF TypeOK
    <3> QED BY <2>1, <3>1 DEF Open, TypeOK
  <2>2. CASE link[Name(p)] = None
    <3> DEFINE i == CHOOSE j \in Inode : Free(j)
    <3>1. \E j \in Inode : Free(j)
      BY <2>2 DEF Open
    <3>2. i \in Inode
      BY <3>1
    <3>3. /\ fd' = [fd EXCEPT ![p] = i]
          /\ link' = [link EXCEPT ![Name(p)] = i]
          /\ data' = [data EXCEPT ![i] = None]
      BY <2>2 DEF Open
    <3> HIDE DEF i
    <3> QED BY <1>1, <3>2, <3>3 DEF TypeOK
  <2> QED BY <2>1, <2>2
<1>3. pc' = [pc EXCEPT ![p] = "flock"] /\ UNCHANGED << owner, idx, lockList, readVars >>
  BY DEF Open
<1>4. TypeOK'
  BY <1>1, <1>2, <1>3 DEF TypeOK, readVars, Pcs
<1>5. Shape'
  BY <1>1, <1>2, <1>3, ShapeStep
<1> QED BY <1>3, <1>4, <1>5, NoOwnerChange

LEMMA FlockBusyIInv == ASSUME IInv, NEW p \in Proc, FlockBusy(p) PROVE IInv'
<1> USE DEF IInv
<1>1. TypeOK'
  BY DEF FlockBusy, TypeOK, readVars
<1>2. fd' = [fd EXCEPT ![p] = fd[p]] /\ fd[p] \in Inode
  BY DEF FlockBusy, TypeOK, Shape
<1>3. Shape'
  BY <1>2, ShapeStep DEF FlockBusy, Pcs
<1> QED BY <1>1, <1>3, NoOwnerChange DEF FlockBusy

LEMMA NoLockIInv == ASSUME IInv, NEW p \in Proc, NoLock(p) PROVE IInv'
<1> USE DEF IInv
<1>1. NextName(p, FALSE) /\ fd' = [fd EXCEPT ![p] = None]
      /\ UNCHANGED << link, owner, data, lockList, readVars >>
  BY DEF NoLock
<1>2. /\ idx' \in [Proc -> Nat] /\ \A q \in Proc : idx'[q] \in 1..Len(LockList[q])
      /\ \E v \in {"open", "wait"} : pc' = [pc EXCEPT ![p] = v]
  BY <1>1, NextNameType
<1>3. PICK v \in {"open", "wait"} : pc' = [pc EXCEPT ![p] = v]
  BY <1>2
<1>4. v \in Pcs /\ None \in Inode \cup {None}
  BY DEF Pcs
<1>5. TypeOK'
  BY <1>1, <1>2, <1>3, <1>4 DEF TypeOK, readVars, Pcs
<1>6. Shape'
  BY <1>1, <1>3, <1>4, ShapeStep
<1> QED BY <1>1, <1>5, <1>6, NoOwnerChange

LEMMA WriteIInv == ASSUME IInv, NEW p \in Proc, Write(p) PROVE IInv'
<1> USE DEF IInv
<1>1. /\ pc[p] = "write"
      /\ data' = [data EXCEPT ![lockList[p][Len(lockList[p])].fd] = p]
      /\ NextName(p, TRUE)
      /\ UNCHANGED << link, owner, fd, lockList, readVars >>
  BY DEF Write
<1>2. /\ idx' \in [Proc -> Nat] /\ \A q \in Proc : idx'[q] \in 1..Len(LockList[q])
      /\ \E v \in {"open", "held", "wait"} : pc' = [pc EXCEPT ![p] = v]
  BY <1>1, NextNameType
<1>3. PICK v \in {"open", "held", "wait"} : pc' = [pc EXCEPT ![p] = v]
  BY <1>2
<1>4. v \in Pcs /\ fd' = [fd EXCEPT ![p] = fd[p]] /\ fd[p] \in Inode \cup {None}
  BY <1>1 DEF Pcs, TypeOK
<1>5. TypeOK'
  BY <1>1, <1>2, <1>3, <1>4 DEF TypeOK, readVars, Pcs
<1>6. lockList'[p] # << >>
  BY <1>1 DEF Shape
<1>7. Shape'
  BY <1>1, <1>3, <1>4, <1>6, ShapeStep
<1> QED BY <1>1, <1>5, <1>7, NoOwnerChange

LEMMA ReleaseUnlinkIInv == ASSUME IInv, NEW p \in Proc, ReleaseUnlink(p) PROVE IInv'
<1> USE DEF IInv
<1>1. /\ pc[p] \in {"held", "release"}
      /\ Head(lockList[p]).fd # ByExecId
      /\ link' = [link EXCEPT ![Head(lockList[p]).name] = None]
      /\ pc' = [pc EXCEPT ![p] = "close"]
      /\ UNCHANGED << owner, data, idx, fd, lockList, readVars >>
  BY DEF ReleaseUnlink
<1>2. lockList[p] # << >> /\ lockList[p] \in Seq(Entry)
  BY <1>1 DEF Shape, TypeOK, Entry
<1>3. 1 \in 1..Len(lockList[p]) /\ Head(lockList[p]) = lockList[p][1]
  BY <1>2
<1>4. lockList[p][1].fd \in Inode
  BY <1>1, <1>3, EntryType
<1>5. "close" \in Pcs /\ fd' = [fd EXCEPT ![p] = fd[p]] /\ fd[p] \in Inode \cup {None}
  BY <1>1 DEF Pcs, TypeOK
<1>6. TypeOK'
  BY <1>1, <1>5 DEF TypeOK, readVars, Pcs
<1>7. Shape'
  BY <1>1, <1>2, <1>4, <1>5, ShapeStep
<1> QED BY <1>1, <1>6, <1>7, NoOwnerChange

\* Listing i for p preserves FlockOwned and Distinct when p owns i from now on
\* and did not before, or when it is LOCK_ON_EXEC_ID.
LEMMA ListIInv ==
    ASSUME TypeOK, FlockOwned, Distinct, NEW p \in Proc, NEW i \in Inode \cup {ByExecId},
           List(p, i),
           IF i = ByExecId THEN owner' = owner
           ELSE owner[i] = None /\ owner' = [owner EXCEPT ![i] = p]
    PROVE  FlockOwned' /\ Distinct'
<1>1. /\ \A q \in Proc \ {p} : lockList'[q] = lockList[q]
      /\ Len(lockList'[p]) = Len(lockList[p]) + 1
      /\ \A n \in 1..Len(lockList[p]) : lockList'[p][n] = lockList[p][n]
      /\ lockList'[p][Len(lockList[p]) + 1].fd = i
      /\ Len(lockList[p]) \in Nat
  BY SeqType, ListAppends
<1> DEFINE Old(q) == 1..Len(lockList[q])
<1>2. ASSUME NEW q \in Proc, NEW n \in Old(q), lockList[q][n].fd # ByExecId
      PROVE  owner[lockList[q][n].fd] = q /\ owner'[lockList[q][n].fd] = q
             /\ lockList[q][n].fd # i
  <2>1. owner[lockList[q][n].fd] = q /\ lockList[q][n].fd \in Inode /\ q # None
    BY <1>2, EntryType, LockAssumption DEF FlockOwned
  <2>2. lockList[q][n].fd # i
    BY <2>1, LockAssumption DEF ByExecId
  <2>3. i # ByExecId => owner' = [owner EXCEPT ![i] = p]
    OBVIOUS
  <2>4. owner'[lockList[q][n].fd] = owner[lockList[q][n].fd]
    BY <2>1, <2>2, <2>3 DEF TypeOK
  <2> QED BY <2>1, <2>2, <2>4
<1>3. i # ByExecId => owner'[i] = p
  <2> SUFFICES ASSUME i # ByExecId PROVE owner'[i] = p
    OBVIOUS
  <2>1. i \in Inode /\ owner' = [owner EXCEPT ![i] = p]
    OBVIOUS
  <2> QED BY <2>1 DEF TypeOK
<1>4. FlockOwned'
  <2> SUFFICES ASSUME NEW q \in Proc, NEW n \in 1..Len(lockList'[q]),
                      lockList'[q][n].fd # ByExecId
               PROVE  owner'[lockList'[q][n].fd] = q
    BY DEF FlockOwned
  <2>1. CASE q # p \/ n # Len(lockList[p]) + 1
    <3>1. n \in Old(q) /\ lockList'[q][n] = lockList[q][n]
      BY <1>1, <2>1
    <3>2. lockList[q][n].fd # ByExecId
      BY <3>1
    <3>3. owner'[lockList[q][n].fd] = q
      BY <3>1, <3>2, <1>2
    <3> QED BY <3>1, <3>3
  <2>2. CASE q = p /\ n = Len(lockList[p]) + 1
    BY <1>1, <1>3, <2>2
  <2> QED BY <2>1, <2>2
<1>5. Distinct'
  <2> SUFFICES ASSUME NEW q \in Proc, NEW m \in 1..Len(lockList'[q]),
                      NEW n \in 1..Len(lockList'[q]),
                      lockList'[q][m].fd # ByExecId, lockList'[q][m].fd = lockList'[q][n].fd
               PROVE  m = n
    BY DEF Distinct
  <2>1. CASE q # p
    BY <1>1, <2>1 DEF Distinct
  <2>2. CASE q = p
    <3>1. \A k \in 1..Len(lockList'[p]) :
            k # Len(lockList[p]) + 1 => k \in Old(p) /\ lockList'[p][k] = lockList[p][k]
      BY <1>1
    <3>2. CASE m # Len(lockList[p]) + 1 /\ n # Len(lockList[p]) + 1
      BY <2>2, <3>1, <3>2, SMTT(30) DEF Distinct
    <3>3. CASE m # Len(lockList[p]) + 1 /\ n = Len(lockList[p]) + 1
      BY <2>2, <3>1, <3>3, <1>1, <1>2
    <3>4. CASE m = Len(lockList[p]) + 1 /\ n # Len(lockList[p]) + 1
      BY <2>2, <3>1, <3>4, <1>1, <1>2
    <3> QED BY <3>2, <3>3, <3>4
  <2> QED BY <2>1, <2>2
<1> QED BY <1>4, <1>5

LEMMA FlockIInv == ASSUME IInv, NEW p \in Proc, Flock(p) PROVE IInv'
<1> USE DEF IInv
<1>1. /\ pc[p] = "flock"
      /\ owner[fd[p]] = None
      /\ owner' = [owner EXCEPT ![fd[p]] = p]
      /\ List(p, fd[p])
      /\ fd' = [fd EXCEPT ![p] = None]
      /\ pc' = [pc EXCEPT ![p] = "write"]
      /\ UNCHANGED << link, data, idx, readVars >>
  BY DEF Flock
<1>2. fd[p] \in Inode /\ fd[p] # ByExecId
  BY <1>1, LockAssumption DEF Shape, ByExecId
<1>3. /\ lockList' \in [Proc -> Seq(Entry)]
      /\ \A q \in Proc \ {p} : lockList'[q] = lockList[q]
      /\ Len(lockList'[p]) = Len(lockList[p]) + 1
      /\ lockList'[p][Len(lockList[p]) + 1].fd = fd[p]
  BY <1>1, <1>2, ListAppends
<1>4. lockList'[p] # << >> /\ lockList'[p][Len(lockList'[p])].fd \in Inode
  <2>1. lockList[p] \in Seq(Entry) /\ Len(lockList[p]) \in Nat
    BY SeqType
  <2> QED BY <1>2, <1>3, <2>1
<1>5. TypeOK'
  BY <1>1, <1>3 DEF TypeOK, readVars, Entry
<1>6. Shape'
  <2>1. "write" \in Pcs /\ None \in Inode \cup {None}
    BY DEF Pcs
  <2> QED BY <1>1, <1>3, <1>4, <2>1, ShapeStep
<1>7. FlockOwned' /\ Distinct'
  BY <1>1, <1>2, ListIInv
<1> QED BY <1>5, <1>6, <1>7

LEMMA LockOnExecIdIInv == ASSUME IInv, NEW p \in Proc, LockOnExecId(p) PROVE IInv'
<1> USE DEF IInv
<1>1. /\ List(p, ByExecId)
      /\ fd' = [fd EXCEPT ![p] = None]
      /\ NextName(p, TRUE)
      /\ UNCHANGED << link, owner, data, readVars >>
  BY DEF LockOnExecId
<1>2. /\ idx' \in [Proc -> Nat] /\ \A q \in Proc : idx'[q] \in 1..Len(LockList[q])
      /\ \E v \in {"open", "held", "wait"} : pc' = [pc EXCEPT ![p] = v]
  BY <1>1, NextNameType
<1>3. PICK v \in {"open", "held", "wait"} : pc' = [pc EXCEPT ![p] = v]
  BY <1>2
<1>4. /\ lockList' \in [Proc -> Seq(Entry)]
      /\ \A q \in Proc \ {p} : lockList'[q] = lockList[q]
      /\ Len(lockList'[p]) = Len(lockList[p]) + 1
  BY <1>1, ListAppends
<1>5. lockList'[p] # << >>
  <2>1. lockList[p] \in Seq(Entry) /\ Len(lockList[p]) \in Nat
    BY SeqType
  <2> QED BY <1>4, <2>1
<1>6. v \in Pcs /\ None \in Inode \cup {None}
  BY DEF Pcs
<1>7. TypeOK'
  BY <1>1, <1>2, <1>3, <1>4, <1>6 DEF TypeOK, readVars, Entry, Pcs
<1>8. Shape'
  BY <1>1, <1>3, <1>4, <1>5, <1>6, ShapeStep
<1>9. FlockOwned' /\ Distinct'
  <2>1. owner' = owner /\ ByExecId \in Inode \cup {ByExecId}
    BY <1>1
  <2> QED BY <1>1, <2>1, ListIInv
<1> QED BY <1>7, <1>8, <1>9

\* Dropping the first lock of p preserves FlockOwned and Distinct when no
\* owner changes except that of the dropped inode.
LEMMA TailIInv ==
    ASSUME TypeOK, FlockOwned, Distinct, NEW p \in Proc, lockList[p] # << >>,
           lockList' = [lockList EXCEPT ![p] = Tail(@)],
           \/ owner' = owner
           \/ /\ lockList[p][1].fd \in Inode
              /\ owner' = [owner EXCEPT ![lockList[p][1].fd] = None]
    PROVE  FlockOwned' /\ Distinct'
<1>1. /\ \A q \in Proc \ {p} : lockList'[q] = lockList[q]
      /\ Len(lockList[p]) \in Nat \ {0}
      /\ Len(lockList'[p]) = Len(lockList[p]) - 1
      /\ \A n \in 1..Len(lockList'[p]) : lockList'[p][n] = lockList[p][n + 1]
  BY TailDrops
<1>2. ASSUME NEW q \in Proc, NEW n \in 1..Len(lockList[q]), lockList[q][n].fd # ByExecId,
             q = p => n # 1
      PROVE  owner'[lockList[q][n].fd] = q
  <2>1. owner[lockList[q][n].fd] = q /\ lockList[q][n].fd \in Inode /\ q # None
    BY <1>2, EntryType, LockAssumption DEF FlockOwned
  <2>2. CASE owner' = owner
    BY <2>1, <2>2
  <2>3. CASE /\ lockList[p][1].fd \in Inode
             /\ owner' = [owner EXCEPT ![lockList[p][1].fd] = None]
    <3>1. 1 \in 1..Len(lockList[p]) /\ lockList[p][1].fd # ByExecId
      BY <1>1, <2>3, LockAssumption DEF ByExecId
    <3>2. owner[lockList[p][1].fd] = p
      BY <3>1 DEF FlockOwned
    <3>3. lockList[q][n].fd # lockList[p][1].fd
      <4>1. CASE q = p
        BY <1>2, <3>1, <4>1 DEF Distinct
      <4>2. CASE q # p
        BY <2>1, <3>2, <4>2
      <4> QED BY <4>1, <4>2
    <3> QED BY <2>1, <2>3, <3>3 DEF TypeOK
  <2> QED BY <2>2, <2>3
<1>3. FlockOwned'
  <2> SUFFICES ASSUME NEW q \in Proc, NEW n \in 1..Len(lockList'[q]),
                      lockList'[q][n].fd # ByExecId
               PROVE  owner'[lockList'[q][n].fd] = q
    BY DEF FlockOwned
  <2>1. CASE q # p
    <3>1. lockList'[q] = lockList[q]
      BY <1>1, <2>1
    <3>2. n \in 1..Len(lockList[q]) /\ lockList[q][n].fd # ByExecId
      BY <3>1
    <3>3. owner'[lockList[q][n].fd] = q
      BY <1>2, <2>1, <3>2
    <3> QED BY <3>1, <3>3
  <2>2. CASE q = p
    <3>1. n + 1 \in 1..Len(lockList[q]) /\ lockList'[q][n] = lockList[q][n + 1] /\ n + 1 # 1
      BY <1>1, <2>2
    <3>2. owner'[lockList[q][n + 1].fd] = q
      BY <1>2, <3>1
    <3> QED BY <3>1, <3>2
  <2> QED BY <2>1, <2>2
<1>4. Distinct'
  <2> SUFFICES ASSUME NEW q \in Proc, NEW m \in 1..Len(lockList'[q]),
                      NEW n \in 1..Len(lockList'[q]),
                      lockList'[q][m].fd # ByExecId, lockList'[q][m].fd = lockList'[q][n].fd
               PROVE  m = n
    BY DEF Distinct
  <2>1. CASE q # p
    BY <1>1, <2>1 DEF Distinct
  <2>2. CASE q = p
    <3>1. /\ m + 1 \in 1..Len(lockList[q]) /\ lockList'[q][m] = lockList[q][m + 1]
          /\ n + 1 \in 1..Len(lockList[q]) /\ lockList'[q][n] = lockList[q][n + 1]
      BY <1>1, <2>2
    <3>2. m + 1 = n + 1
      BY <3>1 DEF Distinct
    <3> QED BY <3>2
  <2> QED BY <2>1, <2>2
<1> QED BY <1>3, <1>4

\* A process goes on releasing only while it has locks to release.
LEMMA AfterFirstLeaves ==
    ASSUME TypeOK, NEW p \in Proc, lockList[p] # << >>,
           lockList' = [lockList EXCEPT ![p] = Tail(@)]
    PROVE  /\ AfterFirst(p) \in {"gone", "release"}
           /\ AfterFirst(p) = "release" => lockList'[p] # << >>
<1>1. AfterFirst(p) \in {"gone", "release"}
  BY DEF AfterFirst
<1>2. /\ lockList'[p] \in Seq(Entry)
      /\ Len(lockList[p]) \in Nat \ {0}
      /\ Len(lockList'[p]) = Len(lockList[p]) - 1
  BY TailDrops
<1>3. ASSUME AfterFirst(p) = "release" PROVE lockList'[p] # << >>
  <2>1. Len(lockList[p]) # 1
    BY <1>3 DEF AfterFirst
  <2>2. Len(lockList'[p]) # 0
    BY <1>2, <2>1
  <2>3. Len(<< >>) = 0
    OBVIOUS
  <2> QED BY <2>2, <2>3
<1> QED BY <1>1, <1>3

LEMMA ReleaseForgetIInv == ASSUME IInv, NEW p \in Proc, ReleaseForget(p) PROVE IInv'
<1> USE DEF IInv
<1>1. /\ pc[p] \in {"held", "release"}
      /\ lockList' = [lockList EXCEPT ![p] = Tail(@)]
      /\ pc' = [pc EXCEPT ![p] = AfterFirst(p)]
      /\ UNCHANGED << link, owner, data, idx, fd, readVars >>
  BY DEF ReleaseForget
<1>2. lockList[p] # << >>
  BY <1>1 DEF Shape
<1>3. /\ lockList' \in [Proc -> Seq(Entry)]
      /\ \A q \in Proc \ {p} : lockList'[q] = lockList[q]
      /\ Len(lockList[p]) \in Nat \ {0}
      /\ Len(lockList'[p]) = Len(lockList[p]) - 1
  BY <1>1, <1>2, TailDrops
<1>4. /\ AfterFirst(p) \in {"gone", "release"}
      /\ AfterFirst(p) = "release" => lockList'[p] # << >>
  BY <1>1, <1>2, AfterFirstLeaves
<1>5. /\ AfterFirst(p) \in Pcs
      /\ fd' = [fd EXCEPT ![p] = fd[p]] /\ fd[p] \in Inode \cup {None}
  BY <1>1, <1>4 DEF Pcs, Ended, TypeOK
<1>6. TypeOK'
  BY <1>1, <1>3, <1>5 DEF TypeOK, readVars, Entry, Pcs
<1>7. Shape'
  BY <1>1, <1>3, <1>4, <1>5, ShapeStep
<1>8. FlockOwned' /\ Distinct'
  BY <1>1, <1>2, TailIInv
<1> QED BY <1>6, <1>7, <1>8

LEMMA ReleaseCloseIInv == ASSUME IInv, NEW p \in Proc, ReleaseClose(p) PROVE IInv'
<1> USE DEF IInv
<1>1. /\ pc[p] = "close"
      /\ owner' = [owner EXCEPT ![Head(lockList[p]).fd] = None]
      /\ lockList' = [lockList EXCEPT ![p] = Tail(@)]
      /\ pc' = [pc EXCEPT ![p] = AfterFirst(p)]
      /\ UNCHANGED << link, data, idx, fd, readVars >>
  BY DEF ReleaseClose
<1>2. lockList[p] # << >> /\ lockList[p][1].fd \in Inode
  BY <1>1 DEF Shape
<1>3. /\ lockList' \in [Proc -> Seq(Entry)]
      /\ \A q \in Proc \ {p} : lockList'[q] = lockList[q]
      /\ Len(lockList[p]) \in Nat \ {0}
      /\ Len(lockList'[p]) = Len(lockList[p]) - 1
  BY <1>1, <1>2, TailDrops
<1>4. /\ AfterFirst(p) \in {"gone", "release"}
      /\ AfterFirst(p) = "release" => lockList'[p] # << >>
  BY <1>1, <1>2, AfterFirstLeaves
<1>5. /\ AfterFirst(p) \in Pcs
      /\ fd' = [fd EXCEPT ![p] = fd[p]] /\ fd[p] \in Inode \cup {None}
  BY <1>1, <1>4 DEF Pcs, Ended, TypeOK
<1>6. owner' = [owner EXCEPT ![lockList[p][1].fd] = None]
  <2>1. Head(lockList[p]) = lockList[p][1]
    BY <1>2, SeqType
  <2> QED BY <1>1, <2>1
<1>7. TypeOK'
  BY <1>1, <1>3, <1>5, <1>6 DEF TypeOK, readVars, Entry, Pcs
<1>8. Shape'
  BY <1>1, <1>3, <1>4, <1>5, ShapeStep
<1>9. FlockOwned' /\ Distinct'
  BY <1>1, <1>2, <1>6, TailIInv
<1> QED BY <1>7, <1>8, <1>9

-----------------------------------------------------------------------------
\* A reader never owns an inode that a process lists.
LEMMA ReadIInv ==
    ASSUME IInv, NEW r \in Reader,
           ReadOpen(r) \/ ReadFlock(r) \/ ReadRemove(r) \/ ReadClose(r)
    PROVE  IInv'
<1> USE DEF IInv
<1>1. UNCHANGED procVars /\ pc' = pc /\ idx' = idx /\ fd' = fd /\ lockList' = lockList
  BY DEF ReadOpen, ReadFlock, ReadRemove, ReadClose, procVars
<1>2. TypeOK'
  <2>1. CASE ReadOpen(r)
    BY <1>1, <2>1 DEF ReadOpen, TypeOK
  <2>2. CASE ReadFlock(r)
    BY <1>1, <2>2 DEF ReadFlock, TypeOK, Shape
  <2>3. CASE ReadRemove(r)
    BY <1>1, <2>3 DEF ReadRemove, TypeOK
  <2>4. CASE ReadClose(r)
    BY <1>1, <2>4 DEF ReadClose, TypeOK
  <2> QED BY <2>1, <2>2, <2>3, <2>4
<1>3. Shape'
  <2>1. \A s \in Reader : rpc'[s] \in {"flock", "remove", "removed", "close"} => rfd'[s] \in Inode
    <3>1. CASE ReadOpen(r)
      BY <3>1 DEF ReadOpen, TypeOK, Shape
    <3>2. CASE ReadFlock(r)
      BY <3>2 DEF ReadFlock, TypeOK, Shape
    <3>3. CASE ReadRemove(r)
      BY <3>3 DEF ReadRemove, TypeOK, Shape
    <3>4. CASE ReadClose(r)
      BY <3>4 DEF ReadClose, TypeOK, Shape
    <3> QED BY <3>1, <3>2, <3>3, <3>4
  <2> QED BY <1>1, <2>1 DEF Shape
<1>4. \A i \in Inode : owner[i] \in Proc => owner'[i] = owner[i]
  <2>1. CASE ReadOpen(r) \/ ReadRemove(r)
    BY <2>1 DEF ReadOpen, ReadRemove
  <2>2. CASE ReadFlock(r)
    BY <2>2, LockAssumption DEF ReadFlock, TypeOK
  <2>3. CASE ReadClose(r)
    BY <2>3, LockAssumption DEF ReadClose, TypeOK
  <2> QED BY <2>1, <2>2, <2>3
<1>5. FlockOwned'
  <2> SUFFICES ASSUME NEW q \in Proc, NEW n \in 1..Len(lockList[q]),
                      lockList[q][n].fd # ByExecId
               PROVE  owner'[lockList[q][n].fd] = q
    BY <1>1 DEF FlockOwned
  <2>1. lockList[q][n].fd \in Inode /\ owner[lockList[q][n].fd] = q
    BY EntryType DEF FlockOwned
  <2> QED BY <1>4, <2>1
<1>6. Distinct'
  BY <1>1 DEF Distinct
<1> QED BY <1>2, <1>3, <1>5, <1>6

-----------------------------------------------------------------------------
\* Every step preserves the invariant.
LEMMA NextIInv == IInv /\ [Next]_vars => IInv'
<1> SUFFICES ASSUME IInv, [Next]_vars PROVE IInv'
  OBVIOUS
<1>1. CASE UNCHANGED vars
  <2>1. /\ UNCHANGED << link, owner, data >>
        /\ pc' = pc /\ idx' = idx /\ fd' = fd /\ lockList' = lockList
        /\ rpc' = rpc /\ rfd' = rfd /\ rname' = rname /\ rpid' = rpid
    BY <1>1 DEF vars, procVars, readVars
  <2>2. TypeOK' /\ Shape'
    BY <2>1 DEF IInv, TypeOK, Shape
  <2> QED BY <2>1, <2>2, NoOwnerChange
<1>2. ASSUME NEW p \in Proc,
             Timeout(p) \/ AlreadyHeld(p) \/ AcquireFail(p) \/ Crash(p)
      PROVE  IInv'
  <2>1. \E end \in Ended : Exit(p, end)
    BY <1>2 DEF Timeout, AlreadyHeld, AcquireFail, Crash, Ended
  <2> QED BY <2>1, ExitIInv
<1>3. ASSUME NEW p \in Proc,
             \/ Start(p) \/ Open(p) \/ Flock(p) \/ FlockBusy(p) \/ LockOnExecId(p)
             \/ NoLock(p) \/ Write(p) \/ ReleaseForget(p) \/ ReleaseUnlink(p)
             \/ ReleaseClose(p)
      PROVE  IInv'
  BY <1>3, StartIInv, OpenIInv, FlockIInv, FlockBusyIInv, LockOnExecIdIInv, NoLockIInv,
     WriteIInv, ReleaseForgetIInv, ReleaseUnlinkIInv, ReleaseCloseIInv
<1> QED BY <1>1, <1>2, <1>3, ReadIInv DEF Next

\* The variables of the lock module keep their types (common/lock.c).
THEOREM TypeCorrect == Spec => []TypeOK
<1>1. IInv => TypeOK
  BY DEF IInv
<1> QED BY <1>1, InitIInv, NextIInv, PTL DEF Spec

\* Whatever names are removed and whoever crashes, a process that lists an
\* inode as its lock owns the flock on it (lockAcquire, lockRelease).
THEOREM ListedIsOwned == Spec => []FlockOwned
<1>1. IInv => FlockOwned
  BY DEF IInv
<1> QED BY <1>1, InitIInv, NextIInv, PTL DEF Spec

-----------------------------------------------------------------------------
(***************************************************************************)
(* What names and inodes have to do with each other.  An inode has had one *)
(* name only, because it is created under a name and is not free again as  *)
(* long as anybody has it open, so removing a name by name removes that    *)
(* of the inode that is listed or of one nobody will look for again.       *)
(***************************************************************************)

\* p has the flock on inode i as that of f, or will try to get it next ...
Lists(p, f, i) == \E n \in 1..Len(lockList[p]) : lockList[p][n].name = f /\ lockList[p][n].fd = i
Has(p, f, i) == Lists(p, f, i) \/ (pc[p] = "flock" /\ fd[p] = i /\ Name(p) = f)

\* ... or has found it busy.
Refers(p, f, i) == Has(p, f, i) \/ (pc[p] = "read" /\ fd[p] = i /\ Name(p) = f)

Of(f, i) == link[f] = i \/ \E p \in Proc : Refers(p, f, i)

\* An inode has one name.
OneName == \A i \in Inode : \A f, g \in File : Of(f, i) /\ Of(g, i) => f = g

\* A process uses the names of its command only.
Wants(p, f) == \E n \in 1..Len(LockList[p]) : LockList[p][n] = f
OwnNames ==
    \A p \in Proc : \A f \in File : \A i \in Inode :
        Refers(p, f, i) => Wants(p, f)

\* An flock belongs to a process that lists it, or to a reader.
OwnersList ==
    /\ \A i \in Inode : owner[i] \in Proc => \E f \in File : Lists(owner[i], f, i)
    /\ \A r \in Reader : rpc[r] = "start" => \A i \in Inode : owner[i] # r

\* What is closed has lost its name, and what has gone has no locks.
Unlinked ==
    \A p \in Proc :
        /\ pc[p] = "close" => \A f \in File : link[f] # lockList[p][1].fd
        /\ pc[p] = "gone" => lockList[p] = << >>

\* As long as nobody fails and nobody reads, there is somebody to remove
\* each name.
Clean == /\ \A p \in Proc : pc[p] \notin {"failed", "assert"}
         /\ \A r \in Reader : rpc[r] = "start"
Attended ==
    Clean => \A f \in File : \A i \in Inode : link[f] = i => \E p \in Proc : Has(p, f, i)

\* The name of a lock refers to it until another of its contenders ends.
Past == {"release", "close", "gone", "failed"}
Released(p, f) ==
    \/ \E q \in Proc \ {p} : pc[q] \in Past /\ Wants(q, f)
    \/ \E r \in Stop : rpc[r] \in {"removed", "stopped"}
Linked ==
    \A p \in Proc : \A f \in File : \A i \in Inode :
        Refers(p, f, i) /\ ~Releasing(p) => link[f] = i \/ Released(p, f)

\* Only stop --force removes what it reads.
StopOnly == \A r \in Reader : rpc[r] \in {"remove", "removed", "stopped"} => r \in Stop

NamesInv == OneName /\ OwnNames /\ OwnersList /\ Unlinked /\ Attended /\ Linked /\ StopOnly

LEMMA NamesInit == Init => NamesInv
<1> SUFFICES ASSUME Init PROVE NamesInv
  OBVIOUS
<1>1. \A p \in Proc : \A f, i : ~Refers(p, f, i)
  BY DEF Init, Refers, Has, Lists
<1>2. \A f \in File : \A i \in Inode : link[f] # i
  BY LockAssumption DEF Init
<1>3. OneName /\ OwnNames /\ Linked
  BY <1>1, <1>2 DEF OneName, OwnNames, Linked, Of
<1>4. OwnersList /\ Unlinked /\ Attended /\ StopOnly
  BY LockAssumption DEF Init, OwnersList, Unlinked, Attended, StopOnly
<1> QED BY <1>3, <1>4 DEF NamesInv

\* A step of p leaves the other processes alone.
Others(p) ==
    \A q \in Proc \ {p} : /\ pc'[q] = pc[q] /\ fd'[q] = fd[q] /\ idx'[q] = idx[q]
                          /\ lockList'[q] = lockList[q]

LEMMA OthersSame ==
    ASSUME NEW p, Others(p), NEW q \in Proc \ {p}, NEW f, NEW i
    PROVE  /\ Has(q, f, i)' <=> Has(q, f, i)
           /\ Refers(q, f, i)' <=> Refers(q, f, i)
           /\ Lists(q, f, i)' <=> Lists(q, f, i)
           /\ Releasing(q)' <=> Releasing(q)
BY DEF Others, Has, Refers, Lists, Name, Releasing

\* A step that takes no new name nor inode.
LEMMA CoreNames ==
    ASSUME IInv, IInv', NamesInv, NEW p \in Proc, Others(p), UNCHANGED readVars,
           \A f \in File : link'[f] \in {link[f], None},
           \A f \in File : \A i \in Inode : Refers(p, f, i)' => Refers(p, f, i),
           \A i \in Inode : \/ owner'[i] = owner[i]
                            \/ owner'[i] = None
                            \/ owner'[i] = p /\ \E f \in File : Lists(p, f, i)',
           \A f \in File : \A i \in Inode :
                owner'[i] = p /\ owner[i] = p /\ Lists(p, f, i) => Lists(p, f, i)',
           pc'[p] = "close" => \A f \in File : link'[f] # lockList'[p][1].fd,
           pc'[p] = "gone" => lockList'[p] = << >>,
           Clean' => /\ Clean
                     /\ \A f \in File : \A i \in Inode :
                            link'[f] = i /\ Has(p, f, i) => \E q \in Proc : Has(q, f, i)',
           \A f \in File : \A i \in Inode : Refers(p, f, i)' /\ ~Releasing(p)' => ~Releasing(p),
           pc[p] \in Past => pc'[p] \in Past,
           \A f \in File : link'[f] # link[f] => pc'[p] \in Past /\ Releasing(p)' /\ Wants(p, f)
    PROVE  NamesInv'
<1> USE DEF NamesInv
<1>0. /\ \A f \in File : link[f] \in Inode \cup {None}
      /\ None \notin Inode \cup Proc \cup Reader
      /\ \A i \in Inode : owner[i] \in Proc \cup Reader \cup {None}
      /\ Proc \cap Reader = {}
  BY LockAssumption DEF IInv, TypeOK
<1>1. ASSUME NEW q \in Proc, NEW f \in File, NEW i \in Inode, Refers(q, f, i)'
      PROVE  Refers(q, f, i)
  BY <1>1, OthersSame
<1>2. OneName'
  <2>1. ASSUME NEW f \in File, NEW i \in Inode, Of(f, i)'
        PROVE  Of(f, i)
    BY <1>0, <1>1, <2>1 DEF Of
  <2> QED BY <2>1 DEF OneName
<1>3. OwnNames'
  BY <1>1 DEF OwnNames, Wants
<1>4. OwnersList'
  <2>1. ASSUME NEW i \in Inode, NEW q \in Proc, owner'[i] = q
        PROVE  \E f \in File : Lists(q, f, i)'
    <3>1. CASE owner[i] = q
      <4>1. PICK f \in File : Lists(q, f, i)
        BY <3>1 DEF OwnersList
      <4>2. Lists(q, f, i)'
        BY <2>1, <3>1, <4>1, OthersSame
      <4> QED BY <4>2
    <3>2. CASE owner[i] # q
      BY <1>0, <2>1, <3>2
    <3> QED BY <3>1, <3>2
  <2>2. ASSUME NEW r \in Reader, rpc'[r] = "start", NEW i \in Inode
        PROVE  owner'[i] # r
    <3>1. owner[i] # r
      BY <2>2 DEF OwnersList, readVars
    <3> QED BY <1>0, <3>1
  <2>3. \A i \in Inode : owner'[i] \in Proc => \E f \in File : \E q \in Proc : q = owner'[i] /\ Lists(q, f, i)'
    BY <2>1
  <2>4. \A i \in Inode : owner'[i] \in Proc => \E f \in File : Lists(owner[i], f, i)'
    BY <2>3 DEF Lists
  <2> QED BY <2>2, <2>4 DEF OwnersList
<1>5. Unlinked'
  <2>1. ASSUME NEW q \in Proc \ {p}, pc[q] = "close"
        PROVE  \A f \in File : link'[f] # lockList[q][1].fd
    <3>1. lockList[q][1].fd \in Inode
      BY <2>1 DEF IInv, Shape
    <3> QED BY <1>0, <2>1, <3>1 DEF Unlinked
  <2> QED BY <2>1 DEF Unlinked, Others
<1>6. Attended'
  <2> SUFFICES ASSUME Clean', NEW f \in File, NEW i \in Inode, link'[f] = i
               PROVE  \E q \in Proc : Has(q, f, i)'
    BY DEF Attended
  <2>1. link[f] = i
    BY <1>0
  <2>2. PICK q \in Proc : Has(q, f, i)
    BY <2>1 DEF Attended
  <2>3. CASE q = p
    BY <2>1, <2>2, <2>3
  <2>4. CASE q # p
    BY <2>1, <2>2, <2>4, OthersSame
  <2> QED BY <2>3, <2>4
<1>7. ASSUME NEW q \in Proc, NEW f \in File, Released(q, f)
      PROVE  Released(q, f)'
  BY <1>7 DEF Released, Others, Wants, readVars
<1>8. Linked'
  <2> SUFFICES ASSUME NEW q \in Proc, NEW f \in File, NEW i \in Inode,
                      Refers(q, f, i)', ~Releasing(q)'
               PROVE  link'[f] = i \/ Released(q, f)'
    BY DEF Linked
  <2>1. Refers(q, f, i) /\ ~Releasing(q)
    BY <1>1, OthersSame
  <2>2. CASE Released(q, f)
    BY <1>7, <2>2
  <2>3. CASE link[f] = i /\ link'[f] # link[f]
    <3>1. q # p /\ pc'[p] \in Past /\ Wants(p, f)
      BY <2>3
    <3> QED BY <3>1 DEF Released, Wants
  <2> QED BY <2>1, <2>2, <2>3 DEF Linked
<1>9. StopOnly'
  BY DEF StopOnly, readVars
<1> QED BY <1>2, <1>3, <1>4, <1>5, <1>6, <1>8, <1>9

LEMMA CleanBefore ==
    ASSUME NEW p \in Proc, Others(p), UNCHANGED readVars, pc[p] \notin {"failed", "assert"}
    PROVE  Clean' => Clean
BY DEF Others, Clean, readVars

LEMMA ExitNames ==
    ASSUME IInv, IInv', NamesInv, NEW p \in Proc, NEW end \in {"failed", "assert"}, Exit(p, end),
           pc[p] \in Past => end = "failed"
    PROVE  NamesInv'
<1>1. /\ pc'[p] = end /\ lockList'[p] = << >> /\ Others(p)
      /\ owner' = [i \in Inode |-> IF owner[i] = p THEN None ELSE owner[i]]
      /\ UNCHANGED << link, readVars >>
  BY DEF Exit, Others, IInv, TypeOK
<1>2. \A f \in File : \A i \in Inode : ~Refers(p, f, i)'
  BY <1>1 DEF Refers, Has, Lists
<1>3. ~Clean'
  BY <1>1 DEF Clean
<1>4. \A i \in Inode : owner'[i] \in {owner[i], None} /\ owner'[i] # p
  BY <1>1, LockAssumption
<1> QED BY <1>1, <1>2, <1>3, <1>4, CoreNames DEF Past

LEMMA StartNames ==
    ASSUME IInv, IInv', NamesInv, NEW p \in Proc, Start(p)
    PROVE  NamesInv'
<1>1. /\ pc[p] \in {"start", "wait"} /\ pc'[p] = "open" /\ Others(p) /\ lockList'[p] = lockList[p]
      /\ UNCHANGED << link, owner, readVars >>
  BY DEF Start, Others, IInv, TypeOK
<1>2. \A f \in File : \A i \in Inode : /\ Refers(p, f, i)' <=> Refers(p, f, i)
                                       /\ Has(p, f, i)' <=> Has(p, f, i)
                                       /\ Lists(p, f, i)' <=> Lists(p, f, i)
  BY <1>1 DEF Refers, Has, Lists
<1>3. Clean' => Clean
  BY <1>1, CleanBefore
<1> QED BY <1>1, <1>2, <1>3, CoreNames DEF Past, Releasing

LEMMA FlockNames ==
    ASSUME IInv, IInv', NamesInv, NEW p \in Proc, Flock(p)
    PROVE  NamesInv'
<1>1. /\ pc[p] = "flock" /\ pc'[p] = "write" /\ UNCHANGED << link, readVars >>
      /\ fd[p] \in Inode /\ List(p, fd[p]) /\ owner' = [owner EXCEPT ![fd[p]] = p]
  BY DEF Flock, IInv, TypeOK, Shape
<1>2. Others(p)
  BY <1>1, ListAppends DEF Others, Flock, IInv, TypeOK
<1>3. /\ Len(lockList'[p]) = Len(lockList[p]) + 1 /\ Len(lockList[p]) \in Nat
      /\ \A n \in 1..Len(lockList[p]) : lockList'[p][n] = lockList[p][n]
      /\ lockList'[p][Len(lockList[p]) + 1].fd = fd[p]
      /\ lockList'[p][Len(lockList[p]) + 1].name = Name(p)
  <2>1. lockList'[p][Len(lockList[p]) + 1] = [name |-> Name(p), fd |-> fd[p]]
    BY <1>1, SeqType DEF List, IInv, TypeOK
  <2> QED BY <1>1, <2>1, ListAppends, SeqType DEF IInv
<1>4. \A f \in File : \A i \in Inode :
          Lists(p, f, i)' <=> Lists(p, f, i) \/ (f = Name(p) /\ i = fd[p])
  <2> TAKE f \in File
  <2> TAKE i \in Inode
  <2>1. ASSUME NEW n \in 1..Len(lockList'[p]), n \notin 1..Len(lockList[p])
        PROVE  n = Len(lockList[p]) + 1
    BY <1>3, <2>1
  <2>2. Len(lockList[p]) + 1 \in 1..Len(lockList'[p]) /\ 1..Len(lockList[p]) \subseteq 1..Len(lockList'[p])
    BY <1>3
  <2>3. Lists(p, f, i)' => Lists(p, f, i) \/ (f = Name(p) /\ i = fd[p])
    BY <1>3, <2>1 DEF Lists
  <2>4. Lists(p, f, i) \/ (f = Name(p) /\ i = fd[p]) => Lists(p, f, i)'
    BY <1>3, <2>2 DEF Lists
  <2> QED BY <2>3, <2>4
<1>5. \A f \in File : \A i \in Inode : /\ Refers(p, f, i)' => Refers(p, f, i)
                                       /\ Has(p, f, i) => Has(p, f, i)'
  BY <1>1, <1>4 DEF Refers, Has
<1>6. Clean' => Clean
  BY <1>1, <1>2, CleanBefore
<1>7. ASSUME NEW i \in Inode
      PROVE  owner'[i] = owner[i] \/ (owner'[i] = p /\ \E f \in File : Lists(p, f, i)')
  <2>1. CASE i = fd[p]
    <3>1. \E f \in File : f = Name(p)
      BY NameInFile DEF IInv
    <3>2. owner'[i] = p
      BY <1>1, <2>1 DEF IInv, TypeOK
    <3> QED BY <1>4, <2>1, <3>1, <3>2
  <2>2. CASE i # fd[p]
    BY <1>1, <2>2 DEF IInv, TypeOK
  <2> QED BY <2>1, <2>2
<1> QED BY <1>1, <1>2, <1>4, <1>5, <1>6, <1>7, CoreNames DEF Past, Releasing

LEMMA FlockBusyNames ==
    ASSUME IInv, IInv', NamesInv, NEW p \in Proc, FlockBusy(p)
    PROVE  NamesInv'
<1>1. /\ pc[p] = "flock" /\ pc'[p] = "read" /\ Others(p) /\ lockList'[p] = lockList[p]
      /\ fd'[p] = fd[p] /\ idx'[p] = idx[p] /\ fd[p] \in Inode /\ owner[fd[p]] # None
      /\ UNCHANGED << link, owner, readVars >>
  BY DEF FlockBusy, Others, IInv, TypeOK, Shape
<1>2. \A f \in File : \A i \in Inode :
          /\ Refers(p, f, i)' <=> Refers(p, f, i)
          /\ Lists(p, f, i)' <=> Lists(p, f, i)
          /\ Has(p, f, i) => Has(p, f, i)' \/ (i = fd[p] /\ f = Name(p))
  BY <1>1 DEF Refers, Has, Lists, Name
<1>3. Clean' => Clean
  BY <1>1, CleanBefore
<1>4. ASSUME Clean, NEW f \in File, link[f] = fd[p]
      PROVE  \E q \in Proc : Has(q, f, fd[p])'
  <2>1. owner[fd[p]] \in Proc
    BY <1>1, <1>4 DEF IInv, TypeOK, NamesInv, OwnersList, Clean
  <2>2. PICK g \in File : Lists(owner[fd[p]], g, fd[p])
    BY <1>1, <2>1 DEF NamesInv, OwnersList
  <2>3. Of(g, fd[p]) /\ Of(f, fd[p])
    BY <1>4, <2>1, <2>2 DEF Of, Refers, Has
  <2>4. g = f
    BY <1>1, <2>3 DEF NamesInv, OneName
  <2>5. Lists(owner[fd[p]], f, fd[p])
    BY <2>2, <2>4
  <2>6. \A q \in Proc : Lists(q, f, fd[p]) => Lists(q, f, fd[p])'
    BY <1>1, <1>2, OthersSame
  <2> QED BY <2>1, <2>5, <2>6 DEF Has
<1> QED BY <1>1, <1>2, <1>3, <1>4, CoreNames DEF Past, Releasing

\* The inode that was found busy is forgotten.
LEMMA BusyNames ==
    ASSUME IInv, IInv', NamesInv, NEW p \in Proc, LockOnExecId(p) \/ NoLock(p)
    PROVE  NamesInv'
<1>1. /\ pc[p] = "read" /\ fd' = [fd EXCEPT ![p] = None]
      /\ \E result \in BOOLEAN : NextName(p, result)
      /\ UNCHANGED << link, owner, readVars >>
      /\ List(p, ByExecId) \/ lockList' = lockList
  BY DEF LockOnExecId, NoLock
<1>2. PICK v \in {"open", "held", "wait"} : pc' = [pc EXCEPT ![p] = v]
  BY <1>1, NextNameType DEF IInv
<1>3. pc'[p] \in {"open", "held", "wait"}
  BY <1>2 DEF IInv, TypeOK
<1>4. \A q \in Proc \ {p} : idx'[q] = idx[q]
  BY <1>1 DEF NextName, IInv, TypeOK
<1>5. Others(p)
  BY <1>1, <1>2, <1>4, ListAppends DEF Others, IInv, TypeOK
<1>6. \A f \in File : \A i \in Inode : Lists(p, f, i)' <=> Lists(p, f, i)
  <2>1. CASE lockList' = lockList
    BY <2>1 DEF Lists
  <2>2. CASE List(p, ByExecId)
    <3>1. /\ Len(lockList'[p]) = Len(lockList[p]) + 1 /\ Len(lockList[p]) \in Nat
          /\ \A n \in 1..Len(lockList[p]) : lockList'[p][n] = lockList[p][n]
          /\ lockList'[p][Len(lockList[p]) + 1].fd \notin Inode
      BY <2>2, ListAppends, SeqType, LockAssumption DEF IInv, ByExecId
    <3> QED BY <3>1, SMTT(30) DEF Lists
  <2> QED BY <1>1, <2>1, <2>2
<1>7. \A f \in File : \A i \in Inode : /\ Refers(p, f, i)' => Refers(p, f, i)
                                       /\ Has(p, f, i) => Has(p, f, i)'
  BY <1>1, <1>3, <1>6 DEF Refers, Has
<1>8. Clean' => Clean
  BY <1>1, <1>5, CleanBefore
<1> QED BY <1>1, <1>3, <1>5, <1>6, <1>7, <1>8, CoreNames DEF Past, Releasing

LEMMA WriteNames ==
    ASSUME IInv, IInv', NamesInv, NEW p \in Proc, Write(p)
    PROVE  NamesInv'
<1>1. pc[p] = "write" /\ NextName(p, TRUE) /\ UNCHANGED << link, owner, fd, lockList, readVars >>
  BY DEF Write
<1>2. PICK v \in {"open", "held", "wait"} : pc' = [pc EXCEPT ![p] = v]
  BY <1>1, NextNameType DEF IInv
<1>3. pc'[p] \in {"open", "held", "wait"}
  BY <1>2 DEF IInv, TypeOK
<1>4. \A q \in Proc \ {p} : idx'[q] = idx[q]
  BY <1>1 DEF NextName, IInv, TypeOK
<1>5. Others(p)
  BY <1>1, <1>2, <1>4 DEF Others, IInv, TypeOK
<1>6. \A f \in File : \A i \in Inode : /\ Refers(p, f, i)' <=> Refers(p, f, i)
                                       /\ Has(p, f, i)' <=> Has(p, f, i)
                                       /\ Lists(p, f, i)' <=> Lists(p, f, i)
  BY <1>1, <1>3 DEF Refers, Has, Lists
<1>7. Clean' => Clean
  BY <1>1, <1>5, CleanBefore
<1> QED BY <1>1, <1>3, <1>5, <1>6, <1>7, CoreNames DEF Past, Releasing

LEMMA TailLists ==
    ASSUME TypeOK, NEW p \in Proc, lockList[p] # << >>,
           lockList' = [lockList EXCEPT ![p] = Tail(@)]
    PROVE  /\ \A f, i : Lists(p, f, i)' => Lists(p, f, i)
           /\ \A f, i : Lists(p, f, i) /\ i # lockList[p][1].fd => Lists(p, f, i)'
           /\ AfterFirst(p) = "gone" => lockList'[p] = << >>
<1>1. /\ Len(lockList[p]) \in Nat \ {0} /\ lockList'[p] \in Seq(Entry)
      /\ Len(lockList'[p]) = Len(lockList[p]) - 1
      /\ \A n \in 1..Len(lockList'[p]) : lockList'[p][n] = lockList[p][n + 1]
  BY TailDrops
<1>2. ASSUME NEW n \in 1..Len(lockList'[p])
      PROVE  n + 1 \in 1..Len(lockList[p])
  BY <1>1
<1>3. ASSUME NEW n \in 1..Len(lockList[p]), n # 1
      PROVE  n - 1 \in 1..Len(lockList'[p]) /\ lockList'[p][n - 1] = lockList[p][n]
  <2>1. n - 1 \in 1..Len(lockList'[p]) /\ (n - 1) + 1 = n
    BY <1>1, <1>3
  <2> QED BY <1>1, <2>1
<1>4. \A f, i : Lists(p, f, i)' => Lists(p, f, i)
  BY <1>1, <1>2 DEF Lists
<1>5. \A f, i : Lists(p, f, i) /\ i # lockList[p][1].fd => Lists(p, f, i)'
  BY <1>3 DEF Lists
<1>6. AfterFirst(p) = "gone" => lockList'[p] = << >>
  <2>1. AfterFirst(p) = "gone" => Len(lockList'[p]) = 0
    BY <1>1 DEF AfterFirst
  <2> QED BY <1>1, <2>1
<1> QED BY <1>4, <1>5, <1>6

LEMMA ReleaseForgetNames ==
    ASSUME IInv, IInv', NamesInv, NEW p \in Proc, ReleaseForget(p)
    PROVE  NamesInv'
<1>1. /\ pc[p] \in {"held", "release"} /\ UNCHANGED << link, owner, fd, idx, readVars >>
      /\ lockList' = [lockList EXCEPT ![p] = Tail(@)] /\ pc' = [pc EXCEPT ![p] = AfterFirst(p)]
      /\ Head(lockList[p]).fd = ByExecId
  BY DEF ReleaseForget
<1>2. lockList[p] # << >> /\ Head(lockList[p]) = lockList[p][1]
  <2>1. lockList[p] # << >> /\ lockList[p] \in Seq(Entry)
    BY <1>1, SeqType DEF IInv, Shape
  <2> QED BY <2>1
<1>3. /\ \A f \in File : \A i \in Inode : Lists(p, f, i)' <=> Lists(p, f, i)
      /\ AfterFirst(p) = "gone" => lockList'[p] = << >>
  BY <1>1, <1>2, TailLists, LockAssumption DEF IInv, ByExecId
<1>4. Others(p) /\ pc'[p] = AfterFirst(p)
  BY <1>1, <1>2, TailDrops DEF Others, IInv, TypeOK
<1>5. pc'[p] \in {"gone", "release"}
  BY <1>4 DEF AfterFirst
<1>6. \A f \in File : \A i \in Inode : /\ Refers(p, f, i)' => Refers(p, f, i)
                                       /\ Has(p, f, i) => Has(p, f, i)'
  BY <1>1, <1>3, <1>5 DEF Refers, Has
<1>7. \A f \in File : \A i \in Inode : ~(Refers(p, f, i)' /\ ~Releasing(p)')
  BY <1>3, <1>4, <1>5 DEF Refers, Has, Lists, Releasing
<1>8. Clean' => Clean
  BY <1>1, <1>4, CleanBefore
<1> QED BY <1>1, <1>3, <1>4, <1>5, <1>6, <1>7, <1>8, CoreNames DEF Past

LEMMA ReleaseUnlinkNames ==
    ASSUME IInv, IInv', NamesInv, NEW p \in Proc, ReleaseUnlink(p)
    PROVE  NamesInv'
<1> DEFINE g == lockList[p][1].name
           j == lockList[p][1].fd
<1>1. /\ pc[p] \in {"held", "release"} /\ UNCHANGED << owner, fd, idx, lockList, readVars >>
      /\ pc' = [pc EXCEPT ![p] = "close"]
      /\ Head(lockList[p]).fd # ByExecId
      /\ link' = [link EXCEPT ![Head(lockList[p]).name] = None]
  BY DEF ReleaseUnlink
<1>2. /\ Head(lockList[p]) = lockList[p][1] /\ 1 \in 1..Len(lockList[p])
  <2>1. lockList[p] # << >> /\ lockList[p] \in Seq(Entry)
    BY <1>1, SeqType DEF IInv, Shape
  <2> QED BY <2>1
<1>3. g \in File /\ j \in Inode /\ Lists(p, g, j)
  BY <1>1, <1>2, EntryType DEF IInv, Lists
<1> HIDE DEF g, j
<1>4. link' = [link EXCEPT ![g] = None] /\ link \in [File -> Inode \cup {None}]
  BY <1>1, <1>2 DEF g, IInv, TypeOK
<1>5. Others(p) /\ pc'[p] = "close" /\ lockList'[p] = lockList[p]
  BY <1>1 DEF Others, IInv, TypeOK
<1>6. \A f \in File : \A i \in Inode : /\ Refers(p, f, i)' <=> Refers(p, f, i)
                                       /\ Has(p, f, i)' <=> Has(p, f, i)
                                       /\ Lists(p, f, i)' <=> Lists(p, f, i)
  BY <1>1, <1>5 DEF Refers, Has, Lists
<1>7. Wants(p, g)
  BY <1>3 DEF NamesInv, OwnNames, Refers, Has
<1>8. \A f \in File : link'[f] # j
  <2> SUFFICES ASSUME NEW f \in File, link'[f] = j PROVE FALSE
    OBVIOUS
  <2>1. f # g /\ link[f] = j
    BY <1>3, <1>4, LockAssumption
  <2>2. Of(f, j) /\ Of(g, j)
    BY <1>3, <2>1 DEF Of, Refers, Has
  <2> QED BY <1>3, <2>1, <2>2 DEF NamesInv, OneName
<1>9. \A f \in File : link'[f] # lockList'[p][1].fd
  BY <1>5, <1>8 DEF j
<1>10. Clean' => Clean
  BY <1>1, <1>5, CleanBefore
<1>11. Releasing(p)' /\ pc'[p] \in Past
  BY <1>5 DEF Releasing, Past
<1>12. \A f \in File : link'[f] \in {link[f], None} /\ (link'[f] # link[f] => f = g)
  BY <1>4
<1> QED BY <1>1, <1>5, <1>6, <1>7, <1>9, <1>10, <1>11, <1>12, CoreNames

LEMMA ReleaseCloseNames ==
    ASSUME IInv, IInv', NamesInv, NEW p \in Proc, ReleaseClose(p)
    PROVE  NamesInv'
<1>1. /\ pc[p] = "close" /\ UNCHANGED << link, fd, idx, readVars >>
      /\ lockList' = [lockList EXCEPT ![p] = Tail(@)] /\ pc' = [pc EXCEPT ![p] = AfterFirst(p)]
      /\ owner' = [owner EXCEPT ![Head(lockList[p]).fd] = None]
  BY DEF ReleaseClose
<1>2. /\ lockList[p] # << >> /\ Head(lockList[p]) = lockList[p][1]
      /\ lockList[p][1].fd \in Inode
  <2>1. lockList[p] # << >> /\ lockList[p] \in Seq(Entry) /\ lockList[p][1].fd \in Inode
    BY <1>1, SeqType DEF IInv, Shape
  <2> QED BY <2>1
<1>3. /\ \A f \in File : \A i \in Inode : Lists(p, f, i)' => Lists(p, f, i)
      /\ \A f \in File : \A i \in Inode : i # lockList[p][1].fd /\ Lists(p, f, i) => Lists(p, f, i)'
      /\ AfterFirst(p) = "gone" => lockList'[p] = << >>
  BY <1>1, <1>2, TailLists DEF IInv
<1>4. Others(p) /\ pc'[p] = AfterFirst(p)
  BY <1>1, <1>2, TailDrops DEF Others, IInv, TypeOK
<1>5. pc'[p] \in {"gone", "release"}
  BY <1>4 DEF AfterFirst
<1>6. \A f \in File : \A i \in Inode :
          /\ Refers(p, f, i)' => Refers(p, f, i)
          /\ i # lockList[p][1].fd /\ Has(p, f, i) => Has(p, f, i)'
  BY <1>1, <1>3, <1>5 DEF Refers, Has
<1>7. \A f \in File : \A i \in Inode : ~(Refers(p, f, i)' /\ ~Releasing(p)')
  BY <1>3, <1>4, <1>5 DEF Refers, Has, Lists, Releasing
<1>8. Clean' => Clean
  BY <1>1, <1>4, CleanBefore
<1>9. \A i \in Inode : owner'[i] = IF i = lockList[p][1].fd THEN None ELSE owner[i]
  BY <1>1, <1>2 DEF IInv, TypeOK
<1>10. \A f \in File : link[f] # lockList[p][1].fd
  BY <1>1 DEF NamesInv, Unlinked
<1>11. p # None
  BY LockAssumption
<1> QED BY <1>1, <1>3, <1>4, <1>5, <1>6, <1>7, <1>8, <1>9, <1>10, <1>11, CoreNames DEF Past

LEMMA OpenNames ==
    ASSUME IInv, IInv', NamesInv, NEW p \in Proc, Open(p)
    PROVE  NamesInv'
<1> USE DEF NamesInv
<1> DEFINE n == Name(p)
<1>0. n \in File /\ Wants(p, n)
  <2>1. idx[p] \in 1..Len(LockList[p])
    BY DEF IInv, TypeOK
  <2> QED BY <2>1, NameInFile DEF IInv, Wants, Name
<1>1. /\ pc[p] = "open" /\ pc'[p] = "flock" /\ lockList' = lockList /\ idx' = idx
      /\ UNCHANGED << owner, readVars >>
  BY DEF Open, IInv, TypeOK
<1>2. PICK i \in Inode :
        /\ fd' = [fd EXCEPT ![p] = i]
        /\ link' = [link EXCEPT ![n] = i]
        /\ link[n] = i \/ (link[n] = None /\ Free(i))
  <2>1. CASE link[n] # None
    <3>1. link[n] \in Inode /\ link' = [link EXCEPT ![n] = link[n]]
      BY <1>0, <2>1 DEF Open, IInv, TypeOK
    <3> QED BY <2>1, <3>1 DEF Open
  <2>2. CASE link[n] = None
    <3> DEFINE i == CHOOSE j \in Inode : Free(j)
    <3>1. \E j \in Inode : Free(j)
      BY <2>2 DEF Open
    <3>2. i \in Inode /\ Free(i)
      BY <3>1
    <3>3. fd' = [fd EXCEPT ![p] = i] /\ link' = [link EXCEPT ![n] = i]
      BY <2>2 DEF Open
    <3> HIDE DEF i
    <3> QED BY <2>2, <3>2, <3>3
  <2> QED BY <2>1, <2>2
<1> HIDE DEF n
<1>3. Others(p) /\ fd'[p] = i /\ idx'[p] = idx[p] /\ lockList'[p] = lockList[p]
  BY <1>1, <1>2 DEF Others, Open, IInv, TypeOK
<1>4. link'[n] = i /\ \A f \in File : f # n => link'[f] = link[f]
  BY <1>0, <1>2 DEF IInv, TypeOK
<1>5. \A f \in File : \A j \in Inode :
          /\ Lists(p, f, j)' <=> Lists(p, f, j)
          /\ Refers(p, f, j) <=> Lists(p, f, j)
          /\ Has(p, f, j) <=> Lists(p, f, j)
          /\ Refers(p, f, j)' <=> Lists(p, f, j) \/ (j = i /\ f = n)
          /\ Has(p, f, j)' <=> Lists(p, f, j) \/ (j = i /\ f = n)
  BY <1>1, <1>3 DEF Refers, Has, Lists, Name, n
<1>6. ASSUME link[n] = None, NEW q \in Proc, NEW f
      PROVE  ~Refers(q, f, i)
  <2>1. Free(i) /\ i # None
    BY <1>2, <1>6, LockAssumption
  <2> QED BY <2>1 DEF Free, Refers, Has, Lists
<1>7. ASSUME NEW f \in File, Of(f, i)
      PROVE  f = n
  <2>1. CASE link[n] = i
    BY <1>0, <1>7, <2>1 DEF OneName, Of
  <2>2. CASE link[n] = None /\ Free(i)
    BY <1>6, <1>7, <2>2 DEF Of, Free
  <2> QED BY <1>2, <2>1, <2>2
<1>8. ASSUME NEW q \in Proc, NEW f \in File, NEW j \in Inode, Refers(q, f, j)'
      PROVE  Refers(q, f, j) \/ (q = p /\ j = i /\ f = n)
  BY <1>3, <1>5, <1>8, OthersSame
<1>9. OneName'
  <2>1. ASSUME NEW f \in File, NEW j \in Inode, Of(f, j)'
        PROVE  Of(f, j) \/ (j = i /\ f = n)
    BY <1>4, <1>8, <2>1 DEF Of
  <2> QED BY <1>7, <2>1 DEF OneName
<1>10. OwnNames'
  BY <1>0, <1>8 DEF OwnNames, Wants
<1>11. OwnersList'
  BY <1>1 DEF OwnersList, Lists, readVars
<1>12. Unlinked'
  <2> SUFFICES ASSUME NEW q \in Proc \ {p}, pc[q] = "close", NEW f \in File,
                      link'[f] = lockList[q][1].fd
               PROVE  FALSE
    BY <1>1, <1>3 DEF Unlinked, Others
  <2>1. f = n /\ i = lockList[q][1].fd /\ link[n] = None
    BY <1>0, <1>2, <1>4 DEF Unlinked
  <2>2. lockList[q] # << >> /\ lockList[q] \in Seq(Entry)
    BY SeqType DEF IInv, Shape
  <2>3. 1 \in 1..Len(lockList[q])
    BY <2>2
  <2>4. Lists(q, lockList[q][1].name, i)
    BY <2>1, <2>3 DEF Lists
  <2> QED BY <1>6, <2>1, <2>4 DEF Refers, Has
<1>13. Attended'
  <2> SUFFICES ASSUME Clean', NEW f \in File, NEW j \in Inode, link'[f] = j
               PROVE  \E q \in Proc : Has(q, f, j)'
    BY DEF Attended
  <2>1. CASE f = n
    BY <1>4, <1>5, <2>1
  <2>2. CASE f # n
    <3>1. Clean
      BY <1>1, <1>3, CleanBefore
    <3>2. PICK q \in Proc : Has(q, f, j)
      BY <1>4, <2>2, <3>1 DEF Attended
    <3>3. Has(q, f, j)'
      BY <1>3, <1>5, <3>2, OthersSame
    <3> QED BY <3>3
  <2> QED BY <2>1, <2>2
<1>14. Linked'
  <2> SUFFICES ASSUME NEW q \in Proc, NEW f \in File, NEW j \in Inode,
                      Refers(q, f, j)', ~Releasing(q)'
               PROVE  link'[f] = j \/ Released(q, f)'
    BY DEF Linked
  <2>1. CASE q = p /\ j = i /\ f = n
    BY <1>4, <2>1
  <2>2. CASE Refers(q, f, j)
    <3>1. ~Releasing(q)
      BY <1>1, <1>3, OthersSame DEF Releasing
    <3>2. Released(q, f) => Released(q, f)'
      BY <1>1, <1>3 DEF Released, Others, Wants, readVars, Past
    <3>3. link[f] = j => link'[f] = j
      BY <1>2, <1>4, LockAssumption
    <3> QED BY <2>2, <3>1, <3>2, <3>3 DEF Linked
  <2> QED BY <1>8, <2>1, <2>2
<1>15. StopOnly'
  BY <1>1 DEF StopOnly, readVars
<1> QED BY <1>9, <1>10, <1>11, <1>12, <1>13, <1>14, <1>15

\* A reader takes a name away at most, and then it is stop --force.
LEMMA ReadNames ==
    ASSUME IInv, NamesInv, NEW r \in Reader,
           ReadOpen(r) \/ ReadFlock(r) \/ ReadRemove(r) \/ ReadClose(r)
    PROVE  NamesInv'
<1> USE DEF NamesInv
<1>1. pc' = pc /\ idx' = idx /\ fd' = fd /\ lockList' = lockList
  BY DEF ReadOpen, ReadFlock, ReadRemove, ReadClose, procVars
<1>2. \A p \in Proc : \A f, i : /\ Lists(p, f, i)' <=> Lists(p, f, i)
                                /\ Refers(p, f, i)' <=> Refers(p, f, i)
  BY <1>1 DEF Lists, Refers, Has, Name
<1>3. /\ rpc'[r] \in {"gone", "flock", "close", "remove", "removed", "stopped"}
      /\ \A s \in Reader \ {r} : rpc'[s] = rpc[s]
      /\ rpc'[r] \in {"remove", "removed", "stopped"} => r \in Stop
      /\ rpc[r] \in {"removed", "stopped"} => rpc'[r] \in {"removed", "stopped"}
  <2>1. CASE ReadOpen(r)
    BY <2>1 DEF ReadOpen, IInv, TypeOK
  <2>2. CASE ReadFlock(r)
    <3>1. PICK end \in {"close"} \cup (IF r \in Stop THEN {"remove"} ELSE {}) :
             rpc' = [rpc EXCEPT ![r] = end]
      BY <2>2 DEF ReadFlock
    <3>2. rpc[r] = "flock" /\ rpc \in [Reader -> {"start", "flock", "remove", "removed", "close", "gone", "stopped"}]
      BY <2>2 DEF ReadFlock, IInv, TypeOK
    <3> QED BY <3>1, <3>2
  <2>3. CASE ReadRemove(r)
    BY <2>3 DEF ReadRemove, IInv, TypeOK, StopOnly
  <2>4. CASE ReadClose(r)
    BY <2>4 DEF ReadClose, IInv, TypeOK, StopOnly
  <2> QED BY <2>1, <2>2, <2>3, <2>4
<1>4. /\ \A f \in File : link'[f] \in {link[f], None}
      /\ link' # link => r \in Stop /\ rpc'[r] = "removed"
  <2>1. CASE ReadRemove(r)
    BY <2>1 DEF ReadRemove, IInv, TypeOK, StopOnly
  <2>2. CASE ReadOpen(r) \/ ReadFlock(r) \/ ReadClose(r)
    BY <2>2 DEF ReadOpen, ReadFlock, ReadClose
  <2> QED BY <2>1, <2>2
<1>5. \A i \in Inode : owner'[i] \in {owner[i], r, None}
  BY DEF ReadOpen, ReadFlock, ReadRemove, ReadClose, IInv, TypeOK
<1>6. \A f \in File : \A i \in Inode : Of(f, i)' => Of(f, i)
  BY <1>2, <1>4, LockAssumption DEF Of
<1>7. OneName' /\ OwnNames'
  BY <1>2, <1>6 DEF OneName, OwnNames, Wants
<1>8. OwnersList'
  <2>1. ASSUME NEW i \in Inode, owner'[i] \in Proc
        PROVE  owner'[i] = owner[i]
    BY <1>5, <2>1, LockAssumption
  <2>2. \A i \in Inode : owner'[i] \in Proc => \E f \in File : Lists(owner[i], f, i)'
    BY <1>1, <2>1 DEF OwnersList, Lists
  <2>3. \A s \in Reader : rpc'[s] = "start" => \A i \in Inode : owner'[i] # s
    BY <1>3, <1>5, LockAssumption DEF OwnersList
  <2> QED BY <2>2, <2>3 DEF OwnersList
<1>9. Unlinked'
  <2>1. ASSUME NEW q \in Proc, pc[q] = "close" PROVE lockList[q][1].fd \in Inode
    BY <2>1 DEF IInv, Shape
  <2> QED BY <1>1, <1>4, <2>1, LockAssumption DEF Unlinked
<1>10. Attended'
  BY <1>3 DEF Attended, Clean
<1>11. Linked'
  <2>1. \A p \in Proc : Releasing(p)' <=> Releasing(p)
    BY <1>1 DEF Releasing
  <2>2. \A p \in Proc : \A f \in File : Released(p, f) => Released(p, f)'
    BY <1>1, <1>3, LockAssumption DEF Released, Wants
  <2>3. link' # link => \A p \in Proc : \A f \in File : Released(p, f)'
    BY <1>3, <1>4 DEF Released
  <2> QED BY <1>2, <2>1, <2>2, <2>3 DEF Linked
<1>12. StopOnly'
  BY <1>3 DEF StopOnly
<1> QED BY <1>7, <1>8, <1>9, <1>10, <1>11, <1>12

LEMMA NamesStep == IInv /\ NamesInv /\ [Next]_vars => NamesInv'
<1> SUFFICES ASSUME IInv, NamesInv, [Next]_vars PROVE NamesInv'
  OBVIOUS
<1>0. IInv'
  BY NextIInv
<1>1. CASE UNCHANGED vars
  <2>1. /\ UNCHANGED << link, owner, data >>
        /\ pc' = pc /\ idx' = idx /\ fd' = fd /\ lockList' = lockList
        /\ rpc' = rpc
    BY <1>1 DEF vars, procVars, readVars
  <2>2. Clean' = Clean /\ \A p, f : Released(p, f)' <=> Released(p, f)
    BY <2>1 DEF Clean, Released, Wants
  <2>3. \A p, f, i : /\ Lists(p, f, i)' <=> Lists(p, f, i)
                     /\ Has(p, f, i)' <=> Has(p, f, i)
                     /\ Refers(p, f, i)' <=> Refers(p, f, i)
    BY <2>1 DEF Lists, Has, Refers, Name
  <2>4. \A f, i : Of(f, i)' <=> Of(f, i)
    BY <2>1, <2>3 DEF Of
  <2>5. OneName' /\ OwnNames' /\ Unlinked' /\ StopOnly'
    BY <2>1, <2>3, <2>4 DEF NamesInv, OneName, OwnNames, Unlinked, StopOnly, Wants
  <2>6. OwnersList'
    BY <2>1 DEF NamesInv, OwnersList, Lists
  <2>7. Attended' /\ Linked'
    BY <2>1, <2>2, <2>3 DEF NamesInv, Attended, Linked, Releasing
  <2> QED BY <2>5, <2>6, <2>7 DEF NamesInv
<1>2. ASSUME NEW p \in Proc, Timeout(p) \/ AlreadyHeld(p) \/ AcquireFail(p) \/ Crash(p)
      PROVE  NamesInv'
  <2>1. \/ Exit(p, "failed")
        \/ Exit(p, "assert") /\ pc[p] = "open"
    BY <1>2 DEF Timeout, AlreadyHeld, AcquireFail, Crash
  <2> QED BY <1>0, <2>1, ExitNames DEF Past
<1>3. ASSUME NEW p \in Proc,
             \/ Start(p) \/ Open(p) \/ Flock(p) \/ FlockBusy(p) \/ LockOnExecId(p)
             \/ NoLock(p) \/ Write(p) \/ ReleaseForget(p) \/ ReleaseUnlink(p)
             \/ ReleaseClose(p)
      PROVE  NamesInv'
  BY <1>0, <1>3, StartNames, OpenNames, FlockNames, FlockBusyNames, BusyNames, WriteNames,
     ReleaseForgetNames, ReleaseUnlinkNames, ReleaseCloseNames
<1> QED BY <1>1, <1>2, <1>3, ReadNames DEF Next

LEMMA Names == Spec => [](IInv /\ NamesInv)
BY InitIInv, NextIInv, NamesInit, NamesStep, PTL DEF Spec

-----------------------------------------------------------------------------
\* Commands that end normally leave no lock file behind (lockReleaseFile):
\* whoever has created one or has found it locked when another creates it is
\* followed by somebody who removes it, for any number of processes.
THEOREM NothingLeft == Spec => []NoResidue
<1>1. ASSUME IInv, NamesInv PROVE NoResidue
  <2> SUFFICES ASSUME \A p \in Proc : pc[p] = "gone", \A r \in Reader : rpc[r] = "start",
                      NEW f \in File, link[f] # None
               PROVE  FALSE
    BY DEF NoResidue
  <2>1. Clean /\ link[f] \in Inode
    BY <1>1 DEF Clean, IInv, TypeOK
  <2>2. PICK p \in Proc : Has(p, f, link[f])
    BY <1>1, <2>1 DEF NamesInv, Attended
  <2>3. lockList[p] = << >>
    BY <1>1 DEF NamesInv, Unlinked
  <2> QED BY <2>2, <2>3 DEF Has, Lists
<1> QED BY <1>1, Names, PTL

TwoContenders ==
    \A f \in File : \A p, q, r \in Proc :
        Wants(p, f) /\ Wants(q, f) /\ Wants(r, f) => p = q \/ q = r \/ p = r

\* Where at most two processes contend for a lock file, they exclude each
\* other (lockAcquire), whatever else they lock, who reads the files and
\* who is killed.  A third one could lock a new file of the name while the
\* second has the flock on the one the first has just removed.
THEOREM Excluded ==
    ASSUME TwoContenders
    PROVE  Spec => []MutualExclusion
<1>1. ASSUME IInv, NamesInv PROVE MutualExclusion
  <2> SUFFICES ASSUME \A r \in Stop : rpc[r] \notin {"removed", "stopped"},
                      NEW f \in File, NEW p \in Proc, NEW q \in Proc,
                      Holds(p, f), Holds(q, f), p # q
               PROVE  FALSE
    BY DEF MutualExclusion
  <2>1. ASSUME NEW a \in Proc, Holds(a, f)
        PROVE  \E i \in Inode : Lists(a, f, i) /\ Refers(a, f, i)
    BY <1>1, <2>1, EntryType DEF Holds, IInv, Lists, Refers, Has
  <2>2. PICK i \in Inode, j \in Inode : /\ Lists(p, f, i) /\ Refers(p, f, i)
                                        /\ Lists(q, f, j) /\ Refers(q, f, j)
    BY <2>1
  <2>3. Wants(p, f) /\ Wants(q, f)
    BY <1>1, <2>2 DEF NamesInv, OwnNames
  <2>4. pc[p] \notin Past /\ pc[q] \notin Past
    BY DEF Holds, Past, Running, Releasing, Ended
  <2>5. ~Released(p, f) /\ ~Released(q, f)
    BY <2>3, <2>4 DEF Released, TwoContenders
  <2>6. link[f] = i /\ link[f] = j
    BY <1>1, <2>2, <2>5 DEF NamesInv, Linked, Holds
  <2>7. owner[i] = p /\ owner[j] = q
    BY <1>1, <2>2, LockAssumption DEF Lists, IInv, FlockOwned, ByExecId
  <2> QED BY <2>6, <2>7
<1> QED BY <1>1, Names, PTL
=============================================================================
