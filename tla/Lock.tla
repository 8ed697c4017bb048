-------------------------------- MODULE Lock --------------------------------
(***************************************************************************)
(* The advisory lock files of common/lock.c, taken by command/lock.c for   *)
(* every command that changes a repository or a spool directory.           *)
(*                                                                         *)
(* A lock is an flock() on an open file, so it belongs to an inode and not *)
(* to a name.  Opening (and creating) the file, locking it, writing its    *)
(* contents, removing its name and closing it are separate system calls,   *)
(* and the steps of the processes below interleave between any two.        *)
(***************************************************************************)
EXTENDS Naturals, Sequences, FiniteSets

CONSTANTS
    Proc,       \* processes that acquire locks; each runs one command and exits
    Async,      \* those that ask for returnOnNoLock (archive-push, archive-get)
    Reader,     \* processes that only call lockRead(): info, and stop --force
    Stop,       \* the readers that may remove the file they read (stop --force)
    File,       \* lock file names
    Inode,      \* supply of inodes
    ExecId,     \* exec-ids, one per main process, shared with what it spawns
    Exec,       \* Exec[p]: the exec-id process p runs under
    LockList,   \* LockList[p]: the names p locks, in order (cmdLockList)
    None        \* no inode, no owner, no contents

ASSUME LockAssumption ==
    /\ Async \subseteq Proc /\ Stop \subseteq Reader /\ Proc \cap Reader = {}
    /\ None \notin Proc \cup Reader \cup Inode
    /\ File # {}
    /\ Exec \in [Proc -> ExecId]
    /\ LockList \in [Proc -> Seq(File)]
    /\ \A p \in Proc : LockList[p] # << >>

VARIABLES
    link,       \* link[f]: the inode the name f refers to
    owner,      \* owner[i]: who holds the flock on inode i
    data,       \* data[i]: the process whose exec-id and pid inode i contains
    pc,         \* where each process is in cmdLockAcquire / cmdLockRelease
    idx,        \* lockListIdx, the name of LockList[p] being acquired
    fd,         \* the inode a process has opened and not yet listed
    lockList,   \* lockLocal.lockList, the locks a process believes it holds
    rpc,        \* where each reader is in lockRead
    rfd,        \* the inode a reader has open
    rname,      \* the name a reader is reading
    rpid        \* the process a reader has read from a locked file

procVars == << pc, idx, fd, lockList >>
readVars == << rpc, rfd, rname, rpid >>
vars == << link, owner, data, procVars, readVars >>

ByExecId == None   \* LOCK_ON_EXEC_ID in place of a file descriptor
-----------------------------------------------------------------------------
Ended == {"failed", "gone", "assert"}
Running(p) == pc[p] \notin Ended \cup {"start"}

\* An inode is free when no name and no open file refers to it.
Free(i) ==
    /\ \A f \in File : link[f] # i
    /\ \A p \in Proc : fd[p] # i /\ \A n \in 1..Len(lockList[p]) : lockList[p][n].fd # i
    /\ \A r \in Reader : rfd[r] # i

Name(p) == LockList[p][idx[p]]
Listed(p, f) == \E n \in 1..Len(lockList[p]) : lockList[p][n].name = f

List(p, i) ==
    lockList' = [lockList EXCEPT ![p] = Append(@, [name |-> Name(p), fd |-> i])]

\* Faulty variant of NextName: the end of the list is overrun.
NextNameOverrun(p, result) ==
    IF idx[p] <= Len(LockList[p])
    THEN /\ idx' = [idx EXCEPT ![p] = @ + 1]
         /\ pc' = [pc EXCEPT ![p] = "open"]
    ELSE /\ pc' = [pc EXCEPT ![p] = IF result THEN "held" ELSE "wait"]
         /\ UNCHANGED idx

\* The loop of cmdLockAcquire after lockAcquire() returned result: the next
\* name, or the end of the list, where the last result alone decides.
NextName(p, result) ==
    IF idx[p] < Len(LockList[p])
    THEN /\ idx' = [idx EXCEPT ![p] = @ + 1]
         /\ pc' = [pc EXCEPT ![p] = "open"]
    ELSE /\ pc' = [pc EXCEPT ![p] = IF result THEN "held" ELSE "wait"]
         /\ UNCHANGED idx

\* The kernel closes every file of a process that exits, dropping its flocks;
\* the names stay.
Exit(p, end) ==
    /\ pc' = [pc EXCEPT ![p] = end]
    /\ fd' = [fd EXCEPT ![p] = None]
    /\ lockList' = [lockList EXCEPT ![p] = << >>]
    /\ owner' = [i \in Inode |-> IF owner[i] = p THEN None ELSE owner[i]]
    /\ UNCHANGED << link, data, idx, readVars >>
-----------------------------------------------------------------------------
Init ==
    /\ link = [f \in File |-> None]
    /\ owner = [i \in Inode |-> None]
    /\ data = [i \in Inode |-> None]
    /\ pc = [p \in Proc |-> "start"]
    /\ idx = [p \in Proc |-> 1]
    /\ fd = [p \in Proc |-> None]
    /\ lockList = [p \in Proc |-> << >>]
    /\ rpc = [r \in Reader |-> "start"]
    /\ rfd = [r \in Reader |-> None]
    /\ rname \in [Reader -> File]
    /\ rpid = [r \in Reader |-> None]

\* cmdLockAcquire(), from cfgLoad() or, in Async, from the wait loop of the
\* foreground command, which comes back here until its time is up.
Start(p) ==
    /\ pc[p] \in {"start", "wait"}
    /\ pc' = [pc EXCEPT ![p] = "open"]
    /\ idx' = [idx EXCEPT ![p] = 1]
    /\ UNCHANGED << link, owner, data, fd, lockList, readVars >>

Timeout(p) ==
    /\ pc[p] = "wait"
    /\ Exit(p, "failed")

\* lstFind(lockLocal.lockList) != NULL: "lock on file already held"
AlreadyHeld(p) ==
    /\ pc[p] = "open"
    /\ Listed(p, Name(p))
    /\ Exit(p, "assert")

\* open(name, O_RDWR | O_CREAT)
Open(p) ==
    /\ pc[p] = "open"
    /\ ~Listed(p, Name(p))
    /\ IF link[Name(p)] # None
       THEN /\ fd' = [fd EXCEPT ![p] = link[Name(p)]]
            /\ UNCHANGED << link, data >>
       ELSE LET i == CHOOSE j \in Inode : Free(j) IN
            /\ \E j \in Inode : Free(j)
            /\ fd' = [fd EXCEPT ![p] = i]
            /\ link' = [link EXCEPT ![Name(p)] = i]
            /\ data' = [data EXCEPT ![i] = None]
    /\ pc' = [pc EXCEPT ![p] = "flock"]
    /\ UNCHANGED << owner, idx, lockList, readVars >>

\* Faulty variant of Flock: the file is locked LOCK_SH.
FlockShared(p) ==
    /\ pc[p] = "flock"
    /\ owner' = [owner EXCEPT ![fd[p]] = p]
    /\ List(p, fd[p])
    /\ fd' = [fd EXCEPT ![p] = None]
    /\ pc' = [pc EXCEPT ![p] = "write"]
    /\ UNCHANGED << link, data, idx, readVars >>

\* flock(fd, LOCK_EX | LOCK_NB) succeeds
Flock(p) ==
    /\ pc[p] = "flock"
    /\ owner[fd[p]] = None
    /\ owner' = [owner EXCEPT ![fd[p]] = p]
    /\ List(p, fd[p])
    /\ fd' = [fd EXCEPT ![p] = None]
    /\ pc' = [pc EXCEPT ![p] = "write"]
    /\ UNCHANGED << link, data, idx, readVars >>

FlockBusy(p) ==
    /\ pc[p] = "flock"
    /\ owner[fd[p]] # None
    /\ pc' = [pc EXCEPT ![p] = "read"]
    /\ UNCHANGED << link, owner, data, idx, fd, lockList, readVars >>

SameExecId(p) == data[fd[p]] # None /\ Exec[data[fd[p]]] = Exec[p]

\* The lock is busy but its contents carry this process's exec-id: it was
\* taken by a process of the same command, and counts as acquired.
LockOnExecId(p) ==
    /\ pc[p] = "read"
    /\ SameExecId(p)
    /\ List(p, ByExecId)
    /\ fd' = [fd EXCEPT ![p] = None]
    /\ NextName(p, TRUE)
    /\ UNCHANGED << link, owner, data, readVars >>

\* Faulty variant of NoLock: fd is not set to -1, so the file is listed.
NoLockListed(p) ==
    /\ pc[p] = "read"
    /\ ~SameExecId(p)
    /\ p \in Async
    /\ List(p, fd[p])
    /\ fd' = [fd EXCEPT ![p] = None]
    /\ pc' = [pc EXCEPT ![p] = "write"]
    /\ UNCHANGED << link, owner, data, idx, readVars >>

\* With returnOnNoLock lockAcquire() returns false and cmdLockAcquire goes on
\* to the next name ...
NoLock(p) ==
    /\ pc[p] = "read"
    /\ ~SameExecId(p)
    /\ p \in Async
    /\ fd' = [fd EXCEPT ![p] = None]
    /\ NextName(p, FALSE)
    /\ UNCHANGED << link, owner, data, lockList, readVars >>

\* ... otherwise it throws.  cmdLockLocal.held is still false, so exitSafe()
\* releases nothing.
AcquireFail(p) ==
    /\ pc[p] = "read"
    /\ ~SameExecId(p)
    /\ p \notin Async
    /\ Exit(p, "failed")

\* lockWriteP() of the exec-id and the pid
Write(p) ==
    /\ pc[p] = "write"
    /\ data' = [data EXCEPT ![lockList[p][Len(lockList[p])].fd] = p]
    /\ NextName(p, TRUE)
    /\ UNCHANGED << link, owner, fd, lockList, readVars >>

Releasing(p) == pc[p] \in {"release", "close"}
AfterFirst(p) == IF Len(lockList[p]) = 1 THEN "gone" ELSE "release"

\* The command ends: lockRelease() takes the locks from the front of the list.
\* A lock by exec-id is only forgotten ...
ReleaseForget(p) ==
    /\ pc[p] \in {"held", "release"}
    /\ Head(lockList[p]).fd = ByExecId
    /\ lockList' = [lockList EXCEPT ![p] = Tail(@)]
    /\ pc' = [pc EXCEPT ![p] = AfterFirst(p)]
    /\ UNCHANGED << link, owner, data, idx, fd, readVars >>

\* Faulty variant of ReleaseUnlink: the file is closed and its name left.
ReleaseKeepName(p) ==
    /\ pc[p] \in {"held", "release"}
    /\ Head(lockList[p]).fd # ByExecId
    /\ pc' = [pc EXCEPT ![p] = "close"]
    /\ UNCHANGED << link, owner, data, idx, fd, lockList, readVars >>

\* ... for a real one the name is removed, by name, and then the file closed.
ReleaseUnlink(p) ==
    /\ pc[p] \in {"held", "release"}
    /\ Head(lockList[p]).fd # ByExecId
    /\ link' = [link EXCEPT ![Head(lockList[p]).name] = None]
    /\ pc' = [pc EXCEPT ![p] = "close"]
    /\ UNCHANGED << owner, data, idx, fd, lockList, readVars >>

ReleaseClose(p) ==
    /\ pc[p] = "close"
    /\ owner' = [owner EXCEPT ![Head(lockList[p]).fd] = None]
    /\ lockList' = [lockList EXCEPT ![p] = Tail(@)]
    /\ pc' = [pc EXCEPT ![p] = AfterFirst(p)]
    /\ UNCHANGED << link, data, idx, fd, readVars >>

\* The process is killed while it holds or waits for locks.  SIGTERM before
\* the locks are held has the same effect (exitOnSignal, exitSafe); once they
\* are held it leads to ReleaseUnlink like the end of the command.
Crash(p) ==
    /\ Running(p)
    /\ Exit(p, "failed")
-----------------------------------------------------------------------------
\* lockRead(): open without O_CREAT (a missing file ends the read) ...
ReadOpen(r) ==
    /\ rpc[r] = "start"
    /\ rfd' = [rfd EXCEPT ![r] = link[rname[r]]]
    /\ rpc' = [rpc EXCEPT ![r] = IF link[rname[r]] = None THEN "gone" ELSE "flock"]
    /\ UNCHANGED << link, owner, data, procVars, rname, rpid >>

\* ... try to lock it, which succeeds when the process that held it has died,
\* or else read who holds it ...
ReadFlock(r) ==
    LET i == rfd[r] IN
    /\ rpc[r] = "flock"
    /\ owner' = [owner EXCEPT ![i] = IF @ = None THEN r ELSE @]
    /\ rpid' = [rpid EXCEPT ![r] = IF owner[i] = None THEN None ELSE data[i]]
    /\ \E end \in {"close"} \cup (IF r \in Stop THEN {"remove"} ELSE {}) :
        rpc' = [rpc EXCEPT ![r] = end]
    /\ UNCHANGED << link, data, procVars, rfd, rname >>

\* ... stop --force removes the name, whatever it refers to by now ...
ReadRemove(r) ==
    /\ rpc[r] = "remove"
    /\ link' = [link EXCEPT ![rname[r]] = None]
    /\ rpc' = [rpc EXCEPT ![r] = "removed"]
    /\ UNCHANGED << owner, data, procVars, rfd, rname, rpid >>

\* ... and closes the file.  The SIGTERM it then sends to rpid is a Crash or
\* an early release, which are enabled anyway.
ReadClose(r) ==
    /\ rpc[r] \in {"close", "removed"}
    /\ owner' = [owner EXCEPT ![rfd[r]] = IF @ = r THEN None ELSE @]
    /\ rfd' = [rfd EXCEPT ![r] = None]
    /\ rpc' = [rpc EXCEPT ![r] = IF @ = "close" THEN "gone" ELSE "stopped"]
    /\ UNCHANGED << link, data, procVars, rname, rpid >>
-----------------------------------------------------------------------------
Next ==
    \/ \E p \in Proc :
        \/ Start(p) \/ Timeout(p) \/ AlreadyHeld(p) \/ Open(p) \/ Flock(p)
        \/ FlockBusy(p) \/ LockOnExecId(p) \/ NoLock(p) \/ AcquireFail(p)
        \/ Write(p) \/ ReleaseForget(p) \/ ReleaseUnlink(p) \/ ReleaseClose(p)
        \/ Crash(p)
    \/ \E r \in Reader :
        \/ ReadOpen(r) \/ ReadFlock(r) \/ ReadRemove(r) \/ ReadClose(r)

Spec == Init /\ [][Next]_vars
-----------------------------------------------------------------------------
\* The types of the variables.
TypeOK ==
    /\ link \in [File -> Inode \cup {None}]
    /\ owner \in [Inode -> Proc \cup Reader \cup {None}]
    /\ data \in [Inode -> Proc \cup {None}]
    /\ pc \in [Proc -> Ended \cup {"start", "open", "flock", "read", "write",
                                   "wait", "held", "release", "close"}]
    /\ idx \in [Proc -> Nat] /\ \A p \in Proc : idx[p] \in 1..Len(LockList[p])
    /\ fd \in [Proc -> Inode \cup {None}]
    /\ lockList \in [Proc -> Seq([name : File, fd : Inode \cup {ByExecId}])]
    /\ rpc \in [Reader -> {"start", "flock", "remove", "removed", "close", "gone", "stopped"}]
    /\ rfd \in [Reader -> Inode \cup {None}]
    /\ rname \in [Reader -> File]
    /\ rpid \in [Reader -> Proc \cup {None}]

\* p has taken an flock on a file named f and its command has not ended.
Holds(p, f) ==
    /\ Running(p) /\ ~Releasing(p)
    /\ \E n \in 1..Len(lockList[p]) :
        lockList[p][n].name = f /\ lockList[p][n].fd # ByExecId

\* Two processes never both run under the flock of one lock file name, which
\* is what every caller of cmdLockAcquire() relies on, unless a stop --force
\* has removed the name.
MutualExclusion ==
    (\A r \in Stop : rpc[r] \notin {"removed", "stopped"})
    => \A f \in File, p, q \in Proc : Holds(p, f) /\ Holds(q, f) => p = q

\* Whoever listed an inode as its lock owns its flock and nobody else does,
\* whatever names have been removed meanwhile.
FlockOwned ==
    \A p \in Proc : \A n \in 1..Len(lockList[p]) :
        lockList[p][n].fd # ByExecId => owner[lockList[p][n].fd] = p

\* Commands that end normally leave none of their lock files behind: when all
\* have ended, none failed and nobody has read a lock file, which takes its
\* flock for a moment, no lock file name is left.
NoResidue ==
    (\A p \in Proc : pc[p] = "gone") /\ (\A r \in Reader : rpc[r] = "start")
    => \A f \in File : link[f] = None
=============================================================================
