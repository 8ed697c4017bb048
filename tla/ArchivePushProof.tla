-------------------------- MODULE ArchivePushProof --------------------------
(***************************************************************************)
(* Proofs about ArchivePush for any number of segments, repositories,      *)
(* async processes and workers, in both modes.                             *)
(*                                                                         *)
(* AckedIsArchived is not inductive: the acknowledgment of PostgreSQL      *)
(* rests on an ok file or on the end of the foreground's own push          *)
(* (StatusSound), those on the job of a worker (JobSound), and a job of    *)
(* the foreground must be for the segment it was asked to push (FgJob).    *)
(***************************************************************************)
EXTENDS ArchivePush, TLAPS

\* A segment that may be acknowledged.
Safe(s) == Archived(s) \/ s \in dropped

\* What was acknowledged, has an ok file or has just been pushed is safe.
StatusSound ==
    /\ \A s \in done : Safe(s)
    /\ \A s \in okFile : Safe(s)
    /\ fpc = "pushed" => Safe(fseg)

\* A job without an error has left behind only repositories with its segment.
JobSound ==
    \A o \in Owner, w \in Worker :
        job[o][w] # Idle /\ ~job[o][w].error =>
            \A r \in Repo \ job[o][w].todo : job[o][w].seg \in store[r]

\* The foreground has one job at most, for its own segment.
FgJob ==
    \A w \in Worker : job[Fg][w] # Idle =>
        /\ fpc = "file" /\ job[Fg][w].seg = fseg
        /\ \A v \in Worker : job[Fg][v] # Idle => v = w

IInv == TypeOK /\ StatusSound /\ JobSound /\ FgJob

-----------------------------------------------------------------------------
(* The initial states. *)

LEMMA InitType ==
    Init => TypeOK
<1> SUFFICES ASSUME Init PROVE TypeOK
  OBVIOUS
<1>1. job \in [Owner -> [Worker -> JobType]]
  BY DEF Init, JobType
<1>2. PgType /\ SpoolType
  BY DEF Init, PgType, SpoolType
<1>3. FgType
  BY DEF Init, FgType
<1>4. AsType
  BY DEF Init, AsType
<1>5. EnvType
  <2>1. 0 \in 0..MaxFault
    BY ArchivePushAssumption
  <2> QED BY <2>1 DEF Init, EnvType
<1> QED BY <1>1, <1>2, <1>3, <1>4, <1>5 DEF TypeOK

LEMMA InitInv ==
    Init => IInv
<1> SUFFICES ASSUME Init PROVE IInv
  OBVIOUS
<1>1. TypeOK
  BY InitType
<1>2. StatusSound
  BY DEF Init, StatusSound
<1>3. JobSound
  BY DEF Init, JobSound, Idle
<1>4. FgJob
  BY DEF Init, FgJob, Owner
<1> QED BY <1>1, <1>2, <1>3, <1>4 DEF IInv

-----------------------------------------------------------------------------
(* Type correctness. *)

\* A job that is not idle has the fields of a job.
LEMMA JobFields ==
    ASSUME TypeOK, NEW o \in Owner, NEW w \in Worker, job[o][w].step # "idle"
    PROVE  job[o][w] \in [seg : Seg, todo : SUBSET Repo, error : BOOLEAN,
                          step : {"find", "copy"}]
<1>1. job[o][w] \in JobType
  BY DEF TypeOK
<1>2. job[o][w] # Idle
  BY DEF Idle
<1> QED BY <1>1, <1>2 DEF JobType

\* A job array stays one when an entry becomes a job.
LEMMA JobUpdate ==
    ASSUME TypeOK, NEW o \in Owner, NEW w \in Worker, NEW j \in JobType
    PROVE  [job EXCEPT ![o][w] = j] \in [Owner -> [Worker -> JobType]]
BY DEF TypeOK

\* How JobClose changes the job of a worker.
LEMMA JobCloseUpdate ==
    ASSUME TypeOK, NEW o \in Owner, NEW w \in Worker, NEW r \in Repo, JobClose(o, w, r)
    PROVE  /\ \E j \in JobType :
                /\ job' = [job EXCEPT ![o][w] = j]
                /\ j # Idle /\ j.seg = job[o][w].seg /\ j.todo = job[o][w].todo \ {r}
                /\ j.error = (job[o][w].error \/ r \notin up)
           /\ job' \in [Owner -> [Worker -> JobType]]
<1> DEFINE j == [job[o][w] EXCEPT !.todo = @ \ {r}, !.error = @ \/ r \notin up]
<1>1. job[o][w] \in [seg : Seg, todo : SUBSET Repo, error : BOOLEAN, step : {"find", "copy"}]
  BY JobFields DEF JobClose
<1>2. j \in JobType /\ j # Idle
  BY <1>1 DEF JobType, Idle
<1>3. job' = [job EXCEPT ![o][w] = j]
  BY DEF JobClose
<1>4. job' \in [Owner -> [Worker -> JobType]]
  BY <1>2, <1>3, JobUpdate
<1> QED BY <1>1, <1>2, <1>3, <1>4

\* Every step keeps the types.
LEMMA TypeStep ==
    ASSUME TypeOK, [Next]_vars
    PROVE  TypeOK'
<1> USE ArchivePushAssumption
<1>1. CASE PgReady
  BY <1>1 DEF PgReady, TypeOK, PgType, SpoolType, FgType, AsType, EnvType, Owner,
     pgVars, spoolVars, fgVars, asVars, envVars
<1>2. CASE PgDone
  BY <1>2 DEF PgDone, TypeOK, PgType, SpoolType, FgType, AsType, EnvType, Owner,
     pgVars, spoolVars, fgVars, asVars, envVars
<1>3. CASE FgStart
  BY <1>3 DEF FgStart, Oldest, TypeOK, PgType, SpoolType, FgType, AsType, EnvType, Owner,
     pgVars, spoolVars, fgVars, asVars, envVars
<1>4. CASE FgStatusOk
  BY <1>4 DEF FgStatusOk, FgGoto, TypeOK, PgType, SpoolType, FgType, AsType, EnvType, Owner,
     pgVars, spoolVars, fgVars, asVars, envVars
<1>5. CASE FgStatusError
  BY <1>5 DEF FgStatusError, FgGoto, TypeOK, PgType, SpoolType, FgType, AsType, EnvType, Owner,
     pgVars, spoolVars, fgVars, asVars, envVars
<1>6. CASE FgStatusThrow
  BY <1>6 DEF FgStatusThrow, FgEnd, TypeOK, PgType, SpoolType, FgType, AsType, EnvType, Owner,
     pgVars, spoolVars, fgVars, asVars, envVars
<1>7. CASE FgStatusIgnore
  BY <1>7 DEF FgStatusIgnore, FgGoto, TypeOK, PgType, SpoolType, FgType, AsType, EnvType, Owner,
     pgVars, spoolVars, fgVars, asVars, envVars
<1>8. CASE FgLock
  BY <1>8 DEF FgLock, TypeOK, PgType, SpoolType, FgType, AsType, EnvType, Owner,
     pgVars, spoolVars, fgVars, asVars, envVars
<1>9. CASE FgNoLock
  BY <1>9 DEF FgNoLock, FgGoto, TypeOK, PgType, SpoolType, FgType, AsType, EnvType, Owner,
     pgVars, spoolVars, fgVars, asVars, envVars
<1>10. CASE FgErrorClear
  BY <1>10 DEF FgErrorClear, TypeOK, PgType, SpoolType, FgType, AsType, EnvType, Owner,
     pgVars, spoolVars, fgVars, asVars, envVars
<1>11. CASE FgExec
  BY <1>11 DEF FgExec, TypeOK, PgType, SpoolType, FgType, AsType, EnvType, Owner,
     pgVars, spoolVars, fgVars, asVars, envVars
<1>12. CASE FgAgain
  BY <1>12 DEF FgAgain, TypeOK, PgType, SpoolType, FgType, AsType, EnvType, Owner,
     pgVars, spoolVars, fgVars, asVars, envVars
<1>13. CASE FgTimeout
  BY <1>13 DEF FgTimeout, FgEnd, TypeOK, PgType, SpoolType, FgType, AsType, EnvType, Owner,
     pgVars, spoolVars, fgVars, asVars, envVars
<1>14. CASE FgSyncDrop
  BY <1>14 DEF FgSyncDrop, TypeOK, PgType, SpoolType, FgType, AsType, EnvType, Owner,
     pgVars, spoolVars, fgVars, asVars, envVars
<1>15. CASE FgSyncCheck
  <2>1. CASE up = {}
    BY <2>1, <1>15 DEF FgSyncCheck, FgEnd, TypeOK, PgType, SpoolType, FgType, AsType, EnvType, Owner,
       pgVars, spoolVars, fgVars, asVars, envVars
  <2>2. CASE up # {}
    <3>1. PICK w \in Worker : job' = [job EXCEPT ![Fg][w] = NewJob(fseg, up)]
      BY <2>2, <1>15 DEF FgSyncCheck
    <3>2. NewJob(fseg, up) \in JobType
      BY <1>15 DEF FgSyncCheck, NewJob, JobType, TypeOK, FgType, EnvType
    <3>3. job' \in [Owner -> [Worker -> JobType]]
      BY <3>1, <3>2, JobUpdate DEF Owner
    <3> QED BY <2>2, <3>3, <1>15 DEF FgSyncCheck, TypeOK, PgType, SpoolType, FgType, AsType, EnvType, Owner,
            pgVars, spoolVars, fgVars, asVars, envVars
  <2> QED BY <2>1, <2>2
<1>16. CASE FgSyncEnd
  <2>1. PICK w \in Worker : job' = [job EXCEPT ![Fg][w] = Idle]
    BY <1>16 DEF FgSyncEnd
  <2>2. job' \in [Owner -> [Worker -> JobType]]
    BY <2>1, JobUpdate DEF Owner, JobType
  <2> QED BY <2>2, <1>16 DEF FgSyncEnd, TypeOK, PgType, SpoolType, FgType, AsType, EnvType, Owner,
          pgVars, spoolVars, fgVars, asVars, envVars
<1>17. ASSUME NEW a \in Async, AsLoad(a) PROVE TypeOK'
  BY <1>17 DEF AsLoad, AsKeep, TypeOK, PgType, SpoolType, FgType, AsType, EnvType, Owner,
     pgVars, spoolVars, fgVars, asVars, envVars
<1>18. ASSUME NEW a \in Async, AsStopped(a) PROVE TypeOK'
  BY <1>18 DEF AsStopped, AsKeep, TypeOK, PgType, SpoolType, FgType, AsType, EnvType, Owner,
     pgVars, spoolVars, fgVars, asVars, envVars
<1>19. ASSUME NEW a \in Async, AsListStatus(a) PROVE TypeOK'
  BY <1>19 DEF AsListStatus, AsKeep, TypeOK, PgType, SpoolType, FgType, AsType, EnvType, Owner,
     pgVars, spoolVars, fgVars, asVars, envVars
<1>20. ASSUME NEW a \in Async, AsListReady(a) PROVE TypeOK'
  BY <1>20 DEF AsListReady, AsKeep, TypeOK, PgType, SpoolType, FgType, AsType, EnvType, Owner,
     pgVars, spoolVars, fgVars, asVars, envVars
<1>21. ASSUME NEW a \in Async, AsDrop(a) PROVE TypeOK'
  BY <1>21 DEF AsDrop, Oldest, AsKeep, TypeOK, PgType, SpoolType, FgType, AsType, EnvType, Owner,
     pgVars, spoolVars, fgVars, asVars, envVars
<1>22. ASSUME NEW a \in Async, AsCheck(a) PROVE TypeOK'
  BY <1>22 DEF AsCheck, AsKeep, TypeOK, PgType, SpoolType, FgType, AsType, EnvType, Owner,
     pgVars, spoolVars, fgVars, asVars, envVars
<1>23. ASSUME NEW a \in Async, AsFatal(a) PROVE TypeOK'
  BY <1>23 DEF AsFatal, AsKeep, TypeOK, PgType, SpoolType, FgType, AsType, EnvType, Owner,
     pgVars, spoolVars, fgVars, asVars, envVars
<1>24. ASSUME NEW a \in Async, AsExit(a) PROVE TypeOK'
  BY <1>24 DEF AsExit, AsKeep, TypeOK, PgType, SpoolType, FgType, AsType, EnvType, Owner,
     pgVars, spoolVars, fgVars, asVars, envVars
<1>25. ASSUME NEW a \in Async, NEW w \in Worker, AsJob(a, w) PROVE TypeOK'
  <2>1. PICK s \in Oldest(walFileList[a]) :
            /\ job' = [job EXCEPT ![a][w] = NewJob(s, repoList[a])]
            /\ walFileList' = [walFileList EXCEPT ![a] = @ \ {s}]
    BY <1>25 DEF AsJob
  <2>2. NewJob(s, repoList[a]) \in JobType
    BY <2>1 DEF Oldest, NewJob, JobType, TypeOK, AsType
  <2>3. job' \in [Owner -> [Worker -> JobType]]
    BY <2>1, <2>2, JobUpdate DEF Owner
  <2> QED BY <2>1, <2>3, <1>25 DEF AsJob, AsKeep, TypeOK, PgType, SpoolType, FgType, AsType, EnvType, Owner,
          pgVars, spoolVars, fgVars, asVars, envVars
<1>26. ASSUME NEW a \in Async, NEW w \in Worker, AsResult(a, w) PROVE TypeOK'
  <2>1. job[a][w].seg \in Seg
    BY <1>26, JobFields DEF AsResult, Owner
  <2>2. job' \in [Owner -> [Worker -> JobType]]
    BY <1>26, JobUpdate DEF AsResult, Owner, JobType
  <2>3. okFile' \subseteq Seg /\ errFile' \subseteq Seg \cup {Global}
        /\ fresh' \subseteq Seg \cup {Global}
    BY <2>1, <1>26 DEF AsResult, TypeOK, SpoolType
  <2> QED BY <2>2, <2>3, <1>26 DEF AsResult, AsKeep, TypeOK, PgType, SpoolType, FgType, AsType, EnvType,
          pgVars, spoolVars, fgVars, asVars, envVars
<1>27. ASSUME NEW a \in Async, NEW w \in Worker, JobOrphan(a, w) PROVE TypeOK'
  <2>1. job' \in [Owner -> [Worker -> JobType]]
    BY <1>27, JobUpdate DEF JobOrphan, Owner, JobType
  <2> QED BY <2>1, <1>27 DEF JobOrphan, JobKeep, TypeOK, PgType, SpoolType, FgType, AsType, EnvType, Owner,
          pgVars, spoolVars, fgVars, asVars, envVars
<1>28. ASSUME NEW o \in Owner, NEW w \in Worker, JobFind(o, w) PROVE TypeOK'
  <2> DEFINE j == job[o][w]
             k == [seg |-> j.seg, todo |-> {r \in j.todo : r \in up /\ j.seg \notin store[r]},
                   step |-> "copy", error |-> j.error \/ ~(j.todo \subseteq up)]
  <2>1. j \in [seg : Seg, todo : SUBSET Repo, error : BOOLEAN, step : {"find", "copy"}]
    BY <1>28, JobFields DEF JobFind
  <2>2. k \in JobType
    BY <2>1 DEF JobType
  <2>3. job' = [job EXCEPT ![o][w] = k]
    BY <1>28 DEF JobFind
  <2>4. job' \in [Owner -> [Worker -> JobType]]
    BY <2>2, <2>3, JobUpdate
  <2> QED BY <2>4, <1>28 DEF JobFind, JobKeep, TypeOK, PgType, SpoolType, FgType, AsType, EnvType, Owner,
          pgVars, spoolVars, fgVars, asVars, envVars
<1>29. ASSUME NEW o \in Owner, NEW w \in Worker, NEW r \in Repo, JobClose(o, w, r) PROVE TypeOK'
  <2>1. job[o][w] \in [seg : Seg, todo : SUBSET Repo, error : BOOLEAN, step : {"find", "copy"}]
    BY <1>29, JobFields DEF JobClose
  <2>2. job' \in [Owner -> [Worker -> JobType]]
    BY <2>1, <1>29, JobCloseUpdate
  <2>3. store' \in [Repo -> SUBSET Seg]
    BY <2>1, <1>29 DEF JobClose, TypeOK, PgType
  <2> QED BY <2>2, <2>3, <1>29 DEF JobClose, JobKeep, TypeOK, PgType, SpoolType, FgType, AsType, EnvType, Owner,
          pgVars, spoolVars, fgVars, asVars, envVars
<1>30. CASE FgKill
  <2>1. job' \in [Owner -> [Worker -> JobType]]
    BY <1>30 DEF FgKill, TypeOK, Owner, JobType
  <2> QED BY <2>1, <1>30 DEF FgKill, Fault, TypeOK, PgType, SpoolType, FgType, AsType, EnvType, Owner,
          pgVars, spoolVars, fgVars, asVars, envVars
<1>31. CASE CmdStop
  BY <1>31 DEF CmdStop, Fault, TypeOK, PgType, SpoolType, FgType, AsType, EnvType, Owner,
     pgVars, spoolVars, fgVars, asVars, envVars
<1>32. CASE CmdStart
  BY <1>32 DEF CmdStart, TypeOK, PgType, SpoolType, FgType, AsType, EnvType, Owner,
     pgVars, spoolVars, fgVars, asVars, envVars
<1>33. ASSUME NEW a \in Async, AsKill(a) PROVE TypeOK'
  BY <1>33 DEF AsKill, Fault, TypeOK, PgType, SpoolType, FgType, AsType, EnvType, Owner,
     pgVars, spoolVars, fgVars, asVars, envVars
<1>34. ASSUME NEW a \in Async, AsProtocolError(a) PROVE TypeOK'
  BY <1>34 DEF AsProtocolError, Fault, TypeOK, PgType, SpoolType, FgType, AsType, EnvType, Owner,
     pgVars, spoolVars, fgVars, asVars, envVars
<1>35. ASSUME NEW r \in Repo, RepoDown(r) PROVE TypeOK'
  BY <1>35 DEF RepoDown, Fault, TypeOK, PgType, SpoolType, FgType, AsType, EnvType, Owner,
     pgVars, spoolVars, fgVars, asVars, envVars
<1>36. ASSUME NEW r \in Repo, RepoUp(r) PROVE TypeOK'
  BY <1>36 DEF RepoUp, TypeOK, PgType, SpoolType, FgType, AsType, EnvType, Owner,
     pgVars, spoolVars, fgVars, asVars, envVars
<1>37. CASE UNCHANGED vars
  BY <1>37 DEF vars, TypeOK, PgType, SpoolType, FgType, AsType, EnvType,
     pgVars, spoolVars, fgVars, asVars, envVars
<1> QED
  BY <1>1, <1>2, <1>3, <1>4, <1>5, <1>6, <1>7, <1>8, <1>9, <1>10, <1>11, <1>12, <1>13, <1>14,
     <1>15, <1>16, <1>17, <1>18, <1>19, <1>20, <1>21, <1>22, <1>23, <1>24, <1>25, <1>26,
     <1>27, <1>28, <1>29, <1>30, <1>31, <1>32, <1>33, <1>34, <1>35, <1>36, <1>37
  DEF Next, Foreground, AsyncProcess, Job, Environment

\* The variables of PostgreSQL, of the spool, of the processes and of the
\* environment keep their types.
THEOREM TypeCorrect ==
    Spec => []TypeOK
<1>1. TypeOK /\ [Next]_vars => TypeOK'
  BY TypeStep
<1> QED BY InitType, <1>1, PTL DEF Spec

-----------------------------------------------------------------------------
(* Which actions change what. *)

\* Only PostgreSQL adds to done, and only what the foreground has pushed.
LEMMA DoneStep ==
    ASSUME [Next]_vars
    PROVE  done' = done \/ (fpc = "pushed" /\ done' = done \cup {fseg})
BY ZenonT(40) DEF Next, vars, PgReady, PgDone, Foreground, FgStart, FgStatusOk, FgStatusError,
   FgStatusThrow, FgStatusIgnore, FgLock, FgNoLock, FgErrorClear, FgExec, FgAgain, FgTimeout,
   FgSyncDrop, FgSyncCheck, FgSyncEnd, FgEnd, FgGoto, AsyncProcess, AsLoad, AsStopped,
   AsListStatus, AsListReady, AsDrop, AsCheck, AsJob, AsResult, AsFatal, AsExit, AsKeep, Job,
   JobFind, JobClose, JobOrphan, JobKeep, Environment, Fault, FgKill, AsKill,
   AsProtocolError, RepoDown, RepoUp, CmdStop, CmdStart, pgVars, spoolVars, fgVars, asVars,
   envVars

\* Only a copy that is closed changes a repository.
LEMMA StoreStep ==
    ASSUME [Next]_vars
    PROVE  store' = store \/ \E o \in Owner, w \in Worker, r \in Repo : JobClose(o, w, r)
BY ZenonT(40) DEF Next, vars, PgReady, PgDone, Foreground, FgStart, FgStatusOk, FgStatusError,
   FgStatusThrow, FgStatusIgnore, FgLock, FgNoLock, FgErrorClear, FgExec, FgAgain, FgTimeout,
   FgSyncDrop, FgSyncCheck, FgSyncEnd, FgEnd, FgGoto, AsyncProcess, AsLoad, AsStopped,
   AsListStatus, AsListReady, AsDrop, AsCheck, AsJob, AsResult, AsFatal, AsExit, AsKeep, Job,
   JobFind, JobClose, JobOrphan, JobKeep, Environment, Fault, FgKill, AsKill,
   AsProtocolError, RepoDown, RepoUp, CmdStop, CmdStart, pgVars, spoolVars, fgVars, asVars,
   envVars

\* Segments are dropped one at a time.
LEMMA DroppedStep ==
    ASSUME TypeOK, [Next]_vars
    PROVE  dropped' = dropped \/ \E s \in Seg : dropped' = dropped \cup {s}
<1>1. \/ dropped' = dropped
      \/ fpc = "drop" /\ dropped' = dropped \cup {fseg}
      \/ \E a \in Async : \E s \in walFileList[a] : dropped' = dropped \cup {s}
  BY ZenonT(40) DEF Next, vars, PgReady, PgDone, Foreground, FgStart, FgStatusOk, FgStatusError,
   FgStatusThrow, FgStatusIgnore, FgLock, FgNoLock, FgErrorClear, FgExec, FgAgain, FgTimeout,
   FgSyncDrop, FgSyncCheck, FgSyncEnd, FgEnd, FgGoto, AsyncProcess, AsLoad, AsStopped,
   AsListStatus, AsListReady, AsDrop, AsCheck, AsJob, AsResult, AsFatal, AsExit, AsKeep, Job,
   JobFind, JobClose, JobOrphan, JobKeep, Environment, Fault, FgKill, AsKill,
   AsProtocolError, RepoDown, RepoUp, CmdStop, CmdStart, pgVars, spoolVars, fgVars, asVars,
   envVars, Oldest
<1>2. fpc = "drop" => fseg \in Seg
  BY DEF TypeOK, FgType
<1>3. \A a \in Async : walFileList[a] \subseteq Seg
  BY DEF TypeOK, AsType
<1> QED BY <1>1, <1>2, <1>3

\* An ok file is new when its segment was dropped or its job has no error.
LEMMA OkStep ==
    ASSUME [Next]_vars, NEW s, s \in okFile', s \notin okFile
    PROVE  \/ s \in dropped' /\ \E a \in Async : s \in walFileList[a]
           \/ \E a \in Async, w \in Worker :
                /\ job[a][w].step = "copy" /\ job[a][w].todo = {}
                /\ ~job[a][w].error /\ s = job[a][w].seg
<1>1. \/ \E a \in Async : AsDrop(a)
      \/ \E a \in Async, w \in Worker : AsResult(a, w)
      \/ okFile' \subseteq okFile
  BY ZenonT(40) DEF Next, vars, PgReady, PgDone, Foreground, FgStart, FgStatusOk, FgStatusError,
   FgStatusThrow, FgStatusIgnore, FgLock, FgNoLock, FgErrorClear, FgExec, FgAgain, FgTimeout,
   FgSyncDrop, FgSyncCheck, FgSyncEnd, FgEnd, FgGoto, AsyncProcess, AsLoad, AsStopped,
   AsListStatus, AsListReady, AsCheck, AsJob, AsFatal, AsExit, AsKeep, Job,
   JobFind, JobClose, JobOrphan, JobKeep, Environment, Fault, FgKill, AsKill,
   AsProtocolError, RepoDown, RepoUp, CmdStop, CmdStart, pgVars, spoolVars, fgVars, asVars,
   envVars
<1>2. ASSUME NEW a \in Async, AsDrop(a) PROVE s \in dropped' /\ s \in walFileList[a]
  BY <1>2 DEF AsDrop, Oldest
<1>3. ASSUME NEW a \in Async, NEW w \in Worker, AsResult(a, w)
      PROVE  /\ job[a][w].step = "copy" /\ job[a][w].todo = {}
             /\ ~job[a][w].error /\ s = job[a][w].seg
  BY <1>3 DEF AsResult
<1> QED BY <1>1, <1>2, <1>3

\* The foreground has pushed its segment when an ok file or its own job says so.
LEMMA PushedStep ==
    ASSUME [Next]_vars, fpc' = "pushed"
    PROVE  /\ fseg' = fseg
           /\ \/ fpc = "pushed" \/ fseg \in okFile \/ fseg \in dropped'
              \/ \E w \in Worker :
                    /\ job[Fg][w].step = "copy" /\ job[Fg][w].todo = {}
                    /\ ~job[Fg][w].error /\ fpc = "file"
BY ZenonT(40) DEF Next, vars, PgReady, PgDone, Foreground, FgStart, FgStatusOk, FgStatusError,
   FgStatusThrow, FgStatusIgnore, FgLock, FgNoLock, FgErrorClear, FgExec, FgAgain, FgTimeout,
   FgSyncDrop, FgSyncCheck, FgSyncEnd, FgEnd, FgGoto, AsyncProcess, AsLoad, AsStopped,
   AsListStatus, AsListReady, AsDrop, AsCheck, AsJob, AsResult, AsFatal, AsExit, AsKeep, Job,
   JobFind, JobClose, JobOrphan, JobKeep, Environment, Fault, FgKill, AsKill,
   AsProtocolError, RepoDown, RepoUp, CmdStop, CmdStart, pgVars, spoolVars, fgVars, asVars,
   envVars

\* The actions that change job.
LEMMA JobBy ==
    ASSUME [Next]_vars
    PROVE  \/ job' = job
           \/ FgSyncCheck \/ FgSyncEnd \/ FgKill
           \/ \E a \in Async, v \in Worker : AsJob(a, v) \/ AsResult(a, v) \/ JobOrphan(a, v)
           \/ \E p \in Owner, v \in Worker :
                 JobFind(p, v) \/ \E r \in Repo : JobClose(p, v, r)
BY DEF Next, vars, PgReady, PgDone, Foreground, FgStart, FgStatusOk, FgStatusError,
   FgStatusThrow, FgStatusIgnore, FgLock, FgNoLock, FgErrorClear, FgExec, FgAgain, FgTimeout,
   FgSyncDrop, FgEnd, FgGoto, AsyncProcess, AsLoad, AsStopped,
   AsListStatus, AsListReady, AsDrop, AsCheck, AsFatal, AsExit, AsKeep, Job,
   JobKeep, Environment, Fault, AsKill,
   AsProtocolError, RepoDown, RepoUp, CmdStop, CmdStart, pgVars, spoolVars, fgVars, asVars,
   envVars

\* A segment the foreground or an async process is about to push.
Listed(s) == (fpc = "drop" /\ s = fseg) \/ \E a \in Async : s \in walFileList[a]

\* What can become of one entry of job that is not idle afterwards.
LEMMA EntryStep ==
    ASSUME TypeOK, [Next]_vars, NEW o \in Owner, NEW w \in Worker, job'[o][w] # Idle
    PROVE  \/ job'[o][w] = job[o][w]
           \/ \E s \in Seg, R \in SUBSET Repo : job'[o][w] = NewJob(s, R) /\ Listed(s)
           \/ JobFind(o, w)
           \/ \E r \in Repo : JobClose(o, w, r)
<1> DEFINE New == \E s \in Seg, R \in SUBSET Repo : job'[o][w] = NewJob(s, R) /\ Listed(s)
<1>0. job \in [Owner -> [Worker -> JobType]]
  BY DEF TypeOK
<1>2. CASE FgSyncCheck
  <2>1. up \subseteq Repo /\ fseg \in Seg
    BY <1>2 DEF FgSyncCheck, TypeOK, EnvType, FgType
  <2>2. job' = job \/ \E v \in Worker : job' = [job EXCEPT ![Fg][v] = NewJob(fseg, up)]
    BY <1>2 DEF FgSyncCheck
  <2>3. job'[o][w] = job[o][w] \/ job'[o][w] = NewJob(fseg, up)
    BY <1>0, <2>2
  <2> QED BY <1>2, <2>1, <2>3 DEF FgSyncCheck, Listed
<1>3. CASE FgSyncEnd \/ FgKill
  <2>1. \/ \E v \in Worker : job' = [job EXCEPT ![Fg][v] = Idle]
        \/ job' = [job EXCEPT ![Fg] = [v \in Worker |-> Idle]]
    BY <1>3 DEF FgSyncEnd, FgKill
  <2> QED BY <1>0, <2>1
<1>4. ASSUME NEW a \in Async, NEW v \in Worker, AsJob(a, v)
      PROVE  job'[o][w] = job[o][w] \/ New
  <2>1. PICK s \in walFileList[a] : job' = [job EXCEPT ![a][v] = NewJob(s, repoList[a])]
    BY <1>4 DEF AsJob, Oldest
  <2>2. s \in Seg /\ repoList[a] \in SUBSET Repo
    BY <2>1 DEF TypeOK, AsType
  <2>3. job'[o][w] = job[o][w] \/ job'[o][w] = NewJob(s, repoList[a])
    BY <1>0, <2>1
  <2> QED BY <2>2, <2>3 DEF Listed
<1>5. ASSUME NEW a \in Async, NEW v \in Worker, AsResult(a, v) \/ JobOrphan(a, v)
      PROVE  job'[o][w] = job[o][w]
  <2>1. job' = [job EXCEPT ![a][v] = Idle]
    BY <1>5 DEF AsResult, JobOrphan
  <2> QED BY <1>0, <2>1
<1>6. ASSUME NEW p \in Owner, NEW v \in Worker, JobFind(p, v)
      PROVE  job'[o][w] = job[o][w] \/ JobFind(o, w)
  <2>1. \E j : job' = [job EXCEPT ![p][v] = j]
    BY <1>6 DEF JobFind
  <2> QED BY <1>0, <1>6, <2>1
<1>7. ASSUME NEW p \in Owner, NEW v \in Worker, NEW r \in Repo, JobClose(p, v, r)
      PROVE  job'[o][w] = job[o][w] \/ JobClose(o, w, r)
  <2>1. \E j : job' = [job EXCEPT ![p][v] = j]
    BY <1>7 DEF JobClose
  <2> QED BY <1>0, <1>7, <2>1
<1> QED BY <1>2, <1>3, <1>4, <1>5, <1>6, <1>7, JobBy

-----------------------------------------------------------------------------
(* Repositories keep what they have, and what is safe stays safe. *)

LEMMA StoreGrows ==
    ASSUME TypeOK, [Next]_vars, NEW r \in Repo
    PROVE  store[r] \subseteq store'[r]
<1>1. CASE store' = store
  BY <1>1
<1>2. ASSUME NEW o \in Owner, NEW w \in Worker, NEW q \in Repo, JobClose(o, w, q)
      PROVE  store[r] \subseteq store'[r]
  BY <1>2 DEF JobClose, TypeOK, PgType
<1> QED BY <1>1, <1>2, StoreStep

LEMMA SafeStable ==
    ASSUME TypeOK, [Next]_vars, NEW s, Safe(s)
    PROVE  Safe(s)'
<1>1. dropped \subseteq dropped'
  BY DroppedStep
<1>2. \A r \in Repo : store[r] \subseteq store'[r]
  BY StoreGrows
<1> QED BY <1>1, <1>2 DEF Safe, Archived

-----------------------------------------------------------------------------
(* The inductive invariant. *)

\* A job without an error that has nothing to do has left a safe segment.
LEMMA JobSafe ==
    ASSUME TypeOK, JobSound, NEW o \in Owner, NEW w \in Worker,
           job[o][w].step = "copy", job[o][w].todo = {}, ~job[o][w].error
    PROVE  Safe(job[o][w].seg)
<1>1. job[o][w] # Idle
  BY DEF Idle
<1> QED BY <1>1 DEF JobSound, Safe, Archived

LEMMA StatusStep ==
    ASSUME IInv, [Next]_vars
    PROVE  StatusSound'
<1> USE DEF IInv
<1>1. ASSUME NEW s \in okFile' PROVE Safe(s)'
  <2>1. CASE s \in okFile
    BY <2>1, SafeStable DEF StatusSound
  <2>2. CASE s \in dropped'
    BY <2>2 DEF Safe
  <2>3. ASSUME NEW a \in Async, NEW w \in Worker,
               job[a][w].step = "copy", job[a][w].todo = {}, ~job[a][w].error,
               s = job[a][w].seg
        PROVE  Safe(s)'
    <3>1. Safe(s)
      BY <2>3, JobSafe DEF Owner
    <3> QED BY <3>1, SafeStable
  <2> QED BY <2>1, <2>2, <2>3, OkStep
<1>2. ASSUME NEW s \in done' PROVE Safe(s)'
  <2>1. s \in done \/ (fpc = "pushed" /\ s = fseg)
    BY DoneStep
  <2>2. Safe(s)
    BY <2>1 DEF StatusSound
  <2> QED BY <2>2, SafeStable
<1>3. ASSUME fpc' = "pushed" PROVE Safe(fseg)'
  <2>1. fseg' = fseg
    BY <1>3, PushedStep
  <2>2. Safe(fseg) => Safe(fseg)'
    <3>1. ASSUME NEW s, s = fseg, Safe(s) PROVE Safe(s)'
      BY <3>1, SafeStable
    <3> QED BY <2>1, <3>1 DEF Safe, Archived
  <2>3. CASE fpc = "pushed" \/ fseg \in okFile
    BY <2>2, <2>3 DEF StatusSound
  <2>4. CASE fseg \in dropped'
    BY <2>1, <2>4 DEF Safe
  <2>5. ASSUME NEW w \in Worker, job[Fg][w].step = "copy", job[Fg][w].todo = {},
               ~job[Fg][w].error
        PROVE  Safe(fseg)'
    <3>1. job[Fg][w].seg = fseg
      BY <2>5 DEF FgJob, Idle
    <3>2. Safe(fseg)
      BY <2>5, <3>1, JobSafe DEF Owner
    <3> QED BY <2>2, <3>2
  <2> QED BY <1>3, <2>3, <2>4, <2>5, PushedStep
<1> QED BY <1>1, <1>2, <1>3 DEF StatusSound

LEMMA JobStep ==
    ASSUME IInv, [Next]_vars
    PROVE  JobSound'
<1> USE DEF IInv
<1> SUFFICES ASSUME NEW o \in Owner, NEW w \in Worker,
                    job'[o][w] # Idle, ~job'[o][w].error,
                    NEW r \in Repo, r \notin job'[o][w].todo
             PROVE  job'[o][w].seg \in store'[r]
  BY DEF JobSound, Idle
<1>0. job[o][w] # Idle /\ ~job[o][w].error /\ r \notin job[o][w].todo =>
        job[o][w].seg \in store[r]
  BY DEF JobSound
<1>1. CASE job'[o][w] = job[o][w]
  BY <1>0, <1>1, StoreGrows
<1>2. ASSUME NEW s \in Seg, NEW R \in SUBSET Repo, job'[o][w] = NewJob(s, R)
      PROVE  FALSE
  <2>1. job'[o][w].todo = R /\ job'[o][w].error = (R # Repo)
    BY <1>2 DEF NewJob
  <2>2. R = Repo
    BY <2>1
  <2> QED BY <2>1, <2>2
<1>3. CASE JobFind(o, w)
  <2>1. /\ job[o][w] # Idle
        /\ job'[o][w].seg = job[o][w].seg
        /\ job'[o][w].todo = {q \in job[o][w].todo : q \in up /\ job[o][w].seg \notin store[q]}
        /\ job'[o][w].error = (job[o][w].error \/ ~(job[o][w].todo \subseteq up))
    BY <1>3 DEF JobFind, Idle, TypeOK
  <2>2. job[o][w].seg \in store[r]
    BY <1>0, <2>1
  <2> QED BY <2>1, <2>2, StoreGrows
<1>4. ASSUME NEW q \in Repo, JobClose(o, w, q) PROVE job'[o][w].seg \in store'[r]
  <2>1. PICK j \in JobType :
          /\ job' = [job EXCEPT ![o][w] = j]
          /\ j # Idle /\ j.seg = job[o][w].seg /\ j.todo = job[o][w].todo \ {q}
          /\ j.error = (job[o][w].error \/ q \notin up)
    BY <1>4, JobCloseUpdate
  <2>2. job'[o][w] = j
    BY <2>1 DEF TypeOK
  <2>3. job[o][w] # Idle
    BY <1>4 DEF JobClose, Idle
  <2>4. CASE r = q
    BY <1>4, <2>1, <2>2, <2>4 DEF JobClose, TypeOK, PgType
  <2>5. CASE r # q
    BY <1>0, <2>1, <2>2, <2>3, <2>5, StoreGrows
  <2> QED BY <2>4, <2>5
<1> QED BY <1>1, <1>2, <1>3, <1>4, EntryStep

\* What can become of the jobs and the segment of the foreground.
LEMMA FgEntryStep ==
    ASSUME TypeOK, [Next]_vars
    PROVE  \/ FgSyncCheck \/ FgSyncEnd \/ FgKill
           \/ \E w \in Worker : JobFind(Fg, w) \/ \E r \in Repo : JobClose(Fg, w, r)
           \/ /\ job'[Fg] = job[Fg]
              /\ fpc = "file" => fpc' = "file" /\ fseg' = fseg
<1>0. job \in [Owner -> [Worker -> JobType]] /\ Fg \notin Async
  BY ArchivePushAssumption DEF TypeOK
<1>1. \/ FgSyncEnd \/ FgKill
      \/ fpc = "file" => fpc' = "file" /\ fseg' = fseg
  <2>1. CASE Foreground
    BY <2>1 DEF Foreground, FgStart, FgStatusOk, FgStatusError, FgStatusThrow,
       FgStatusIgnore, FgLock, FgNoLock, FgErrorClear, FgExec, FgAgain, FgTimeout, FgSyncDrop,
       FgSyncCheck, FgEnd, FgGoto
  <2>2. CASE PgDone
    BY <2>2 DEF PgDone
  <2>3. ~Foreground /\ ~PgDone => FgKill \/ UNCHANGED << fpc, fseg >>
    BY ZenonT(40) DEF Next, vars, PgReady, AsyncProcess, AsLoad, AsStopped, AsListStatus,
       AsListReady, AsDrop, AsCheck, AsJob, AsResult, AsFatal, AsExit, AsKeep, Job, JobFind,
       JobClose, JobOrphan, JobKeep, Environment, AsKill, AsProtocolError, RepoDown,
       RepoUp, CmdStop, CmdStart, fgVars
  <2> QED BY <2>1, <2>2, <2>3
<1>2. ASSUME NEW a \in Async, NEW v \in Worker,
             AsJob(a, v) \/ AsResult(a, v) \/ JobOrphan(a, v)
      PROVE  job'[Fg] = job[Fg]
  <2>1. \E j : job' = [job EXCEPT ![a][v] = j]
    BY <1>2 DEF AsJob, AsResult, JobOrphan
  <2> QED BY <1>0, <2>1 DEF Owner
<1>3. ASSUME NEW p \in Owner, NEW v \in Worker,
             JobFind(p, v) \/ \E r \in Repo : JobClose(p, v, r)
      PROVE  p = Fg \/ job'[Fg] = job[Fg]
  <2>1. \E j : job' = [job EXCEPT ![p][v] = j]
    BY <1>3 DEF JobFind, JobClose
  <2> QED BY <1>0, <2>1 DEF Owner
<1> QED BY <1>1, <1>2, <1>3, JobBy

LEMMA FgJobStep ==
    ASSUME IInv, [Next]_vars
    PROVE  FgJob'
<1> USE DEF IInv
<1>0. job \in [Owner -> [Worker -> JobType]] /\ Fg \in Owner
  BY DEF TypeOK, Owner
<1>1. CASE FgSyncCheck
  <2>1. \A w \in Worker : job[Fg][w] = Idle
    BY <1>1 DEF FgSyncCheck, FgJob
  <2>2. CASE job' = job
    BY <2>1, <2>2 DEF FgJob
  <2>3. ASSUME NEW w \in Worker, fpc' = "file", fseg' = fseg,
               job' = [job EXCEPT ![Fg][w] = NewJob(fseg, up)]
        PROVE  FgJob'
    <3>1. \A v \in Worker : job'[Fg][v] # Idle => v = w
      BY <1>0, <2>1, <2>3
    <3>2. job'[Fg][w].seg = fseg'
      BY <1>0, <2>3 DEF NewJob
    <3> QED BY <2>3, <3>1, <3>2 DEF FgJob, Idle
  <2> QED BY <1>1, <2>2, <2>3 DEF FgSyncCheck, FgEnd, fgVars
<1>2. CASE FgSyncEnd
  <2>1. PICK w \in Worker : job[Fg][w].step = "copy" /\ job' = [job EXCEPT ![Fg][w] = Idle]
    BY <1>2 DEF FgSyncEnd
  <2>2. \A v \in Worker : v # w => job[Fg][v] = Idle
    <3>1. job[Fg][w] # Idle
      BY <2>1 DEF Idle
    <3> QED BY <3>1 DEF FgJob
  <2>3. \A v \in Worker : job'[Fg][v] = Idle
    BY <1>0, <2>1, <2>2
  <2> QED BY <2>3 DEF FgJob, Idle
<1>3. CASE FgKill
  <2>1. \A v \in Worker : job'[Fg][v] = Idle
    BY <1>0, <1>3 DEF FgKill
  <2> QED BY <2>1 DEF FgJob, Idle
<1>4. ASSUME NEW w \in Worker, JobFind(Fg, w) \/ \E r \in Repo : JobClose(Fg, w, r)
      PROVE  FgJob'
  <2>1. /\ \E j : job' = [job EXCEPT ![Fg][w] = j]
        /\ job'[Fg][w].seg = job[Fg][w].seg
    <3>1. CASE JobFind(Fg, w)
      <4>1. PICK copy, err : job' = [job EXCEPT ![Fg][w] =
                [seg |-> job[Fg][w].seg, todo |-> copy, step |-> "copy", error |-> err]]
        BY <3>1 DEF JobFind
      <4>2. job'[Fg][w].seg = job[Fg][w].seg
        BY <1>0, <4>1
      <4> QED BY <4>1, <4>2
    <3>2. ASSUME NEW r \in Repo, JobClose(Fg, w, r)
          PROVE  /\ \E j : job' = [job EXCEPT ![Fg][w] = j]
                 /\ job'[Fg][w].seg = job[Fg][w].seg
      <4>1. PICK j \in JobType :
              job' = [job EXCEPT ![Fg][w] = j] /\ j.seg = job[Fg][w].seg
        BY <1>0, <3>2, JobCloseUpdate
      <4>2. job'[Fg][w] = j
        BY <1>0, <4>1
      <4> QED BY <4>1, <4>2
    <3> QED BY <1>4, <3>1, <3>2
  <2>2. job[Fg][w] # Idle
    <3>1. job[Fg][w].step \in {"find", "copy"}
      BY <1>4 DEF JobFind, JobClose
    <3> QED BY <3>1 DEF Idle
  <2>3. \A v \in Worker : v # w => job[Fg][v] = Idle /\ job'[Fg][v] = Idle
    BY <1>0, <2>1, <2>2 DEF FgJob
  <2>4. fpc = "file" /\ job[Fg][w].seg = fseg
    BY <2>2 DEF FgJob
  <2>5. fpc' = fpc /\ fseg' = fseg
    BY <1>4 DEF JobFind, JobClose, JobKeep, fgVars
  <2> QED BY <2>1, <2>3, <2>4, <2>5 DEF FgJob, Idle
<1>5. CASE /\ job'[Fg] = job[Fg]
           /\ fpc = "file" => fpc' = "file" /\ fseg' = fseg
  BY <1>5 DEF FgJob, Idle
<1> QED BY <1>1, <1>2, <1>3, <1>4, <1>5, FgEntryStep

LEMMA InvStep ==
    ASSUME IInv, [Next]_vars
    PROVE  IInv'
BY TypeStep, StatusStep, JobStep, FgJobStep DEF IInv

\* What has an ok file, what a job without an error has pushed and what the
\* foreground acknowledges is stored or given up.
THEOREM Invariant ==
    Spec => []IInv
<1>1. IInv /\ [Next]_vars => IInv'
  BY InvStep
<1> QED BY InitInv, <1>1, PTL DEF Spec

\* No segment PostgreSQL may recycle is missing from a repository, in either
\* mode, whatever is killed and whichever repositories fail.
THEOREM AckedSafe ==
    Spec => []AckedIsArchived
<1>1. IInv => AckedIsArchived
  BY DEF IInv, StatusSound, Safe, AckedIsArchived
<1> QED BY Invariant, <1>1, PTL

-----------------------------------------------------------------------------
(* archive-push implements the promise of WalArchive. *)

LEMMA PromiseInit ==
    Init => Promise!Init
BY DEF Init, Promise!Init

\* A copied segment has arrived in one repository.
LEMMA CopyIsStore ==
    ASSUME TypeOK, NEW o \in Owner, NEW w \in Worker, NEW r \in Repo, JobClose(o, w, r)
    PROVE  \/ store' = store
           \/ \E s \in Seg : store' = [store EXCEPT ![r] = @ \cup {s}]
<1>1. job[o][w].seg \in Seg
  BY JobFields DEF JobClose
<1> QED BY <1>1 DEF JobClose

LEMMA PromiseStep ==
    ASSUME IInv, [Next]_vars
    PROVE  [Promise!Next]_(Promise!vars)
<1> USE DEF IInv
<1>1. CASE done' # done
  <2>1. fpc = "pushed" /\ done' = done \cup {fseg}
    BY <1>1, DoneStep
  <2>2. fseg \in Seg /\ Safe(fseg)
    BY <2>1, SMTT(30) DEF TypeOK, FgType, StatusSound
  <2>3. UNCHANGED << store, dropped >>
    BY <1>1, ZenonT(40) DEF Next, vars, PgReady, PgDone, Foreground, FgStart, FgStatusOk, FgStatusError,
   FgStatusThrow, FgStatusIgnore, FgLock, FgNoLock, FgErrorClear, FgExec, FgAgain, FgTimeout,
   FgSyncDrop, FgSyncCheck, FgSyncEnd, FgEnd, FgGoto, AsyncProcess, AsLoad, AsStopped,
   AsListStatus, AsListReady, AsDrop, AsCheck, AsJob, AsResult, AsFatal, AsExit, AsKeep, Job,
   JobFind, JobClose, JobOrphan, JobKeep, Environment, Fault, FgKill, AsKill,
   AsProtocolError, RepoDown, RepoUp, CmdStop, CmdStart, pgVars, spoolVars, fgVars, asVars,
   envVars
  <2>4. Promise!Acknowledge(fseg)
    BY <2>1, <2>2, <2>3 DEF Promise!Acknowledge, Safe, Archived
  <2> QED BY <2>2, <2>4 DEF Promise!Next
<1>2. CASE done' = done /\ store' # store
  <2>1. PICK o \in Owner, w \in Worker, r \in Repo : JobClose(o, w, r)
    BY <1>2, StoreStep
  <2>2. PICK s \in Seg : store' = [store EXCEPT ![r] = @ \cup {s}]
    BY <1>2, <2>1, CopyIsStore
  <2>3. UNCHANGED << done, dropped >>
    BY <2>1 DEF JobClose, JobKeep, pgVars
  <2>4. Promise!Store(r, s)
    BY <2>2, <2>3 DEF Promise!Store
  <2> QED BY <2>4 DEF Promise!Next
<1>3. CASE done' = done /\ store' = store
  <2>1. CASE dropped' = dropped
    BY <1>3, <2>1 DEF Promise!vars
  <2>2. ASSUME NEW s \in Seg, dropped' = dropped \cup {s} PROVE Promise!Next
    BY <1>3, <2>2 DEF Promise!GiveUp, Promise!Next
  <2> QED BY <2>1, <2>2, DroppedStep
<1> QED BY <1>1, <1>2, <1>3

\* Every behaviour of archive-push is one that WalArchive allows.
THEOREM PromiseImplemented ==
    Spec => ImplementsPromise
<1>1. IInv /\ [Next]_vars => [Promise!Next]_(Promise!vars)
  BY PromiseStep
<1> QED BY PromiseInit, Invariant, <1>1, PTL DEF Spec, ImplementsPromise, Promise!Spec

-----------------------------------------------------------------------------
(* An ok file stays until PostgreSQL has acknowledged its segment. *)

\* Everything archive-push works on was ready once; only PostgreSQL takes a
\* segment from the ready ones, when it acknowledges it.
Known(s) == s \in ready \cup done

KnownInv ==
    /\ \A s \in okFile : Known(s)
    /\ fpc # "idle" => Known(fseg)
    /\ \A a \in Async : \A s \in okList[a] \cup walFileList[a] : Known(s)
    /\ \A o \in Owner, w \in Worker : job[o][w] # Idle => Known(job[o][w].seg)

\* Nothing is unknown again.
LEMMA KnownStays ==
    ASSUME [Next]_vars
    PROVE  ready \cup done \subseteq ready' \cup done'
<1>1. CASE PgReady
  BY <1>1 DEF PgReady
<1>2. CASE PgDone
  BY <1>2 DEF PgDone
<1>3. UNCHANGED << ready, done >> \/ PgReady \/ PgDone
  <2>1. CASE Foreground
    BY <2>1 DEF Foreground, FgStart, FgStatusOk, FgStatusError, FgStatusThrow, FgStatusIgnore,
       FgLock, FgNoLock, FgErrorClear, FgExec, FgAgain, FgTimeout, FgSyncDrop, FgSyncCheck,
       FgSyncEnd, FgEnd, FgGoto, pgVars
  <2>2. ASSUME NEW a \in Async, AsyncProcess(a) PROVE UNCHANGED << ready, done >>
    BY <2>2 DEF AsyncProcess, AsLoad, AsStopped, AsListStatus, AsListReady, AsDrop, AsCheck,
       AsJob, AsResult, AsFatal, AsExit, AsKeep, JobOrphan, JobKeep, pgVars
  <2>3. ASSUME NEW o \in Owner, Job(o) PROVE UNCHANGED << ready, done >>
    BY <2>3 DEF Job, JobFind, JobClose, JobKeep, pgVars
  <2>4. CASE Environment \/ CmdStart \/ UNCHANGED vars \/ \E r \in Repo : RepoUp(r)
    BY <2>4 DEF Environment, FgKill, CmdStop, CmdStart, AsKill, AsProtocolError, RepoDown,
       RepoUp, vars, pgVars
  <2> QED BY <2>1, <2>2, <2>3, <2>4 DEF Next
<1>4. CASE UNCHANGED << ready, done >>
  BY <1>4
<1> QED BY <1>1, <1>2, <1>3, <1>4

LEMMA KnownStep ==
    ASSUME TypeOK, KnownInv, [Next]_vars
    PROVE  KnownInv'
<1>0. \A s : Known(s) => s \in ready' \cup done'
  BY KnownStays DEF Known
<1>1. \A s \in okFile' : s \in ready' \cup done'
  <2>1. ASSUME NEW s \in okFile' PROVE Known(s)
    <3>1. CASE s \in okFile
      BY <3>1 DEF KnownInv
    <3>2. ASSUME NEW a \in Async, s \in walFileList[a] PROVE Known(s)
      BY <3>2 DEF KnownInv
    <3>3. ASSUME NEW a \in Async, NEW w \in Worker, job[a][w].step = "copy",
                 s = job[a][w].seg
          PROVE  Known(s)
      BY <3>3 DEF KnownInv, Idle, Owner
    <3> QED BY <3>1, <3>2, <3>3, OkStep
  <2> QED BY <1>0, <2>1
<1>2. fpc' # "idle" => fseg' \in ready' \cup done'
  <2>1. CASE FgStart
    <3>1. fseg' \in ready /\ ready' = ready
      BY <2>1 DEF FgStart, Oldest, pgVars
    <3> QED BY <3>1
  <2>2. fpc' # "idle" /\ ~FgStart => fpc # "idle" /\ fseg' = fseg
    <3>1. CASE PgReady \/ PgDone \/ Foreground
      BY <3>1 DEF PgReady, PgDone, Foreground, FgStatusOk, FgStatusError, FgStatusThrow,
         FgStatusIgnore, FgLock, FgNoLock, FgErrorClear, FgExec, FgAgain, FgTimeout,
         FgSyncDrop, FgSyncCheck, FgSyncEnd, FgEnd, FgGoto, fgVars
    <3>2. ASSUME NEW a \in Async, AsyncProcess(a) PROVE UNCHANGED << fpc, fseg >>
      BY <3>2 DEF AsyncProcess, AsLoad, AsStopped, AsListStatus, AsListReady, AsDrop, AsCheck,
         AsJob, AsResult, AsFatal, AsExit, AsKeep, JobOrphan, JobKeep, fgVars
    <3>3. ASSUME NEW o \in Owner, Job(o) PROVE UNCHANGED << fpc, fseg >>
      BY <3>3 DEF Job, JobFind, JobClose, JobKeep, fgVars
    <3>4. CASE Environment \/ CmdStart \/ UNCHANGED vars \/ \E r \in Repo : RepoUp(r)
      BY <3>4 DEF Environment, FgKill, CmdStop, CmdStart, AsKill, AsProtocolError, RepoDown,
         RepoUp, vars, fgVars
    <3> QED BY <3>1, <3>2, <3>3, <3>4 DEF Next
  <2>3. CASE fpc' # "idle" /\ ~FgStart
    BY <1>0, <2>2, <2>3 DEF KnownInv
  <2> QED BY <2>1, <2>3
<1>3. \A a \in Async : \A s \in okList'[a] \cup walFileList'[a] : s \in ready' \cup done'
  <2>1. \A a \in Async :
          okList'[a] \cup walFileList'[a]
            \subseteq okList[a] \cup walFileList[a] \cup okFile \cup ready
    <3>1. ASSUME NEW a \in Async, AsListStatus(a) \/ AsListReady(a) \/ AsDrop(a) \/ AsFatal(a)
                   \/ AsKill(a) \/ \E w \in Worker : AsJob(a, w)
          PROVE  \A b \in Async : okList'[b] \cup walFileList'[b]
                                    \subseteq okList[b] \cup walFileList[b] \cup okFile \cup ready
      BY <3>1 DEF AsListStatus, AsListReady, AsDrop, AsFatal, AsKill, AsJob, Oldest, TypeOK, AsType
    <3>2. \/ UNCHANGED << okList, walFileList >>
          \/ \E a \in Async : \/ AsListStatus(a) \/ AsListReady(a) \/ AsDrop(a) \/ AsFatal(a)
                              \/ AsKill(a) \/ \E w \in Worker : AsJob(a, w)
      <4>1. CASE PgReady \/ PgDone \/ Foreground
        BY <4>1 DEF PgReady, PgDone, Foreground, FgStart, FgStatusOk, FgStatusError, FgStatusThrow,
           FgStatusIgnore, FgLock, FgNoLock, FgErrorClear, FgExec, FgAgain, FgTimeout,
           FgSyncDrop, FgSyncCheck, FgSyncEnd, FgEnd, FgGoto, asVars
      <4>2. ASSUME NEW a \in Async, AsyncProcess(a)
            PROVE  \/ UNCHANGED << okList, walFileList >>
                   \/ AsListStatus(a) \/ AsListReady(a) \/ AsDrop(a) \/ AsFatal(a)
                   \/ \E w \in Worker : AsJob(a, w)
        BY <4>2 DEF AsyncProcess, AsLoad, AsStopped, AsCheck, AsResult, AsExit, JobOrphan, JobKeep,
           asVars
      <4>3. ASSUME NEW o \in Owner, Job(o) PROVE UNCHANGED << okList, walFileList >>
        BY <4>3 DEF Job, JobFind, JobClose, JobKeep, asVars
      <4>4. CASE CmdStart \/ UNCHANGED vars \/ \E r \in Repo : RepoUp(r)
        BY <4>4 DEF CmdStart, RepoUp, vars, asVars
      <4>5. CASE Environment
        BY <4>5 DEF Environment, FgKill, CmdStop, AsProtocolError, RepoDown, asVars
      <4> QED BY <4>1, <4>2, <4>3, <4>4, <4>5 DEF Next
    <3> QED BY <3>1, <3>2
  <2>2. \A a \in Async : \A s \in okList'[a] \cup walFileList'[a] : Known(s)
    BY <2>1 DEF KnownInv, Known
  <2> QED BY <1>0, <2>2
<1>4. \A o \in Owner, w \in Worker : job'[o][w] # Idle => job'[o][w].seg \in ready' \cup done'
  <2> SUFFICES ASSUME NEW o \in Owner, NEW w \in Worker, job'[o][w] # Idle
               PROVE  Known(job'[o][w].seg)
    BY <1>0
  <2>1. CASE job[o][w] # Idle /\ job'[o][w].seg = job[o][w].seg
    BY <2>1 DEF KnownInv
  <2>2. ASSUME NEW s \in Seg, NEW R \in SUBSET Repo, job'[o][w] = NewJob(s, R), Listed(s)
        PROVE  Known(job'[o][w].seg)
    <3>1. job'[o][w].seg = s
      BY <2>2 DEF NewJob
    <3>2. Known(s)
      BY <2>2 DEF KnownInv, Listed
    <3> QED BY <3>1, <3>2
  <2>3. CASE JobFind(o, w)
    <3>1. job[o][w] # Idle /\ job'[o][w].seg = job[o][w].seg
      BY <2>3 DEF JobFind, Idle, TypeOK
    <3> QED BY <2>1, <3>1
  <2>4. ASSUME NEW r \in Repo, JobClose(o, w, r) PROVE Known(job'[o][w].seg)
    <3>1. PICK j \in JobType : job' = [job EXCEPT ![o][w] = j] /\ j.seg = job[o][w].seg
      BY <2>4, JobCloseUpdate
    <3>2. job'[o][w] = j
      BY <3>1 DEF TypeOK
    <3>3. job[o][w] # Idle
      BY <2>4 DEF JobClose, Idle
    <3> QED BY <2>1, <3>1, <3>2, <3>3
  <2>5. CASE job'[o][w] = job[o][w]
    BY <2>1, <2>5
  <2> QED BY <2>2, <2>3, <2>4, <2>5, EntryStep
<1> QED BY <1>1, <1>2, <1>3, <1>4 DEF KnownInv, Known, Idle

\* An ok file goes only when an async process has listed it and no longer
\* finds its segment ready.
LEMMA OkRemoved ==
    ASSUME [Next]_vars, NEW s, s \in okFile, s \notin okFile'
    PROVE  s \notin ready /\ done' = done
<1>1. CASE PgReady \/ PgDone \/ Foreground
  BY <1>1 DEF PgReady, PgDone, Foreground, FgStart, FgStatusOk, FgStatusError, FgStatusThrow,
     FgStatusIgnore, FgLock, FgNoLock, FgErrorClear, FgExec, FgAgain, FgTimeout, FgSyncDrop,
     FgSyncCheck, FgSyncEnd, FgEnd, FgGoto, spoolVars
<1>2. ASSUME NEW a \in Async, AsyncProcess(a) PROVE s \notin ready /\ done' = done
  BY <1>2 DEF AsyncProcess, AsLoad, AsStopped, AsListStatus, AsListReady, AsDrop, AsCheck, AsJob,
     AsResult, AsFatal, AsExit, AsKeep, JobOrphan, JobKeep, spoolVars, pgVars
<1>3. ASSUME NEW o \in Owner, Job(o) PROVE okFile' = okFile
  BY <1>3 DEF Job, JobFind, JobClose, JobKeep, spoolVars
<1>4. CASE Environment \/ CmdStart \/ UNCHANGED vars \/ \E r \in Repo : RepoUp(r)
  BY <1>4 DEF Environment, FgKill, CmdStop, CmdStart, AsKill, AsProtocolError, RepoDown, RepoUp,
     vars, spoolVars
<1> QED BY <1>1, <1>2, <1>3, <1>4 DEF Next

\* An async process never removes the ok file of a segment that PostgreSQL
\* may still ask for, although it lists the ok files first and the ready ones
\* later: a segment is never ready after it was neither ready nor done.
THEOREM OkKept ==
    Spec => OkKeptUntilAcked
<1>1. Init => KnownInv
  BY DEF Init, KnownInv
<1>2. TypeOK /\ KnownInv /\ [Next]_vars => KnownInv'
  BY KnownStep
<1>3. KnownInv /\ [Next]_vars => \A s \in okFile \ okFile' : s \in done
  BY OkRemoved DEF KnownInv, Known
<1>4. Spec => []KnownInv
  BY <1>1, <1>2, TypeCorrect, PTL DEF Spec
<1> QED BY <1>3, <1>4, PTL DEF Spec, OkKeptUntilAcked

-----------------------------------------------------------------------------
(* A foreground throws only errors of the attempt it began. *)

\* From archiveAsyncErrorClear() on the errors of the segment are new ones.
ErrorsFresh ==
    /\ fpc = "exec" \/ (forked /\ fpc # "idle") => {fseg, Global} \cap errFile \subseteq fresh
    /\ fpc = "read" => found \in {fseg, Global}

LEMMA ErrorsFreshStep ==
    ASSUME TypeOK, ErrorsFresh, [Next]_vars
    PROVE  ErrorsFresh'
<1>1. CASE FgErrorClear
  BY <1>1 DEF FgErrorClear, ErrorsFresh
<1>2. CASE FgStatusError
  <2>1. found' # None => found' \in {fseg, Global}
    BY <1>2 DEF FgStatusError
  <2>2. fpc' = "read" => found' # None
    BY <1>2 DEF FgStatusError, FgGoto
  <2>3. UNCHANGED << fseg, forked, errFile, fresh >> /\ fpc = "error" /\ fpc' \in {"read", "lock"}
    BY <1>2 DEF FgStatusError, FgGoto, spoolVars
  <2> QED BY <2>1, <2>2, <2>3 DEF ErrorsFresh
<1>3. CASE /\ errFile' \subseteq errFile /\ fresh' = fresh
           /\ UNCHANGED << fpc, fseg, forked, found >>
  BY <1>3 DEF ErrorsFresh
<1>4. ASSUME NEW e, errFile' = errFile \cup {e}, fresh' = fresh \cup {e}, UNCHANGED fgVars
      PROVE  ErrorsFresh'
  BY <1>4 DEF ErrorsFresh, fgVars
<1>5. CASE PgReady \/ PgDone \/ FgKill \/ (Foreground /\ ~FgErrorClear /\ ~FgStatusError)
  <2>1. errFile' = errFile /\ fresh' = fresh
    BY <1>5 DEF PgReady, PgDone, FgKill, Foreground, FgStart, FgStatusOk, FgStatusThrow,
       FgStatusIgnore, FgLock, FgNoLock, FgExec, FgAgain, FgTimeout, FgSyncDrop, FgSyncCheck,
       FgSyncEnd, FgEnd, FgGoto, spoolVars
  <2>2. \/ fpc' = "idle"
        \/ ~forked' /\ fpc' \notin {"exec", "read"}
        \/ /\ fseg' = fseg /\ fpc # "idle" /\ (fpc' \in {"exec", "read"} => fpc' = fpc)
           /\ found' = found /\ (forked' = forked \/ fpc = "exec")
        \/ UNCHANGED fgVars
    BY <1>5 DEF PgReady, PgDone, FgKill, Foreground, FgStart, FgStatusOk, FgStatusThrow,
       FgStatusIgnore, FgLock, FgNoLock, FgExec, FgAgain, FgTimeout, FgSyncDrop, FgSyncCheck,
       FgSyncEnd, FgEnd, FgGoto
  <2> QED BY <2>1, <2>2 DEF ErrorsFresh, fgVars
<1>6. ASSUME NEW a \in Async, AsyncProcess(a) PROVE ErrorsFresh'
  <2>1. UNCHANGED fgVars
    BY <1>6 DEF AsyncProcess, AsLoad, AsStopped, AsListStatus, AsListReady, AsDrop, AsCheck, AsJob,
       AsResult, AsFatal, AsExit, AsKeep, JobOrphan, JobKeep
  <2>2. \/ errFile' \subseteq errFile /\ fresh' = fresh
        \/ \E e : errFile' = errFile \cup {e} /\ fresh' = fresh \cup {e}
    <3>1. CASE AsFatal(a)
      BY <3>1 DEF AsFatal
    <3>2. ASSUME NEW w \in Worker, AsResult(a, w)
          PROVE  \/ errFile' \subseteq errFile /\ fresh' = fresh
                 \/ \E e : errFile' = errFile \cup {e} /\ fresh' = fresh \cup {e}
      BY <3>2 DEF AsResult
    <3>3. CASE ~AsFatal(a) /\ \A w \in Worker : ~AsResult(a, w)
      BY <1>6, <3>3 DEF AsyncProcess, AsLoad, AsStopped, AsListStatus, AsListReady, AsDrop,
         AsCheck, AsJob, AsExit, JobOrphan, JobKeep, spoolVars
    <3> QED BY <3>1, <3>2, <3>3
  <2> QED BY <2>1, <2>2, <1>3, <1>4 DEF fgVars
<1>7. ASSUME NEW o \in Owner, Job(o) PROVE UNCHANGED << fgVars, spoolVars >>
  BY <1>7 DEF Job, JobFind, JobClose, JobKeep
<1>8. CASE UNCHANGED << fgVars, spoolVars >>
  BY <1>3, <1>8 DEF fgVars, spoolVars
<1>9. CASE (Environment /\ ~FgKill) \/ CmdStart \/ UNCHANGED vars \/ \E r \in Repo : RepoUp(r)
  BY <1>8, <1>9 DEF Environment, CmdStop, CmdStart, AsKill, AsProtocolError, RepoDown, RepoUp,
     vars
<1> QED BY <1>1, <1>2, <1>5, <1>6, <1>7, <1>8, <1>9 DEF Next

\* A foreground that has forked an async process never throws an error older
\* than the fork, whatever async processes and workers of earlier attempts
\* still do.
THEOREM FreshErrors ==
    Spec => ErrorIsFresh
<1>1. Init => ErrorsFresh
  BY DEF Init, ErrorsFresh
<1>2. TypeOK /\ ErrorsFresh /\ [Next]_vars => ErrorsFresh'
  BY ErrorsFreshStep
<1>3. ErrorsFresh => (fpc = "read" /\ fpc' = "idle" /\ forked /\ found \in errFile
                        /\ faults' = faults => found \in fresh)
  BY DEF ErrorsFresh
<1>4. Spec => []ErrorsFresh
  BY <1>1, <1>2, TypeCorrect, PTL DEF Spec
<1> QED BY <1>3, <1>4, PTL DEF Spec, ErrorIsFresh
=============================================================================
