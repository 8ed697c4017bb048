--------------------------- MODULE ArchiveGetProof ---------------------------
(***************************************************************************)
(* Proofs about ArchiveGet for any number of segments, repositories, async *)
(* processes and workers, in both modes.                                   *)
(***************************************************************************)
EXTENDS ArchiveGet, FiniteSetTheorems, TLAPS

-----------------------------------------------------------------------------
(* Type correctness. *)

LEMMA InitType ==
    Init => TypeOK
<1> SUFFICES ASSUME Init PROVE TypeOK
  OBVIOUS
<1>1. job \in [Async -> [Worker -> JobType]]
  BY DEF Init, JobType
<1>2. SpoolType
  BY DEF Init, SpoolType, File
<1>3. FgType
  BY DEF Init, FgType
<1>4. AsType
  BY DEF Init, AsType
<1>5. EnvType
  <2>1. 1..FirstArchived \subseteq 1..NSeg
    BY ArchiveGetAssumption
  <2>2. 0 \in 0..MaxDown /\ 0 \in 0..MaxKill /\ 1 \in 1..(NSeg + 1)
    BY ArchiveGetAssumption
  <2> QED BY <2>1, <2>2 DEF Init, EnvType
<1> QED BY <1>1, <1>2, <1>3, <1>4, <1>5 DEF TypeOK

\* A job that is not idle has the fields of a job.
LEMMA JobFields ==
    ASSUME TypeOK, NEW a \in Async, NEW w \in Worker, job[a][w].step # "idle"
    PROVE  /\ job[a][w] \in [seg : Seg, todo : SUBSET Repo, src : Repo \cup {None},
                            warn : BOOLEAN, step : {"open", "write", "done"}]
           /\ job[a][w] # Idle
<1>1. job[a][w] \in JobType
  BY DEF TypeOK
<1>2. job[a][w] # Idle
  BY DEF Idle
<1> QED BY <1>1, <1>2 DEF JobType

\* A job array stays one when an entry becomes a job or idle.
LEMMA JobUpdate ==
    ASSUME TypeOK, NEW a \in Async, NEW w \in Worker, NEW j \in JobType
    PROVE  [job EXCEPT ![a][w] = j] \in [Async -> [Worker -> JobType]]
BY DEF TypeOK

\* The archive is an initial part of the segments, with room for the next.
LEMMA ArchiveGrows ==
    ASSUME EnvType, Cardinality(archive) < MaxArchived
    PROVE  Cardinality(archive) + 1 \in 1..NSeg
<1>1. IsFiniteSet(1..NSeg)
  BY FS_Interval, ArchiveGetAssumption
<1>2. IsFiniteSet(archive)
  BY <1>1, FS_Subset DEF EnvType
<1>3. Cardinality(archive) \in Nat
  BY <1>2, FS_CardinalityType
<1> QED BY <1>3, ArchiveGetAssumption

\* Every step keeps the types.
LEMMA TypeStep ==
    ASSUME TypeOK, [Next]_vars
    PROVE  TypeOK'
<1> USE ArchiveGetAssumption
<1>1. CASE FgStart
  <2>1. fseg' \in 1..NSeg
    BY <1>1 DEF FgStart, TypeOK, EnvType
  <2>2. absent' \in BOOLEAN /\ first' \in BOOLEAN /\ found' \in BOOLEAN /\ forked' \in BOOLEAN
        /\ full' \in BOOLEAN
    BY <1>1 DEF FgStart
  <2>3. fpc' \in {"found", "sync"}
    BY <1>1 DEF FgStart
  <2>4. FgType'
    BY <2>1, <2>2, <2>3 DEF FgType
  <2> QED BY <2>4, <1>1 DEF FgStart, TypeOK, SpoolType, FgType, AsType, EnvType,
     spoolVars, fgVars, asVars, envVars
<1>2. CASE FgSuccess
  BY <1>2 DEF FgSuccess, TypeOK, SpoolType, FgType, AsType, EnvType,
     spoolVars, fgVars, asVars, envVars
<1>3. CASE FgMissing
  BY <1>3 DEF FgMissing, TypeOK, SpoolType, FgType, AsType, EnvType,
     spoolVars, fgVars, asVars, envVars
<1>4. CASE FgFound
  BY <1>4 DEF FgFound, FgKeep, TypeOK, SpoolType, FgType, AsType, EnvType,
     spoolVars, fgVars, asVars, envVars
<1>5. CASE FgStatusOk
  BY <1>5 DEF FgStatusOk, FgKeep, TypeOK, SpoolType, FgType, AsType, EnvType,
     spoolVars, fgVars, asVars, envVars
<1>6. CASE FgStatusNone
  BY <1>6 DEF FgStatusNone, FgKeep, TypeOK, SpoolType, FgType, AsType, EnvType,
     spoolVars, fgVars, asVars, envVars
<1>7. CASE FgStatusError
  BY <1>7 DEF FgStatusError, FgKeep, TypeOK, SpoolType, FgType, AsType, EnvType,
     spoolVars, fgVars, asVars, envVars
<1>8. CASE FgMove
  <2>1. full' \in BOOLEAN
    BY <1>8 DEF FgMove
  <2>2. queue' \in [Seg -> File]
    BY <1>8 DEF FgMove, File, TypeOK, SpoolType
  <2>3. FgType'
    BY <2>1, <1>8 DEF FgMove, FgKeep, TypeOK, FgType
  <2> QED BY <2>2, <2>3, <1>8 DEF FgMove, FgKeep, TypeOK, SpoolType, FgType, AsType, EnvType,
     spoolVars, fgVars, asVars, envVars
<1>9. CASE FgLock
  BY <1>9 DEF FgLock, FgKeep, TypeOK, SpoolType, FgType, AsType, EnvType,
     spoolVars, fgVars, asVars, envVars
<1>10. CASE FgNoLock
  BY <1>10 DEF FgNoLock, FgKeep, TypeOK, SpoolType, FgType, AsType, EnvType,
     spoolVars, fgVars, asVars, envVars
<1>11. CASE FgNeed
  <2>1. SpoolType'
    BY <1>11 DEF FgNeed, QueueNeed, File, TypeOK, SpoolType
  <2>2. Ideal \subseteq Seg
    BY DEF Ideal
  <2>3. PICK a \in Async : /\ apc' = [apc EXCEPT ![a] = "load"]
                         /\ need' = [need EXCEPT ![a] = Ideal \ Queued]
    BY <1>11 DEF FgNeed
  <2>4. AsType'
    BY <2>2, <2>3, <1>11 DEF FgNeed, TypeOK, AsType
  <2>5. FgType'
    BY <1>11 DEF FgNeed, TypeOK, FgType
  <2> QED BY <2>1, <2>4, <2>5, <1>11 DEF FgNeed, TypeOK, EnvType, envVars
<1>12. CASE FgAgain
  BY <1>12 DEF FgAgain, FgKeep, TypeOK, SpoolType, FgType, AsType, EnvType,
     spoolVars, fgVars, asVars, envVars
<1>13. CASE FgTimeout
  BY <1>13 DEF FgTimeout, FgKeep, TypeOK, SpoolType, FgType, AsType, EnvType,
     spoolVars, fgVars, asVars, envVars
<1>14. CASE FgSync
  BY <1>14 DEF FgSync, FgKeep, TypeOK, SpoolType, FgType, AsType, EnvType,
     spoolVars, fgVars, asVars, envVars
<1>15. ASSUME NEW a \in Async, AsLoad(a) PROVE TypeOK'
  BY <1>15 DEF AsLoad, AsKeep, TypeOK, SpoolType, FgType, AsType, EnvType,
     spoolVars, fgVars, asVars, envVars
<1>16. ASSUME NEW a \in Async, AsCheck(a) PROVE TypeOK'
  BY <1>16 DEF AsCheck, AsKeep, TypeOK, SpoolType, FgType, AsType, EnvType,
     spoolVars, fgVars, asVars, envVars
<1>17. ASSUME NEW a \in Async, AsFind(a) PROVE TypeOK'
  <2>1. PICK s \in Seg :
            /\ need' = [need EXCEPT ![a] = @ \ {s}]
            /\ error' = [error EXCEPT ![a] = s] \/ error' = error
            /\ missing' = [missing EXCEPT ![a] = s] \/ missing' = missing
            /\ fileMap' = [fileMap EXCEPT ![a] = @ \cup {s}] \/ fileMap' = fileMap
            /\ warn' = [warn EXCEPT ![a] = @ \cup {s}] \/ warn' = warn
            /\ apc' = [apc EXCEPT ![a] = "get"] \/ apc' = [apc EXCEPT ![a] = "find"]
    <3>1. need[a] \subseteq Seg
      BY DEF TypeOK, AsType
    <3>2. warn = [warn EXCEPT ![a] = @]
      BY DEF TypeOK, AsType
    <3> QED BY <3>1, <3>2, <1>17 DEF AsFind, Oldest
  <2>2. AsType'
    <3>1. AsType
      BY DEF TypeOK
    <3>2. need' \in [Async -> SUBSET Seg] /\ fileMap' \in [Async -> SUBSET Seg]
          /\ warn' \in [Async -> SUBSET Seg]
      BY <3>1, <2>1 DEF AsType
    <3>3. missing' \in [Async -> Seg \cup {None}]
          /\ error' \in [Async -> Seg \cup {Global, None}]
      BY <3>1, <2>1 DEF AsType
    <3>4. repoList' = repoList
      BY <1>17 DEF AsFind
    <3>5. apc' \in [Async -> {"none", "load", "check", "find", "get", "fatal", "exit"}]
      BY <3>1, <2>1 DEF AsType
    <3> QED BY <3>1, <3>2, <3>3, <3>4, <3>5 DEF AsType
  <2> QED BY <2>2, <1>17 DEF AsFind, AsKeep, TypeOK, SpoolType, FgType, AsType, EnvType, spoolVars, fgVars, asVars, envVars
<1>18. ASSUME NEW a \in Async, AsStatus(a) PROVE TypeOK'
  BY <1>18 DEF AsStatus, AsKeep, TypeOK, SpoolType, FgType, AsType, EnvType,
     spoolVars, fgVars, asVars, envVars
<1>19. ASSUME NEW a \in Async, AsFatal(a) PROVE TypeOK'
  BY <1>19 DEF AsFatal, AsKeep, TypeOK, SpoolType, FgType, AsType, EnvType,
     spoolVars, fgVars, asVars, envVars
<1>20. ASSUME NEW a \in Async, AsExit(a) PROVE TypeOK'
  BY <1>20 DEF AsExit, AsKeep, TypeOK, SpoolType, FgType, AsType, EnvType,
     spoolVars, fgVars, asVars, envVars
<1>21. ASSUME NEW a \in Async, NEW w \in Worker, AsJob(a, w) PROVE TypeOK'
  <2>1. PICK s \in Oldest(fileMap[a]) :
            /\ job' = [job EXCEPT ![a][w] = [seg |-> s, todo |-> repoList[a], src |-> None,
                                             warn |-> s \in warn[a], step |-> "open"]]
            /\ fileMap' = [fileMap EXCEPT ![a] = @ \ {s}]
    BY <1>21 DEF AsJob
  <2>2. [seg |-> s, todo |-> repoList[a], src |-> None, warn |-> s \in warn[a],
         step |-> "open"] \in JobType
    BY <2>1 DEF Oldest, JobType, TypeOK, AsType
  <2>3. job' \in [Async -> [Worker -> JobType]]
    BY <2>1, <2>2, JobUpdate
  <2> QED BY <2>1, <2>3, <1>21 DEF AsJob, AsKeep, TypeOK, SpoolType, FgType, AsType, EnvType,
     spoolVars, fgVars, asVars, envVars
<1>22. ASSUME NEW a \in Async, NEW w \in Worker, AsError(a, w) PROVE TypeOK'
  <2>1. job[a][w].seg \in Seg
    BY <1>22, JobFields DEF AsError
  <2>2. job' \in [Async -> [Worker -> JobType]]
    BY <1>22, JobUpdate DEF AsError, JobType
  <2> QED BY <2>1, <2>2, <1>22 DEF AsError, AsKeep, TypeOK, SpoolType, FgType, AsType, EnvType,
     spoolVars, fgVars, asVars, envVars
<1>23. ASSUME NEW a \in Async, NEW w \in Worker, AsOk(a, w) PROVE TypeOK'
  <2>1. job[a][w] \in [seg : Seg, todo : SUBSET Repo, src : Repo \cup {None},
                      warn : BOOLEAN, step : {"open", "write", "done"}]
    BY <1>23, JobFields DEF AsOk
  <2>2. [job[a][w] EXCEPT !.warn = FALSE] \in JobType
    BY <2>1 DEF JobType
  <2>3. job' \in [Async -> [Worker -> JobType]]
    BY <2>2, <1>23, JobUpdate DEF AsOk
  <2>4. job[a][w].seg \in Seg
    BY <2>1
  <2> QED BY <2>3, <2>4, <1>23 DEF AsOk, AsKeep, TypeOK, SpoolType, FgType, AsType, EnvType,
     spoolVars, fgVars, asVars, envVars
<1>24. ASSUME NEW a \in Async, NEW w \in Worker, AsRename(a, w) PROVE TypeOK'
  <2>1. job[a][w].seg \in Seg
    BY <1>24, JobFields DEF AsRename
  <2>2. job' \in [Async -> [Worker -> JobType]]
    BY <1>24, JobUpdate DEF AsRename, JobType
  <2>3. queue' \in [Seg -> File] /\ tmp' \in [Seg -> File]
    BY <2>1, <1>24 DEF AsRename, TypeOK, SpoolType, File
  <2> QED BY <2>2, <2>3, <1>24 DEF AsRename, AsKeep, TypeOK, SpoolType, FgType, AsType, EnvType,
     spoolVars, fgVars, asVars, envVars
<1>25. ASSUME NEW a \in Async, NEW w \in Worker, JobOrphan(a, w) PROVE TypeOK'
  <2>1. job' \in [Async -> [Worker -> JobType]]
    BY <1>25, JobUpdate DEF JobOrphan, JobType
  <2> QED BY <2>1, <1>25 DEF JobOrphan, JobKeep, TypeOK, SpoolType, FgType, AsType, EnvType,
     spoolVars, fgVars, asVars, envVars
<1>26. ASSUME NEW a \in Async, NEW w \in Worker, NEW r \in Repo, JobSkip(a, w, r) PROVE TypeOK'
  <2>1. job[a][w] \in [seg : Seg, todo : SUBSET Repo, src : Repo \cup {None},
                      warn : BOOLEAN, step : {"open", "write", "done"}]
    BY <1>26, JobFields DEF JobSkip
  <2>2. [job[a][w] EXCEPT !.todo = @ \ {r}, !.warn = TRUE] \in JobType
    BY <2>1 DEF JobType
  <2>3. job' \in [Async -> [Worker -> JobType]]
    BY <2>2, <1>26, JobUpdate DEF JobSkip
  <2> QED BY <2>3, <1>26 DEF JobSkip, JobKeep, TypeOK, SpoolType, FgType, AsType, EnvType,
     spoolVars, fgVars, asVars, envVars
<1>27. ASSUME NEW a \in Async, NEW w \in Worker, NEW r \in Repo, JobOpen(a, w, r) PROVE TypeOK'
  <2>1. job[a][w] \in [seg : Seg, todo : SUBSET Repo, src : Repo \cup {None},
                      warn : BOOLEAN, step : {"open", "write", "done"}]
    BY <1>27, JobFields DEF JobOpen
  <2>2. [job[a][w] EXCEPT !.src = r, !.step = "write"] \in JobType
    BY <2>1 DEF JobType
  <2>3. job' \in [Async -> [Worker -> JobType]]
    BY <2>2, <1>27, JobUpdate DEF JobOpen
  <2>4. tmp' \in [Seg -> File]
    BY <2>1, <1>27 DEF JobOpen, TypeOK, SpoolType, File, Writer
  <2> QED BY <2>3, <2>4, <1>27 DEF JobOpen, JobKeep, TypeOK, SpoolType, FgType, AsType, EnvType,
     spoolVars, fgVars, asVars, envVars
<1>28. ASSUME NEW a \in Async, NEW w \in Worker, JobWrite(a, w) PROVE TypeOK'
  <2>1. job[a][w] \in [seg : Seg, todo : SUBSET Repo, src : Repo \cup {None},
                      warn : BOOLEAN, step : {"open", "write", "done"}]
    BY <1>28, JobFields DEF JobWrite
  <2>2. CASE job[a][w].src \in up
    <3>1. [job[a][w] EXCEPT !.step = "done"] \in JobType
      BY <2>1 DEF JobType
    <3>2. job' \in [Async -> [Worker -> JobType]]
      BY <2>2, <3>1, <1>28, JobUpdate DEF JobWrite
    <3>3. tmp' \in [Seg -> File] /\ queue' \in [Seg -> File]
      BY <2>1, <2>2, <1>28 DEF JobWrite, TypeOK, SpoolType, File
    <3> QED BY <3>2, <3>3, <1>28 DEF JobWrite, JobKeep, TypeOK, SpoolType, FgType, AsType, EnvType,
            spoolVars, fgVars, asVars, envVars
  <2>3. CASE job[a][w].src \notin up
    <3>1. [job[a][w] EXCEPT !.todo = @ \ {job[a][w].src}, !.warn = TRUE, !.step = "open"]
            \in JobType
      BY <2>1 DEF JobType
    <3>2. job' \in [Async -> [Worker -> JobType]]
      BY <2>3, <3>1, <1>28, JobUpdate DEF JobWrite
    <3> QED BY <3>2, <2>3, <1>28 DEF JobWrite, JobKeep, TypeOK, SpoolType, FgType, AsType, EnvType,
            spoolVars, fgVars, asVars, envVars
  <2> QED BY <2>2, <2>3, <1>28 DEF JobWrite, JobKeep, TypeOK, SpoolType, FgType, AsType, EnvType,
     spoolVars, fgVars, asVars, envVars
<1>29. CASE PgRestart
  BY <1>29 DEF PgRestart, Kill, TypeOK, SpoolType, FgType, AsType, EnvType,
     spoolVars, fgVars, asVars, envVars
<1>30. CASE ArchiveNext
  <2>1. Cardinality(archive) + 1 \in 1..NSeg
    BY <1>30, ArchiveGrows DEF ArchiveNext, TypeOK
  <2> QED BY <2>1, <1>30, ZenonT(40) DEF ArchiveNext, TypeOK, SpoolType, FgType, AsType, EnvType,
     spoolVars, fgVars, asVars, envVars
<1>31. ASSUME NEW a \in Async, AsKill(a) PROVE TypeOK'
  BY <1>31 DEF AsKill, Kill, TypeOK, SpoolType, FgType, AsType, EnvType,
     spoolVars, fgVars, asVars, envVars
<1>32. ASSUME NEW a \in Async, AsProtocolError(a) PROVE TypeOK'
  BY <1>32 DEF AsProtocolError, Kill, TypeOK, SpoolType, FgType, AsType, EnvType,
     spoolVars, fgVars, asVars, envVars
<1>33. ASSUME NEW r \in Repo, RepoDown(r) PROVE TypeOK'
  BY <1>33 DEF RepoDown, TypeOK, SpoolType, FgType, AsType, EnvType,
     spoolVars, fgVars, asVars, envVars
<1>34. ASSUME NEW r \in Repo, RepoUp(r) PROVE TypeOK'
  BY <1>34 DEF RepoUp, TypeOK, SpoolType, FgType, AsType, EnvType,
     spoolVars, fgVars, asVars, envVars
<1>35. CASE UNCHANGED vars
  BY <1>35 DEF vars, TypeOK, SpoolType, FgType, AsType, EnvType,
     spoolVars, fgVars, asVars, envVars
<1> QED
  BY <1>1, <1>2, <1>3, <1>4, <1>5, <1>6, <1>7, <1>8, <1>9, <1>10, <1>11, <1>12, <1>13, <1>14, <1>15, <1>16, <1>17, <1>18, <1>19, <1>20, <1>21, <1>22, <1>23, <1>24, <1>25, <1>26, <1>27, <1>28, <1>29, <1>30, <1>31, <1>32, <1>33, <1>34, <1>35
  DEF Next, Foreground, AsyncProcess, Job, Environment

\* The variables of the spool, of the processes and of the environment keep
\* their types, whatever is killed and however repositories fail.
THEOREM TypeCorrect ==
    Spec => []TypeOK
<1>1. TypeOK /\ [Next]_vars => TypeOK'
  BY TypeStep
<1> QED BY InitType, <1>1, PTL DEF Spec

-----------------------------------------------------------------------------
(* A foreground throws only errors of the attempt it began. *)

\* From the fork on every error file is a new one.
ErrorsFresh == forked => errFile \subseteq fresh

LEMMA ErrorsFreshStep ==
    ASSUME ErrorsFresh, [Next]_vars
    PROVE  ErrorsFresh'
<1>1. \/ UNCHANGED << errFile, fresh, forked >>
      \/ FgStart \/ FgNeed
      \/ \E a \in Async : AsStatus(a) \/ AsFatal(a) \/ \E w \in Worker : AsError(a, w)
  <2>1. CASE Foreground
    BY <2>1 DEF Foreground, FgSuccess, FgMissing, FgFound, FgStatusOk, FgStatusNone,
       FgStatusError, FgMove, FgLock, FgNoLock, FgAgain, FgTimeout, FgSync, FgKeep, spoolVars
  <2>2. ASSUME NEW a \in Async, AsyncProcess(a)
        PROVE  \/ UNCHANGED << errFile, fresh, forked >>
               \/ AsStatus(a) \/ AsFatal(a) \/ \E w \in Worker : AsError(a, w)
    BY <2>2 DEF AsyncProcess, AsLoad, AsCheck, AsFind, AsJob, AsOk, AsRename, AsExit, AsKeep,
       JobOrphan, JobKeep, spoolVars, fgVars
  <2>3. ASSUME NEW a \in Async, Job(a)
        PROVE  UNCHANGED << errFile, fresh, forked >>
    BY <2>3 DEF Job, JobSkip, JobOpen, JobWrite, JobKeep, fgVars
  <2>4. CASE Environment \/ UNCHANGED vars \/ \E r \in Repo : RepoUp(r)
    BY <2>4 DEF Environment, PgRestart, ArchiveNext, AsKill, AsProtocolError, RepoDown, RepoUp,
       vars, spoolVars, fgVars
  <2> QED BY <2>1, <2>2, <2>3, <2>4 DEF Next
<1>2. CASE UNCHANGED << errFile, fresh, forked >>
  BY <1>2 DEF ErrorsFresh
<1>3. CASE FgStart
  BY <1>3 DEF FgStart, ErrorsFresh
<1>4. CASE FgNeed
  BY <1>4 DEF FgNeed, QueueNeed, ErrorsFresh
<1>5. ASSUME NEW a \in Async, AsStatus(a) PROVE ErrorsFresh'
  BY <1>5 DEF AsStatus, AsKeep, fgVars, ErrorsFresh
<1>6. ASSUME NEW a \in Async, AsFatal(a) PROVE ErrorsFresh'
  BY <1>6 DEF AsFatal, AsKeep, fgVars, ErrorsFresh
<1>7. ASSUME NEW a \in Async, NEW w \in Worker, AsError(a, w) PROVE ErrorsFresh'
  BY <1>7 DEF AsError, AsKeep, fgVars, ErrorsFresh
<1> QED BY <1>1, <1>2, <1>3, <1>4, <1>5, <1>6, <1>7

\* Only archiveAsyncStatus() ends a foreground that looks for errors, unless
\* PostgreSQL is restarted.
LEMMA ErrorStep ==
    ASSUME [Next]_vars, fpc = "error", fpc' = "idle"
    PROVE  {fseg, Global} \cap errFile # {} \/ Kill
BY DEF Next, vars, Foreground, FgStart, FgSuccess, FgMissing, FgFound, FgStatusOk,
   FgStatusNone, FgStatusError, FgMove, FgLock, FgNoLock, FgNeed, FgAgain, FgTimeout,
   FgSync, AsyncProcess, AsLoad, AsCheck, AsFind, AsJob, AsError, AsOk, AsRename,
   AsStatus, AsFatal, AsExit, AsKeep, Job, JobSkip, JobOpen, JobWrite, JobOrphan, JobKeep,
   Environment, PgRestart, AsKill, AsProtocolError, RepoDown, RepoUp, ArchiveNext, fgVars

\* A foreground that has forked an async process never throws an error older
\* than the fork, whatever runs next to it: it has emptied the queue under the
\* archive lock.
THEOREM FreshErrors ==
    Spec => ErrorIsFresh
<1>1. Init => ErrorsFresh
  BY DEF Init, ErrorsFresh
<1>2. ErrorsFresh /\ [Next]_vars => ErrorsFresh'
  BY ErrorsFreshStep
<1>3. TypeOK /\ ErrorsFresh /\ [Next]_vars
        => (fpc = "error" /\ fpc' = "idle" /\ forked /\ kills' = kills
              => {fseg, Global} \cap fresh # {})
  <2> SUFFICES ASSUME TypeOK, ErrorsFresh, [Next]_vars, fpc = "error", fpc' = "idle",
                      forked, kills' = kills
               PROVE  {fseg, Global} \cap fresh # {}
    OBVIOUS
  <2>1. ~Kill
    BY ArchiveGetAssumption DEF Kill, TypeOK, EnvType
  <2>2. {fseg, Global} \cap errFile # {}
    BY <2>1, ErrorStep
  <2> QED BY <2>2 DEF ErrorsFresh
<1>4. Spec => []ErrorsFresh
  BY <1>1, <1>2, PTL DEF Spec
<1> QED BY <1>3, <1>4, TypeCorrect, PTL DEF Spec, ErrorIsFresh

-----------------------------------------------------------------------------
(* Which actions change what. *)

\* A worker goes on with its job ...
Continues(a, w) ==
    AsOk(a, w) \/ JobWrite(a, w) \/ \E r \in Repo : JobSkip(a, w, r) \/ JobOpen(a, w, r)

\* ... or is through with it.
Ends(a, w) ==
    AsError(a, w) \/ AsRename(a, w) \/ JobOrphan(a, w)

\* A step of the foreground, apart from the fork.
FgOther ==
    \/ FgStart \/ FgSuccess \/ FgMissing \/ FgFound \/ FgStatusOk \/ FgStatusNone
    \/ FgStatusError \/ FgMove \/ FgLock \/ FgNoLock \/ FgAgain \/ FgTimeout \/ FgSync

\* A step of an async process itself.
Main(a) ==
    \/ AsLoad(a) \/ AsCheck(a) \/ AsFind(a) \/ AsStatus(a) \/ AsFatal(a) \/ AsExit(a)
    \/ AsKill(a) \/ AsProtocolError(a)

\* A step that no process of archive-get takes.
Outside ==
    \/ PgRestart \/ ArchiveNext \/ UNCHANGED vars
    \/ \E r \in Repo : RepoDown(r) \/ RepoUp(r)

LEMMA StepKinds ==
    ASSUME [Next]_vars
    PROVE  \/ FgOther \/ FgNeed \/ Outside
           \/ \E a \in Async : \/ Main(a)
                               \/ \E w \in Worker : AsJob(a, w) \/ Continues(a, w) \/ Ends(a, w)
BY DEF Next, Foreground, AsyncProcess, Job, Environment, FgOther, Main, Outside, Continues, Ends

\* Jobs are changed by the steps of their worker alone.
LEMMA FgOtherFrame ==
    ASSUME FgOther
    PROVE  UNCHANGED << job, tmp, asVars, archive, up >>
BY DEF FgOther, FgStart, FgSuccess, FgMissing, FgFound, FgStatusOk, FgStatusNone, FgStatusError,
   FgMove, FgLock, FgNoLock, FgAgain, FgTimeout, FgSync, FgKeep, spoolVars, envVars

LEMMA FgNeedFrame ==
    ASSUME FgNeed
    PROVE  /\ UNCHANGED << job, repoList, warn, fileMap, missing, error, archive, up >>
           /\ UNCHANGED << fseg, found, absent >>
BY DEF FgNeed, envVars

LEMMA MainFrame ==
    ASSUME NEW a \in Async, Main(a)
    PROVE  UNCHANGED << job, queue, tmp, fgVars, archive, up >>
BY DEF Main, AsLoad, AsCheck, AsFind, AsStatus, AsFatal, AsExit, AsKill, AsProtocolError, AsKeep,
   spoolVars, envVars

LEMMA OutsideFrame ==
    ASSUME Outside
    PROVE  UNCHANGED << job, spoolVars, asVars, fseg, found, absent >>
BY DEF Outside, PgRestart, ArchiveNext, RepoDown, RepoUp, vars, fgVars

LEMMA AsJobFrame ==
    ASSUME NEW a \in Async, NEW w \in Worker, AsJob(a, w)
    PROVE  /\ UNCHANGED << spoolVars, fgVars, envVars, lock, apc, repoList, warn, missing >>
           /\ apc[a] = "get" /\ job[a][w] = Idle
BY DEF AsJob, AsKeep

LEMMA ContinuesFrame ==
    ASSUME NEW a \in Async, NEW w \in Worker, Continues(a, w)
    PROVE  UNCHANGED << fgVars, envVars, lock, asVars >>
BY DEF Continues, AsOk, JobWrite, JobSkip, JobOpen, AsKeep, JobKeep

LEMMA EndsFrame ==
    ASSUME NEW a \in Async, NEW w \in Worker, Ends(a, w)
    PROVE  UNCHANGED << fgVars, envVars, lock, asVars >>
BY DEF Ends, AsError, AsRename, JobOrphan, AsKeep, JobKeep

\* A job that is continued keeps its segment.
LEMMA ContinuesJob ==
    ASSUME TypeOK, NEW a \in Async, NEW w \in Worker, Continues(a, w)
    PROVE  /\ job[a][w] # Idle
           /\ \E k \in JobType : /\ job' = [job EXCEPT ![a][w] = k]
                                 /\ k # Idle /\ k.seg = job[a][w].seg
<1> DEFINE j == job[a][w]
<1>1. j.step \in {"open", "write", "done"}
  BY DEF Continues, AsOk, JobWrite, JobSkip, JobOpen
<1>2. /\ j # Idle
      /\ j \in [seg : Seg, todo : SUBSET Repo, src : Repo \cup {None}, warn : BOOLEAN,
                step : {"open", "write", "done"}]
  BY <1>1, JobFields
<1>3. CASE AsOk(a, w)
  <2>1. job' = [job EXCEPT ![a][w] = [j EXCEPT !.warn = FALSE]]
    BY <1>3 DEF AsOk
  <2>2. [j EXCEPT !.warn = FALSE] \in JobType /\ [j EXCEPT !.warn = FALSE] # Idle
    BY <1>2 DEF JobType, Idle
  <2> QED BY <1>2, <2>1, <2>2
<1>4. ASSUME NEW r \in Repo, JobSkip(a, w, r)
      PROVE  \E k \in JobType : /\ job' = [job EXCEPT ![a][w] = k]
                                /\ k # Idle /\ k.seg = j.seg
  <2> DEFINE k == [j EXCEPT !.todo = @ \ {r}, !.warn = TRUE]
  <2>1. job' = [job EXCEPT ![a][w] = k]
    BY <1>4 DEF JobSkip
  <2>2. k \in JobType /\ k # Idle /\ k.seg = j.seg
    BY <1>2 DEF JobType, Idle
  <2> QED BY <2>1, <2>2
<1>5. ASSUME NEW r \in Repo, JobOpen(a, w, r)
      PROVE  \E k \in JobType : /\ job' = [job EXCEPT ![a][w] = k]
                                /\ k # Idle /\ k.seg = j.seg
  <2> DEFINE k == [j EXCEPT !.src = r, !.step = "write"]
  <2>1. job' = [job EXCEPT ![a][w] = k]
    BY <1>5 DEF JobOpen
  <2>2. k \in JobType /\ k # Idle /\ k.seg = j.seg
    BY <1>2 DEF JobType, Idle
  <2> QED BY <2>1, <2>2
<1>6. CASE JobWrite(a, w)
  <2>1. CASE j.src \in up
    <3>1. job' = [job EXCEPT ![a][w] = [j EXCEPT !.step = "done"]]
      BY <1>6, <2>1 DEF JobWrite
    <3>2. [j EXCEPT !.step = "done"] \in JobType /\ [j EXCEPT !.step = "done"] # Idle
      BY <1>2 DEF JobType, Idle
    <3> QED BY <1>2, <3>1, <3>2
  <2>2. CASE j.src \notin up
    <3> DEFINE k == [j EXCEPT !.todo = @ \ {j.src}, !.warn = TRUE, !.step = "open"]
    <3>1. job' = [job EXCEPT ![a][w] = k]
      BY <1>6, <2>2 DEF JobWrite
    <3>2. k \in JobType /\ k # Idle /\ k.seg = j.seg
      BY <1>2 DEF JobType, Idle
    <3> QED BY <1>2, <3>1, <3>2
  <2> QED BY <2>1, <2>2
<1> QED BY <1>2, <1>3, <1>4, <1>5, <1>6, SMTT(30) DEF Continues

LEMMA EndsJob ==
    ASSUME TypeOK, NEW a \in Async, NEW w \in Worker, Ends(a, w)
    PROVE  /\ job[a][w] # Idle
           /\ job' = [job EXCEPT ![a][w] = Idle]
<1>1. job[a][w].step # "idle"
  BY DEF Ends, AsError, AsRename, JobOrphan
<1> QED BY <1>1, JobFields DEF Ends, AsError, AsRename, JobOrphan

LEMMA AsJobJob ==
    ASSUME TypeOK, NEW a \in Async, NEW w \in Worker, AsJob(a, w)
    PROVE  \E s \in fileMap[a] :
             /\ fileMap' = [fileMap EXCEPT ![a] = @ \ {s}]
             /\ job' = [job EXCEPT ![a][w] = [seg |-> s, todo |-> repoList[a], src |-> None,
                                              warn |-> s \in warn[a], step |-> "open"]]
             /\ [seg |-> s, todo |-> repoList[a], src |-> None, warn |-> s \in warn[a],
                 step |-> "open"] \in JobType \ {Idle}
<1>1. PICK s \in Oldest(fileMap[a]) :
         /\ job' = [job EXCEPT ![a][w] = [seg |-> s, todo |-> repoList[a], src |-> None,
                                          warn |-> s \in warn[a], step |-> "open"]]
         /\ fileMap' = [fileMap EXCEPT ![a] = @ \ {s}]
  BY DEF AsJob
<1>2. [seg |-> s, todo |-> repoList[a], src |-> None, warn |-> s \in warn[a],
       step |-> "open"] \in JobType \ {Idle}
  BY <1>1 DEF Oldest, JobType, TypeOK, AsType, Idle
<1> QED BY <1>1, <1>2 DEF Oldest

\* What the jobs are after the job of one worker has changed.
LEMMA JobAfter ==
    ASSUME TypeOK, NEW a \in Async, NEW w \in Worker, NEW k,
           job' = [job EXCEPT ![a][w] = k]
    PROVE  \A b \in Async, v \in Worker :
             job'[b][v] = IF b = a /\ v = w THEN k ELSE job[b][v]
BY DEF TypeOK

-----------------------------------------------------------------------------
(* Who holds the archive lock, and what is being worked on. *)

\* The lock is held by the foreground while it cleans the queue, and by an
\* async process from its configuration to its end.
Holders ==
    /\ fpc = "need" => lock = Fg
    /\ \A a \in Async : apc[a] \in {"check", "find", "get", "fatal", "exit"} => lock = a

LEMMA HoldersStep ==
    ASSUME TypeOK, Holders, [Next]_vars
    PROVE  Holders'
<1> USE ArchiveGetAssumption DEF Holders
<1>1. CASE FgOther
  BY <1>1 DEF FgOther, FgStart, FgSuccess, FgMissing, FgFound, FgStatusOk, FgStatusNone,
     FgStatusError, FgMove, FgLock, FgNoLock, FgAgain, FgTimeout, FgSync, FgKeep, asVars
<1>2. CASE FgNeed
  BY <1>2 DEF FgNeed, TypeOK, AsType
<1>3. ASSUME NEW a \in Async, Main(a) PROVE Holders'
  <2>1. fpc' = fpc
    BY <1>3, MainFrame DEF fgVars
  <2>2. CASE AsLoad(a)
    BY <2>1, <2>2 DEF AsLoad, TypeOK, AsType
  <2>3. CASE AsCheck(a)
    BY <2>1, <2>3 DEF AsCheck, TypeOK, AsType
  <2>4. CASE AsFind(a)
    <3>1. apc' \in {[apc EXCEPT ![a] = "get"], [apc EXCEPT ![a] = "find"]}
      BY <2>4 DEF AsFind
    <3>2. lock' = lock /\ apc[a] = "find"
      BY <2>4 DEF AsFind
    <3> QED BY <2>1, <3>1, <3>2 DEF TypeOK, AsType
  <2>5. CASE AsStatus(a)
    BY <2>1, <2>5 DEF AsStatus, TypeOK, AsType
  <2>6. CASE AsFatal(a)
    BY <2>1, <2>6 DEF AsFatal, TypeOK, AsType
  <2>7. CASE AsExit(a)
    BY <2>1, <2>7 DEF AsExit, TypeOK, AsType
  <2>8. CASE AsKill(a)
    BY <2>1, <2>8 DEF AsKill, TypeOK, AsType
  <2>9. CASE AsProtocolError(a)
    BY <2>1, <2>9 DEF AsProtocolError, TypeOK, AsType
  <2> QED BY <1>3, <2>2, <2>3, <2>4, <2>5, <2>6, <2>7, <2>8, <2>9 DEF Main
<1>4. ASSUME NEW a \in Async, NEW w \in Worker, AsJob(a, w) \/ Continues(a, w) \/ Ends(a, w)
      PROVE  Holders'
  BY <1>4, AsJobFrame, ContinuesFrame, EndsFrame DEF fgVars, asVars
<1>5. CASE Outside
  BY <1>5 DEF Outside, PgRestart, ArchiveNext, RepoDown, RepoUp, vars, fgVars, asVars
<1> QED BY <1>1, <1>2, <1>3, <1>4, <1>5, StepKinds

\* An async process that has yet to find its segments has no jobs, two
\* workers of one process never have the same segment, and a segment that
\* waits for a worker is not with another one.
JobsApart ==
    \A a \in Async, w \in Worker : job[a][w] # Idle =>
        /\ apc[a] \notin {"load", "check", "find"}
        /\ job[a][w].seg \notin fileMap[a]
        /\ \A v \in Worker : job[a][v] # Idle /\ job[a][v].seg = job[a][w].seg => v = w

LEMMA JobsApartStep ==
    ASSUME TypeOK, JobsApart, [Next]_vars
    PROVE  JobsApart'
<1>1. CASE FgOther
  BY <1>1, FgOtherFrame DEF JobsApart, asVars
<1>2. CASE FgNeed
  <2>1. PICK a \in Async : /\ \A w \in Worker : job[a][w] = Idle
                           /\ apc' = [apc EXCEPT ![a] = "load"]
    BY <1>2 DEF FgNeed
  <2>2. UNCHANGED << job, fileMap >>
    BY <1>2, FgNeedFrame
  <2> QED BY <2>1, <2>2 DEF JobsApart, TypeOK, AsType
<1>3. ASSUME NEW a \in Async, Main(a) PROVE JobsApart'
  <2>1. job' = job
    BY <1>3, MainFrame
  <2>2. \A b \in Async \ {a} : apc'[b] = apc[b] /\ fileMap'[b] = fileMap[b]
    BY <1>3 DEF Main, AsLoad, AsCheck, AsFind, AsStatus, AsFatal, AsExit, AsKill,
       AsProtocolError, TypeOK, AsType
  <2>3. apc'[a] \in {"load", "check", "find"} => apc[a] \in {"load", "check", "find"}
    BY <1>3 DEF Main, AsLoad, AsCheck, AsFind, AsStatus, AsFatal, AsExit, AsKill,
       AsProtocolError, TypeOK, AsType
  <2>4. fileMap'[a] \subseteq fileMap[a] \/ apc[a] = "find"
    BY <1>3 DEF Main, AsLoad, AsCheck, AsFind, AsStatus, AsFatal, AsExit, AsKill,
       AsProtocolError, TypeOK, AsType
  <2> QED BY <2>1, <2>2, <2>3, <2>4 DEF JobsApart
<1>4. ASSUME NEW a \in Async, NEW w \in Worker, AsJob(a, w) PROVE JobsApart'
  <2>1. PICK s \in fileMap[a], k \in JobType \ {Idle} :
          /\ fileMap' = [fileMap EXCEPT ![a] = @ \ {s}]
          /\ job' = [job EXCEPT ![a][w] = k]
          /\ k.seg = s
    BY <1>4, AsJobJob
  <2>2. apc' = apc /\ apc[a] = "get"
    BY <1>4, AsJobFrame
  <2>3. \A b \in Async, v \in Worker :
          job'[b][v] = IF b = a /\ v = w THEN k ELSE job[b][v]
    BY <2>1 DEF TypeOK
  <2>4. \A b \in Async : fileMap'[b] = IF b = a THEN fileMap[a] \ {s} ELSE fileMap[b]
    BY <2>1 DEF TypeOK, AsType
  <2>5. job[a][w] = Idle
    BY <1>4, AsJobFrame
  <2> QED BY <2>1, <2>2, <2>3, <2>4, <2>5 DEF JobsApart
<1>5. ASSUME NEW a \in Async, NEW w \in Worker, Continues(a, w) PROVE JobsApart'
  <2>1. PICK k \in JobType :
          job' = [job EXCEPT ![a][w] = k] /\ k # Idle /\ k.seg = job[a][w].seg
    BY <1>5, ContinuesJob
  <2>2. job[a][w] # Idle
    BY <1>5, ContinuesJob
  <2>3. \A b \in Async, v \in Worker :
          job'[b][v] = IF b = a /\ v = w THEN k ELSE job[b][v]
    BY <2>1 DEF TypeOK
  <2>4. apc' = apc /\ fileMap' = fileMap
    BY <1>5, ContinuesFrame DEF asVars
  <2> QED BY <2>1, <2>2, <2>3, <2>4 DEF JobsApart
<1>6. ASSUME NEW a \in Async, NEW w \in Worker, Ends(a, w) PROVE JobsApart'
  <2>1. \A b \in Async, v \in Worker :
          job'[b][v] = IF b = a /\ v = w THEN Idle ELSE job[b][v]
    BY <1>6, EndsJob, JobAfter
  <2>2. apc' = apc /\ fileMap' = fileMap
    BY <1>6, EndsFrame DEF asVars
  <2> QED BY <2>1, <2>2 DEF JobsApart
<1>7. CASE Outside
  BY <1>7, OutsideFrame DEF JobsApart, asVars
<1> QED BY <1>1, <1>2, <1>3, <1>4, <1>5, <1>6, <1>7, StepKinds

-----------------------------------------------------------------------------
(* PostgreSQL gets whole segments.                                         *)
(*                                                                         *)
(* Workers that outlive their async process may write to the files of the  *)
(* next one, so this holds when nothing is killed, or when an async        *)
(* process is only begun after the workers of the last one are done.       *)
NoOverlap == MaxKill = 0 \/ \A a, b \in Async : a = b

\* Without kills only an async process that gets segments has jobs.
Attended ==
    MaxKill = 0 => \A a \in Async, w \in Worker : job[a][w] # Idle => apc[a] = "get"

\* The temporary file of a job is its own, and whole when the job is done.
TmpWhole ==
    \A a \in Async, w \in Worker :
        /\ job[a][w].step = "write" => tmp[job[a][w].seg] = {<< a, w >>}
        /\ job[a][w].step = "done" => tmp[job[a][w].seg] = {}

QueueWhole == \A s \in Queued : Whole(queue[s])

\* A segment that was found stays in the queue until it is moved.
FoundQueued ==
    /\ fpc \in {"status", "error", "move"} /\ found => fseg \in Queued
    /\ fpc = "move" => found

WholeInv ==
    TypeOK /\ Holders /\ JobsApart /\ Attended /\ TmpWhole /\ QueueWhole /\ FoundQueued

LEMMA AttendedStep ==
    ASSUME TypeOK, Attended, [Next]_vars
    PROVE  Attended'
<1> SUFFICES ASSUME MaxKill = 0, NEW b \in Async, NEW v \in Worker, job'[b][v] # Idle
             PROVE  apc'[b] = "get"
  BY DEF Attended
<1>0. job[b][v] # Idle => apc[b] = "get"
  BY DEF Attended
<1>1. CASE FgOther
  BY <1>0, <1>1, FgOtherFrame DEF asVars
<1>2. CASE FgNeed
  <2>1. PICK a \in Async : /\ \A w \in Worker : job[a][w] = Idle
                           /\ apc' = [apc EXCEPT ![a] = "load"]
    BY <1>2 DEF FgNeed
  <2>2. job' = job
    BY <1>2, FgNeedFrame
  <2> QED BY <1>0, <2>1, <2>2 DEF TypeOK, AsType
<1>3. ASSUME NEW a \in Async, Main(a) PROVE apc'[b] = "get"
  <2>1. job' = job
    BY <1>3, MainFrame
  <2>2. ~Kill
    BY ArchiveGetAssumption DEF Kill, TypeOK, EnvType
  <2>3. AsLoad(a) \/ AsCheck(a) \/ AsFind(a) \/ AsStatus(a) \/ AsFatal(a) \/ AsExit(a)
    BY <1>3, <2>2 DEF Main, AsKill, AsProtocolError
  <2>4. a # b => apc'[b] = apc[b]
    BY <2>3 DEF AsLoad, AsCheck, AsFind, AsStatus, AsFatal, AsExit, TypeOK, AsType
  <2>5. apc[a] = "get" => AsStatus(a)
    BY <2>3 DEF AsLoad, AsCheck, AsFind, AsStatus, AsFatal, AsExit
  <2>6. AsStatus(a) => \A w \in Worker : job[a][w] = Idle
    BY DEF AsStatus
  <2> QED BY <1>0, <2>1, <2>4, <2>5, <2>6
<1>4. ASSUME NEW a \in Async, NEW w \in Worker, AsJob(a, w) PROVE apc'[b] = "get"
  <2>1. PICK k : job' = [job EXCEPT ![a][w] = k]
    BY <1>4 DEF AsJob
  <2>2. a # b => job'[b][v] = job[b][v]
    BY <2>1 DEF TypeOK
  <2> QED BY <1>0, <2>2, <1>4, AsJobFrame
<1>5. ASSUME NEW a \in Async, NEW w \in Worker, Continues(a, w) PROVE apc'[b] = "get"
  <2>1. PICK k : job' = [job EXCEPT ![a][w] = k]
    BY <1>5, ContinuesJob
  <2>2. job[b][v] # Idle
    <3>1. a # b \/ w # v => job'[b][v] = job[b][v]
      BY <2>1 DEF TypeOK
    <3> QED BY <3>1, <1>5, ContinuesJob
  <2> QED BY <1>0, <2>2, <1>5, ContinuesFrame DEF asVars
<1>6. ASSUME NEW a \in Async, NEW w \in Worker, Ends(a, w) PROVE apc'[b] = "get"
  <2>1. job' = [job EXCEPT ![a][w] = Idle]
    BY <1>6, EndsJob
  <2>2. job[b][v] # Idle
    BY <2>1 DEF TypeOK
  <2> QED BY <1>0, <2>2, <1>6, EndsFrame DEF asVars
<1>7. CASE Outside
  BY <1>0, <1>7, OutsideFrame DEF asVars
<1> QED BY <1>1, <1>2, <1>3, <1>4, <1>5, <1>6, <1>7, StepKinds

\* Two jobs that are not idle belong to one process, for two segments.
LEMMA WorkAlone ==
    ASSUME NoOverlap, WholeInv,
           NEW a \in Async, NEW w \in Worker, job[a][w] # Idle,
           NEW b \in Async, NEW v \in Worker, job[b][v] # Idle,
           job[a][w].seg = job[b][v].seg
    PROVE  a = b /\ w = v
<1>1. a = b
  <2>1. CASE MaxKill = 0
    BY <2>1 DEF WholeInv, Attended, Holders
  <2> QED BY <2>1 DEF NoOverlap
<1> QED BY <1>1 DEF WholeInv, JobsApart

\* The queue is cleaned while there are no jobs.
LEMMA CleanedIdle ==
    ASSUME NoOverlap, WholeInv, FgNeed
    PROVE  \A a \in Async, w \in Worker : job[a][w] = Idle
<1>1. CASE MaxKill = 0
  <2>1. lock = Fg
    BY DEF WholeInv, Holders, FgNeed
  <2> QED BY <1>1, <2>1, ArchiveGetAssumption DEF WholeInv, Attended, Holders
<1>2. CASE \A a, b \in Async : a = b
  BY <1>2 DEF FgNeed
<1> QED BY <1>1, <1>2 DEF NoOverlap

LEMMA TmpWholeStep ==
    ASSUME NoOverlap, WholeInv, [Next]_vars
    PROVE  TmpWhole'
<1> SUFFICES ASSUME NEW b \in Async, NEW v \in Worker
             PROVE  /\ job'[b][v].step = "write" => tmp'[job'[b][v].seg] = {<< b, v >>}
                    /\ job'[b][v].step = "done" => tmp'[job'[b][v].seg] = {}
  BY DEF TmpWhole
<1> DEFINE Good ==
             /\ job'[b][v].step = "write" => tmp'[job'[b][v].seg] = {<< b, v >>}
             /\ job'[b][v].step = "done" => tmp'[job'[b][v].seg] = {}
<1>0. /\ TypeOK
      /\ job[b][v].step = "write" => tmp[job[b][v].seg] = {<< b, v >>}
      /\ job[b][v].step = "done" => tmp[job[b][v].seg] = {}
  BY DEF WholeInv, TmpWhole
<1>1. CASE FgOther
  BY <1>0, <1>1, FgOtherFrame
<1>2. CASE FgNeed
  <2>1. job'[b][v] = Idle
    BY <1>2, CleanedIdle, FgNeedFrame
  <2> QED BY <2>1 DEF Idle
<1>3. ASSUME NEW a \in Async, Main(a) PROVE Good
  BY <1>0, <1>3, MainFrame
<1>4. ASSUME NEW a \in Async, NEW w \in Worker, AsJob(a, w) PROVE Good
  <2>1. PICK s \in fileMap[a] :
          job' = [job EXCEPT ![a][w] = [seg |-> s, todo |-> repoList[a], src |-> None,
                                        warn |-> s \in warn[a], step |-> "open"]]
    BY <1>4 DEF AsJob, Oldest
  <2>2. tmp' = tmp
    BY <1>4, AsJobFrame DEF spoolVars
  <2>3. CASE a = b /\ w = v
    <3>1. job'[b][v].step = "open"
      BY <1>0, <2>1, <2>3 DEF TypeOK
    <3> QED BY <3>1
  <2>4. CASE ~(a = b /\ w = v)
    <3>1. job'[b][v] = job[b][v]
      BY <1>0, <2>1, <2>4 DEF TypeOK
    <3> QED BY <1>0, <3>1, <2>2
  <2> QED BY <2>3, <2>4
<1>5. ASSUME NEW a \in Async, NEW w \in Worker, Continues(a, w) \/ Ends(a, w),
             ~(a = b /\ w = v)
      PROVE  Good
  <2>1. job[a][w] # Idle
    BY <1>0, <1>5, ContinuesJob, EndsJob
  <2>2. PICK k : job' = [job EXCEPT ![a][w] = k]
    BY <1>0, <1>5, ContinuesJob, EndsJob
  <2>3. job'[b][v] = job[b][v]
    BY <1>0, <1>5, <2>2 DEF TypeOK
  <2>4. CASE job[b][v].step \in {"write", "done"}
    <3>1. job[b][v] # Idle
      BY <2>4 DEF Idle
    <3>2. job[a][w].seg # job[b][v].seg
      BY <1>5, <2>1, <3>1, WorkAlone, SMTT(30)
    <3>3. tmp' = tmp \/ \E f : tmp' = [tmp EXCEPT ![job[a][w].seg] = f]
      BY <1>5 DEF Continues, Ends, AsOk, JobWrite, JobSkip, JobOpen, AsError, AsRename,
         JobOrphan
    <3>4. tmp'[job[b][v].seg] = tmp[job[b][v].seg]
      BY <1>0, <3>1, <3>2, <3>3 DEF TypeOK, SpoolType, JobType
    <3> QED BY <1>0, <2>3, <3>4
  <2> QED BY <2>3, <2>4
<1>6. ASSUME Ends(b, v) PROVE Good
  <2>1. job'[b][v] = Idle
    BY <1>0, <1>6, EndsJob DEF TypeOK
  <2> QED BY <2>1 DEF Idle
<1>7. ASSUME Continues(b, v) PROVE Good
  <2> DEFINE j == job[b][v]
  <2>1. j.step \in {"open", "write", "done"} /\ j.seg \in Seg
        /\ j \in [seg : Seg, todo : SUBSET Repo, src : Repo \cup {None}, warn : BOOLEAN,
                  step : {"open", "write", "done"}]
    <3>1. j.step # "idle"
      BY <1>7 DEF Continues, AsOk, JobWrite, JobSkip, JobOpen
    <3> QED BY <1>0, <3>1, JobFields, SMTT(30)
  <2>2. CASE AsOk(b, v)
    <3>1. job'[b][v].step = "done" /\ job'[b][v].seg = j.seg
      BY <1>0, <2>1, <2>2 DEF AsOk, TypeOK
    <3>2. tmp' = tmp /\ j.step = "done"
      BY <2>2 DEF AsOk
    <3> QED BY <1>0, <3>1, <3>2
  <2>3. ASSUME NEW r \in Repo, JobSkip(b, v, r) PROVE Good
    <3>1. job'[b][v].step = "open"
      BY <1>0, <2>1, <2>3 DEF JobSkip, TypeOK
    <3> QED BY <3>1
  <2>4. ASSUME NEW r \in Repo, JobOpen(b, v, r) PROVE Good
    <3>1. job'[b][v].step = "write" /\ job'[b][v].seg = j.seg
      BY <1>0, <2>1, <2>4 DEF JobOpen, TypeOK
    <3>2. tmp'[j.seg] = {<< b, v >>}
      BY <1>0, <2>1, <2>4 DEF JobOpen, TypeOK, SpoolType
    <3> QED BY <3>1, <3>2
  <2>5. CASE JobWrite(b, v) /\ j.src \in up
    <3>1. job'[b][v].step = "done" /\ job'[b][v].seg = j.seg
      BY <1>0, <2>1, <2>5 DEF JobWrite, TypeOK
    <3>2. tmp[j.seg] = {<< b, v >>}
      BY <1>0, <2>5 DEF JobWrite
    <3>3. tmp'[j.seg] = tmp[j.seg] \ {<< b, v >>}
      BY <1>0, <2>1, <2>5, <3>2, ArchiveGetAssumption DEF JobWrite, TypeOK, SpoolType, Writer
    <3> QED BY <3>1, <3>2, <3>3
  <2>6. CASE JobWrite(b, v) /\ j.src \notin up
    <3>1. job'[b][v].step = "open"
      <4> DEFINE k == [j EXCEPT !.todo = @ \ {j.src}, !.warn = TRUE, !.step = "open"]
      <4>1. job' = [job EXCEPT ![b][v] = k]
        BY <2>6 DEF JobWrite
      <4>2. k.step = "open"
        BY <2>1
      <4>3. job'[b][v] = k
        BY <1>0, <4>1 DEF TypeOK
      <4> QED BY <4>2, <4>3
    <3> QED BY <3>1
  <2> QED BY <1>7, <2>2, <2>3, <2>4, <2>5, <2>6 DEF Continues
<1>8. CASE Outside
  BY <1>0, <1>8, OutsideFrame DEF spoolVars
<1> QED BY <1>1, <1>2, <1>3, <1>4, <1>5, <1>6, <1>7, <1>8, StepKinds

LEMMA QueueWholeStep ==
    ASSUME WholeInv, [Next]_vars
    PROVE  QueueWhole'
<1> SUFFICES ASSUME NEW s \in Seg, queue'[s] # NoFile
             PROVE  Whole(queue'[s])
  BY DEF QueueWhole, Queued
<1>0. /\ TypeOK /\ TmpWhole
      /\ queue[s] # NoFile => queue[s] = {}
  BY DEF WholeInv, QueueWhole, Queued, Whole
<1>1. CASE queue'[s] = queue[s]
  BY <1>0, <1>1 DEF Whole
<1>2. CASE FgMove
  BY <1>0, <1>2 DEF FgMove, TypeOK, SpoolType, Whole
<1>3. CASE FgNeed
  BY <1>0, <1>3 DEF FgNeed, QueueNeed, Whole
<1>4. ASSUME NEW a \in Async, NEW w \in Worker, AsRename(a, w) PROVE Whole(queue'[s])
  <2>1. tmp[job[a][w].seg] = {}
    BY <1>0, <1>4 DEF AsRename, TmpWhole
  <2> QED BY <1>0, <1>4, <2>1 DEF AsRename, TypeOK, SpoolType, Whole
<1>5. ASSUME NEW a \in Async, NEW w \in Worker, JobWrite(a, w) PROVE Whole(queue'[s])
  BY <1>0, <1>5 DEF JobWrite, TypeOK, SpoolType, Whole
<1>6. \/ queue' = queue \/ FgMove \/ FgNeed
      \/ \E a \in Async, w \in Worker : AsRename(a, w) \/ JobWrite(a, w)
  <2>1. CASE FgOther
    BY <2>1 DEF FgOther, FgStart, FgSuccess, FgMissing, FgFound, FgStatusOk, FgStatusNone,
       FgStatusError, FgLock, FgNoLock, FgAgain, FgTimeout, FgSync, spoolVars
  <2>2. ASSUME NEW a \in Async, NEW w \in Worker, AsJob(a, w) \/ Continues(a, w) \/ Ends(a, w)
        PROVE  queue' = queue \/ AsRename(a, w) \/ JobWrite(a, w)
    BY <2>2 DEF AsJob, Continues, Ends, AsOk, JobSkip, JobOpen, AsError, JobOrphan, spoolVars
  <2> QED BY <2>1, <2>2, StepKinds, MainFrame, OutsideFrame DEF spoolVars
<1> QED BY <1>1, <1>2, <1>3, <1>4, <1>5, <1>6

LEMMA FoundQueuedStep ==
    ASSUME WholeInv, [Next]_vars
    PROVE  FoundQueued'
<1>0. TypeOK /\ FoundQueued /\ TmpWhole
  BY DEF WholeInv
<1>1. CASE FgOther
  <2>1. CASE FgFound
    BY <2>1 DEF FgFound, FgKeep, spoolVars, FoundQueued, Queued
  <2>2. CASE FgStatusOk
    <3>1. fseg' = fseg /\ found' = found /\ queue' = queue /\ fpc = "status"
      BY <2>2 DEF FgStatusOk, FgKeep
    <3>2. fpc' = "move" => found
      BY <2>2 DEF FgStatusOk
    <3>3. fpc' \in {"move", "missing", "lock"}
      BY <2>2 DEF FgStatusOk
    <3> QED BY <1>0, <3>1, <3>2, <3>3 DEF FoundQueued, Queued
  <2>3. CASE FgStatusNone
    BY <1>0, <2>3 DEF FgStatusNone, FgKeep, spoolVars, FoundQueued, Queued
  <2>4. CASE FgStatusError
    <3>1. fseg' = fseg /\ found' = found /\ queue' = queue /\ fpc = "error"
      BY <2>4 DEF FgStatusError, FgKeep, spoolVars
    <3>2. fpc' = "move" => found
      BY <2>4 DEF FgStatusError
    <3>3. fpc' \in {"idle", "move", "lock"}
      BY <2>4 DEF FgStatusError
    <3> QED BY <1>0, <3>1, <3>2, <3>3 DEF FoundQueued, Queued
  <2>5. fpc' \notin {"status", "error", "move"} \/ FgFound \/ FgStatusOk \/ FgStatusNone \/ FgStatusError
    BY <1>1 DEF FgOther, FgStart, FgSuccess, FgMissing, FgMove, FgLock, FgNoLock, FgAgain, FgTimeout,
       FgSync
  <2> QED BY <2>1, <2>2, <2>3, <2>4, <2>5 DEF FoundQueued
<1>2. CASE FgNeed
  BY <1>2 DEF FgNeed, FoundQueued
<1>3. ASSUME UNCHANGED << fgVars, queue >> PROVE FoundQueued'
  BY <1>0, <1>3 DEF FoundQueued, Queued, fgVars
<1>4. ASSUME NEW a \in Async, NEW w \in Worker, Continues(a, w) \/ Ends(a, w)
      PROVE  FoundQueued'
  <2>1. UNCHANGED fgVars
    BY <1>4, ContinuesFrame, EndsFrame
  <2>2. Queued \subseteq Queued'
    <3>1. CASE queue' = queue
      BY <3>1 DEF Queued
    <3>2. CASE AsRename(a, w)
      <4>1. tmp[job[a][w].seg] # NoFile
        BY <1>0, <3>2, ArchiveGetAssumption DEF AsRename, TmpWhole, Writer
      <4> QED BY <1>0, <3>2, <4>1 DEF AsRename, Queued, TypeOK, SpoolType
    <3>3. CASE JobWrite(a, w)
      <4>1. \A s \in Seg : queue[s] # NoFile => queue[s] \ {<< a, w >>} \in SUBSET Writer
        BY <1>0 DEF TypeOK, SpoolType, File
      <4>2. \A s \in Seg : queue[s] # NoFile => queue[s] \ {<< a, w >>} # NoFile
        BY <4>1, ArchiveGetAssumption DEF Writer
      <4> QED BY <1>0, <3>3, <4>2 DEF JobWrite, Queued, TypeOK, SpoolType
    <3> QED BY <1>4, <3>1, <3>2, <3>3
            DEF Continues, Ends, AsOk, JobSkip, JobOpen, AsError, JobOrphan
  <2> QED BY <1>0, <2>1, <2>2 DEF FoundQueued, fgVars
<1>5. ASSUME Outside PROVE FoundQueued'
  <2>1. fpc' = fpc \/ fpc' = "idle"
    BY <1>5 DEF Outside, PgRestart, ArchiveNext, RepoDown, RepoUp, vars, fgVars
  <2> QED BY <1>0, <1>5, <2>1, OutsideFrame DEF FoundQueued, Queued, spoolVars
<1> QED BY <1>1, <1>2, <1>3, <1>4, <1>5, StepKinds, MainFrame, AsJobFrame DEF spoolVars

LEMMA WholeInvStep ==
    ASSUME NoOverlap, WholeInv, [Next]_vars
    PROVE  WholeInv'
<1>1. TypeOK' /\ Holders' /\ JobsApart' /\ Attended'
  BY TypeStep, HoldersStep, JobsApartStep, AttendedStep DEF WholeInv
<1> QED BY <1>1, TmpWholeStep, QueueWholeStep, FoundQueuedStep DEF WholeInv

LEMMA WholeInvInit ==
    Init => WholeInv
<1> SUFFICES ASSUME Init PROVE WholeInv
  OBVIOUS
<1>1. TypeOK
  BY InitType
<1>2. Holders /\ FoundQueued /\ QueueWhole
  BY DEF Init, Holders, FoundQueued, QueueWhole, Queued
<1>3. JobsApart /\ Attended
  BY DEF Init, JobsApart, Attended
<1>4. TmpWhole
  BY DEF Init, TmpWhole, Idle
<1> QED BY <1>1, <1>2, <1>3, <1>4 DEF WholeInv

\* A segment that is about to be moved was found, and the queue has only
\* whole segments.
LEMMA MoveStep ==
    ASSUME WholeInv, [Next]_vars, fpc = "move", fpc' = "lock"
    PROVE  Whole(queue[fseg])
<1>1. fseg \in Queued
  BY DEF WholeInv, FoundQueued
<1> QED BY <1>1 DEF WholeInv, QueueWhole

\* The foreground never gives PostgreSQL a part of a segment, whichever
\* repositories fail in the middle of it, as long as no two async processes
\* have workers at once.
THEOREM WholeMoved ==
    ASSUME NoOverlap
    PROVE  Spec => MovedIsWhole
<1>1. WholeInv /\ [Next]_vars => WholeInv'
  BY WholeInvStep
<1>2. WholeInv /\ [Next]_vars => (fpc = "move" /\ fpc' = "lock" => Whole(queue[fseg]))
  BY MoveStep
<1> QED BY <1>1, <1>2, WholeInvInit, PTL DEF Spec, MovedIsWhole

-----------------------------------------------------------------------------
(* What is reported as missing is missing.                                 *)
(*                                                                         *)
(* An ok file has two meanings: the warnings of a segment in the queue, or *)
(* a segment that is missing.  Run get_warn shows that the first is read   *)
(* as the second when there are warnings, and an ok file that is older     *)
(* than the segment in the archive still says missing.  So this holds      *)
(* when there are no warnings and the archive does not grow.               *)

\* A repository that fails leaves no other one to take the segment from.
NoWarnings == MaxDown = 0 \/ \A q, r \in Repo : q = r

SteadyArchive == MaxArchived <= FirstArchived

EnvSteady ==
    /\ archive = 1..FirstArchived
    /\ MaxDown = 0 => up = Repo

\* Processes have no warnings for what they get, nor have the jobs that can
\* still succeed.
NoneWarned ==
    /\ \A a \in Async : apc[a] = "find" \/ fileMap[a] # {} => warn[a] = {}
    /\ \A a \in Async, w \in Worker :
         /\ job[a][w].step \in {"write", "done"} => ~job[a][w].warn /\ job[a][w].src \in Repo
         /\ job[a][w].step = "open" /\ job[a][w].todo # {} => ~job[a][w].warn

\* What is noted as missing is not in the archive.
MissingNoted ==
    /\ \A a \in Async : missing[a] \notin archive
    /\ okFile \cap archive = {}
    /\ fpc # "idle" => absent = (fseg \notin archive)

MissingInv == TypeOK /\ EnvSteady /\ NoneWarned /\ MissingNoted

LEMMA EnvSteadyStep ==
    ASSUME SteadyArchive, TypeOK, EnvSteady, [Next]_vars
    PROVE  EnvSteady'
<1> USE ArchiveGetAssumption
<1>1. ~ArchiveNext
  <2>1. Cardinality(1..FirstArchived) = FirstArchived
    BY FS_Interval
  <2> QED BY <2>1 DEF ArchiveNext, EnvSteady, SteadyArchive
<1>2. ASSUME MaxDown = 0, NEW r \in Repo PROVE ~RepoDown(r) /\ (up = Repo => ~RepoUp(r))
  BY <1>2 DEF RepoDown, RepoUp, TypeOK, EnvType
<1>3. UNCHANGED << archive, up >> \/ \E r \in Repo : RepoDown(r) \/ RepoUp(r)
  <2>1. CASE Outside
    BY <1>1, <2>1 DEF Outside, PgRestart, vars, envVars
  <2> QED BY <2>1, StepKinds, FgOtherFrame, FgNeedFrame, MainFrame, AsJobFrame, ContinuesFrame,
             EndsFrame DEF envVars
<1>4. archive' = archive
  BY <1>3 DEF RepoDown, RepoUp
<1> QED BY <1>2, <1>3, <1>4 DEF EnvSteady

\* A list of repositories that still has one that is up is all up.
LEMMA ListUp ==
    ASSUME NoWarnings, EnvSteady, NEW R, R \subseteq Repo, up \subseteq Repo, R \cap up # {}
    PROVE  R \subseteq up
BY DEF NoWarnings, EnvSteady

LEMMA NoneWarnedStep ==
    ASSUME NoWarnings, MissingInv, [Next]_vars
    PROVE  NoneWarned'
<1>0. /\ TypeOK /\ EnvSteady /\ NoneWarned
      /\ up \subseteq Repo /\ \A a \in Async : repoList[a] \subseteq Repo
  BY DEF MissingInv, TypeOK, EnvType, AsType
<1>1. CASE FgOther
  BY <1>0, <1>1, FgOtherFrame DEF NoneWarned, asVars
<1>2. CASE FgNeed
  <2>1. UNCHANGED << job, fileMap, warn >> /\ \A a \in Async : apc'[a] = "find" => apc[a] = "find"
    BY <1>0, <1>2 DEF FgNeed, TypeOK, AsType
  <2> QED BY <1>0, <2>1 DEF NoneWarned
<1>3. ASSUME NEW a \in Async, Main(a) PROVE NoneWarned'
  <2>1. job' = job
    BY <1>3, MainFrame
  <2>2. \A b \in Async \ {a} : UNCHANGED << apc[b], fileMap[b], warn[b] >>
    BY <1>0, <1>3 DEF Main, AsLoad, AsCheck, AsFind, AsStatus, AsFatal, AsExit, AsKill,
       AsProtocolError, TypeOK, AsType
  <2>3. apc'[a] = "find" \/ fileMap'[a] # {} => warn'[a] = {}
    <3>1. CASE AsCheck(a)
      <4>1. fileMap'[a] = {}
        BY <1>0, <3>1 DEF AsCheck, TypeOK, AsType
      <4>2. apc'[a] = "find" => up # {}
        BY <1>0, <3>1 DEF AsCheck, TypeOK, AsType
      <4>3. up # {} => up = Repo
        <5>1. up # {} => Repo \cap up # {}
          BY <1>0
        <5> QED BY <1>0, <5>1, ListUp
      <4>4. up = Repo => warn'[a] = {}
        BY <1>0, <3>1 DEF AsCheck, TypeOK, AsType
      <4> QED BY <4>1, <4>2, <4>3, <4>4
    <3>2. CASE AsFind(a)
      <4>1. warn[a] = {}
        BY <1>0, <3>2 DEF AsFind, NoneWarned
      <4>2. repoList[a] \cap up # {} => repoList[a] \subseteq up
        BY <1>0, ListUp
      <4>3. warn'[a] = warn[a]
        <5>1. warn' = warn \/ warn' = [warn EXCEPT ![a] = @]
          BY <3>2, <4>2 DEF AsFind
        <5> QED BY <1>0, <5>1 DEF TypeOK, AsType
      <4> QED BY <4>1, <4>3
    <3>3. CASE AsLoad(a) \/ AsStatus(a) \/ AsFatal(a) \/ AsExit(a) \/ AsKill(a) \/ AsProtocolError(a)
      <4>1. warn' = warn /\ fileMap'[a] \subseteq fileMap[a] /\ apc'[a] # "find"
        BY <1>0, <3>3 DEF AsLoad, AsStatus, AsFatal, AsExit, AsKill, AsProtocolError, TypeOK,
           AsType
      <4> QED BY <1>0, <4>1 DEF NoneWarned
    <3> QED BY <1>3, <3>1, <3>2, <3>3 DEF Main
  <2> QED BY <1>0, <2>1, <2>2, <2>3 DEF NoneWarned
<1>4. ASSUME NEW a \in Async, NEW w \in Worker, AsJob(a, w) PROVE NoneWarned'
  <2>1. PICK s \in fileMap[a] :
          /\ fileMap' = [fileMap EXCEPT ![a] = @ \ {s}]
          /\ job' = [job EXCEPT ![a][w] = [seg |-> s, todo |-> repoList[a], src |-> None,
                                           warn |-> s \in warn[a], step |-> "open"]]
    BY <1>4 DEF AsJob, Oldest
  <2>2. warn[a] = {}
    BY <1>0, <2>1 DEF NoneWarned
  <2>3. job'[a][w].step = "open" /\ ~job'[a][w].warn
    BY <1>0, <2>1, <2>2 DEF TypeOK
  <2>4. \A b \in Async, v \in Worker : b # a \/ v # w => job'[b][v] = job[b][v]
    BY <1>0, <2>1 DEF TypeOK
  <2>5. /\ warn' = warn /\ apc' = apc
        /\ \A b \in Async : fileMap'[b] \subseteq fileMap[b]
    BY <1>0, <1>4, <2>1, AsJobFrame DEF TypeOK, AsType
  <2>6. \A b \in Async : apc'[b] = "find" \/ fileMap'[b] # {} => warn'[b] = {}
    BY <1>0, <2>5 DEF NoneWarned
  <2> QED BY <1>0, <2>3, <2>4, <2>6 DEF NoneWarned
<1>5. ASSUME NEW a \in Async, NEW w \in Worker, Continues(a, w) PROVE NoneWarned'
  <2> DEFINE j == job[a][w]
             Fair(k) == /\ k.step \in {"write", "done"} => ~k.warn /\ k.src \in Repo
                        /\ k.step = "open" /\ k.todo # {} => ~k.warn
  <2>1. UNCHANGED << apc, fileMap, warn >>
    BY <1>5, ContinuesFrame DEF asVars
  <2>2. PICK k : job' = [job EXCEPT ![a][w] = k]
    BY <1>0, <1>5, ContinuesJob
  <2>3. \A b \in Async, v \in Worker : b # a \/ v # w => job'[b][v] = job[b][v]
    BY <1>0, <2>2 DEF TypeOK
  <2>4. /\ j \in [seg : Seg, todo : SUBSET Repo, src : Repo \cup {None}, warn : BOOLEAN,
                  step : {"open", "write", "done"}]
        /\ Fair(j)
    <3>1. j.step # "idle"
      BY <1>5 DEF Continues, AsOk, JobWrite, JobSkip, JobOpen
    <3> QED BY <1>0, <3>1, JobFields DEF NoneWarned
  <2>5. ~AsOk(a, w)
    BY <2>4 DEF AsOk
  <2>6. ASSUME NEW r \in Repo, JobSkip(a, w, r) PROVE Fair(job'[a][w])
    <3> DEFINE l == [j EXCEPT !.todo = @ \ {r}, !.warn = TRUE]
    <3>1. job' = [job EXCEPT ![a][w] = l]
      BY <2>6 DEF JobSkip
    <3>2. l.step = "open" /\ l.todo = j.todo \ {r}
      BY <2>4, <2>6 DEF JobSkip
    <3>3. j.todo \subseteq {r}
      BY <1>0, <2>4, <2>6 DEF JobSkip, EnvSteady, NoWarnings
    <3>4. job'[a][w] = l
      BY <1>0, <3>1 DEF TypeOK
    <3> QED BY <3>2, <3>3, <3>4
  <2>7. ASSUME NEW r \in Repo, JobOpen(a, w, r) PROVE Fair(job'[a][w])
    <3> DEFINE l == [j EXCEPT !.src = r, !.step = "write"]
    <3>1. job' = [job EXCEPT ![a][w] = l]
      BY <2>7 DEF JobOpen
    <3>2. l.step = "write" /\ l.src = r /\ l.warn = j.warn
      BY <2>4
    <3>3. ~j.warn
      BY <2>4, <2>7 DEF JobOpen
    <3>4. job'[a][w] = l
      BY <1>0, <3>1 DEF TypeOK
    <3> QED BY <3>2, <3>3, <3>4
  <2>8. ASSUME JobWrite(a, w), j.src \in up PROVE Fair(job'[a][w])
    <3> DEFINE l == [j EXCEPT !.step = "done"]
    <3>1. job' = [job EXCEPT ![a][w] = l]
      BY <2>8 DEF JobWrite
    <3>2. l.step = "done" /\ l.src = j.src /\ l.warn = j.warn
      BY <2>4
    <3>3. ~j.warn /\ j.src \in Repo
      BY <2>4, <2>8 DEF JobWrite
    <3>4. job'[a][w] = l
      BY <1>0, <3>1 DEF TypeOK
    <3> QED BY <3>2, <3>3, <3>4
  <2>9. ASSUME JobWrite(a, w), j.src \notin up PROVE Fair(job'[a][w])
    <3> DEFINE l == [j EXCEPT !.todo = @ \ {j.src}, !.warn = TRUE, !.step = "open"]
    <3>1. job' = [job EXCEPT ![a][w] = l]
      BY <2>9 DEF JobWrite
    <3>2. l.step = "open" /\ l.todo = j.todo \ {j.src}
      BY <2>4
    <3>3. j.src \in Repo
      BY <2>4, <2>9 DEF JobWrite
    <3>4. j.todo \subseteq {j.src}
      BY <1>0, <2>4, <2>9, <3>3 DEF EnvSteady, NoWarnings
    <3>5. job'[a][w] = l
      BY <1>0, <3>1 DEF TypeOK
    <3> QED BY <3>2, <3>4, <3>5
  <2>10. Fair(job'[a][w])
    <3> HIDE DEF Fair
    <3> QED BY <1>5, <2>5, <2>6, <2>7, <2>8, <2>9 DEF Continues
  <2> QED BY <1>0, <2>1, <2>3, <2>10 DEF NoneWarned
<1>6. ASSUME NEW a \in Async, NEW w \in Worker, Ends(a, w) PROVE NoneWarned'
  <2>1. UNCHANGED << apc, fileMap, warn >>
    BY <1>6, EndsFrame DEF asVars
  <2>2. job' = [job EXCEPT ![a][w] = Idle]
    BY <1>0, <1>6, EndsJob
  <2>3. /\ \A b \in Async, v \in Worker : b # a \/ v # w => job'[b][v] = job[b][v]
        /\ job'[a][w].step = "idle"
    BY <1>0, <2>2 DEF TypeOK, Idle
  <2> QED BY <1>0, <2>1, <2>3 DEF NoneWarned
<1>7. CASE Outside
  BY <1>0, <1>7, OutsideFrame DEF NoneWarned, asVars
<1> QED BY <1>1, <1>2, <1>3, <1>4, <1>5, <1>6, <1>7, StepKinds

LEMMA NoneArchived ==
    ASSUME TypeOK
    PROVE  None \notin archive
<1>1. archive \subseteq 1..NSeg
  BY DEF TypeOK, EnvType
<1>2. \A s \in 1..NSeg : s \in Nat
  BY ArchiveGetAssumption
<1>3. None \notin Nat
  BY ArchiveGetAssumption
<1> QED BY <1>1, <1>2, <1>3

LEMMA MissingNotedStep ==
    ASSUME SteadyArchive, MissingInv, [Next]_vars
    PROVE  MissingNoted'
<1>0. TypeOK /\ EnvSteady /\ NoneWarned /\ MissingNoted
  BY DEF MissingInv
<1>1. archive' = archive
  <2>1. EnvSteady'
    BY <1>0, EnvSteadyStep
  <2> QED BY <1>0, <2>1 DEF EnvSteady
<1>2. \A a \in Async : missing'[a] \notin archive
  <2>1. ASSUME NEW a \in Async, Main(a) PROVE \A b \in Async : missing'[b] \notin archive
    <3>1. \/ missing' = missing
          \/ missing' = [missing EXCEPT ![a] = None]
          \/ \E s : s \notin archive /\ missing' = [missing EXCEPT ![a] = s]
      <4>1. CASE AsFind(a)
        BY <4>1 DEF AsFind
      <4> QED BY <2>1, <4>1 DEF Main, AsLoad, AsCheck, AsStatus, AsFatal, AsExit, AsKill,
                 AsProtocolError
    <3>2. None \notin archive
      BY <1>0, NoneArchived
    <3> QED BY <1>0, <3>1, <3>2 DEF MissingNoted, TypeOK, AsType
  <2>2. CASE missing' = missing
    BY <1>0, <2>2 DEF MissingNoted
  <2> QED BY <2>1, <2>2, StepKinds, FgOtherFrame, FgNeedFrame, AsJobFrame, ContinuesFrame,
             EndsFrame, OutsideFrame DEF asVars
<1>3. okFile' \cap archive = {}
  <2>1. CASE okFile' \subseteq okFile
    BY <1>0, <2>1 DEF MissingNoted
  <2>2. ASSUME NEW a \in Async, AsStatus(a) PROVE okFile' \cap archive = {}
    <3>1. okFile' \subseteq okFile \cup {missing[a]}
      BY <2>2 DEF AsStatus
    <3> QED BY <1>0, <3>1 DEF MissingNoted
  <2>3. ASSUME NEW a \in Async, NEW w \in Worker PROVE ~AsOk(a, w)
    BY <1>0 DEF AsOk, NoneWarned
  <2>4. \/ okFile' \subseteq okFile
        \/ \E a \in Async : AsStatus(a) \/ \E w \in Worker : AsOk(a, w)
    <3>1. CASE FgOther
      BY <3>1 DEF FgOther, FgStart, FgSuccess, FgMissing, FgFound, FgStatusOk, FgStatusNone,
         FgStatusError, FgMove, FgLock, FgNoLock, FgAgain, FgTimeout, FgSync, FgKeep, spoolVars
    <3>2. CASE FgNeed
      BY <3>2 DEF FgNeed, QueueNeed
    <3>3. ASSUME NEW a \in Async, Main(a) PROVE okFile' = okFile \/ AsStatus(a)
      BY <3>3, SMTT(30) DEF Main, AsLoad, AsCheck, AsFind, AsFatal, AsExit, AsKill, AsProtocolError,
         spoolVars
    <3>4. ASSUME NEW a \in Async, NEW w \in Worker, Continues(a, w) \/ Ends(a, w)
          PROVE  okFile' = okFile \/ AsOk(a, w)
      BY <3>4 DEF Continues, Ends, JobWrite, JobSkip, JobOpen, AsError, AsRename, JobOrphan,
         JobKeep
    <3> QED BY <3>1, <3>2, <3>3, <3>4, StepKinds, AsJobFrame, OutsideFrame DEF spoolVars
  <2> QED BY <2>1, <2>2, <2>3, <2>4
<1>4. fpc' # "idle" => absent' = (fseg' \notin archive)
  <2>1. CASE UNCHANGED << fpc, fseg, absent >>
    BY <1>0, <2>1 DEF MissingNoted
  <2>2. CASE FgStart
    BY <2>2 DEF FgStart
  <2>3. CASE FgOther /\ ~FgStart
    <3>1. fseg' = fseg /\ absent' = absent /\ fpc # "idle"
      BY <2>3 DEF FgOther, FgSuccess, FgMissing, FgFound, FgStatusOk, FgStatusNone,
         FgStatusError, FgMove, FgLock, FgNoLock, FgAgain, FgTimeout, FgSync, FgKeep
    <3> QED BY <1>0, <3>1 DEF MissingNoted
  <2>4. CASE FgNeed
    BY <1>0, <2>4 DEF FgNeed, MissingNoted
  <2>5. CASE Outside
    <3>1. fpc' = fpc \/ fpc' = "idle"
      BY <2>5 DEF Outside, PgRestart, ArchiveNext, RepoDown, RepoUp, vars, fgVars
    <3> QED BY <1>0, <2>5, <3>1, OutsideFrame DEF MissingNoted
  <2> QED BY <2>1, <2>2, <2>3, <2>4, <2>5, StepKinds, MainFrame, AsJobFrame, ContinuesFrame,
             EndsFrame DEF fgVars
<1> QED BY <1>1, <1>2, <1>3, <1>4 DEF MissingNoted

LEMMA MissingInvInit ==
    ASSUME Init
    PROVE  MissingInv
<1>1. TypeOK
  BY InitType
<1>2. EnvSteady
  BY DEF Init, EnvSteady
<1>3. NoneWarned
  BY DEF Init, NoneWarned, Idle
<1>4. MissingNoted
  <2>1. None \notin archive
    BY <1>1, NoneArchived
  <2> QED BY <2>1 DEF Init, MissingNoted
<1> QED BY <1>1, <1>2, <1>3, <1>4 DEF MissingInv

\* A foreground reports a segment as missing because of an ok file without a
\* segment, or in synchronous mode after it has looked it up itself.
LEMMA ReportStep ==
    ASSUME MissingInv, [Next]_vars, fpc # "missing", fpc' = "missing"
    PROVE  absent
<1>0. TypeOK /\ MissingNoted
  BY DEF MissingInv
<1>1. FgStatusOk \/ FgSync
  <2>1. fpc' # fpc
    OBVIOUS
  <2>2. CASE FgOther
    BY <2>2 DEF FgOther, FgStart, FgSuccess, FgMissing, FgFound, FgStatusNone, FgStatusError,
       FgMove, FgLock, FgNoLock, FgAgain, FgTimeout
  <2>3. ~FgNeed
    BY DEF FgNeed
  <2>4. ~Outside
    BY <2>1 DEF Outside, PgRestart, ArchiveNext, RepoDown, RepoUp, vars, fgVars
  <2> QED BY <2>1, <2>2, <2>3, <2>4, StepKinds, MainFrame, AsJobFrame, ContinuesFrame, EndsFrame
          DEF fgVars
<1>2. fpc # "idle" /\ fseg \notin archive
  <2>1. CASE FgStatusOk
    BY <1>0, <2>1 DEF FgStatusOk, MissingNoted
  <2>2. CASE FgSync
    BY <2>2 DEF FgSync
  <2> QED BY <1>1, <2>1, <2>2
<1> QED BY <1>0, <1>2 DEF MissingNoted

\* An archived segment is never reported as missing, so recovery does not end
\* before it, whatever processes are killed or fail in between: no process
\* leaves an ok file for an archived segment that it could not get.
THEOREM MissingNotArchived ==
    ASSUME NoWarnings, SteadyArchive
    PROVE  Spec => MissingIsMissing
<1>1. MissingInv /\ [Next]_vars => MissingInv'
  BY TypeStep, EnvSteadyStep, NoneWarnedStep, MissingNotedStep DEF MissingInv
<1>2. MissingInv /\ [Next]_vars => (fpc # "missing" /\ fpc' = "missing" => absent)
  BY ReportStep
<1> QED BY <1>1, <1>2, MissingInvInit, PTL DEF Spec, MissingIsMissing
=============================================================================
