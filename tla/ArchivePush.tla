----------------------------- MODULE ArchivePush -----------------------------
(***************************************************************************)
(* archive-push (command/archive/push/push.c, push/file.c, common.c).      *)
(*                                                                         *)
(* PostgreSQL runs the foreground command for the oldest WAL segment that  *)
(* is ready.  In asynchronous mode the foreground waits for a status file  *)
(* in the spool directory and, once, under the archive lock, forks an      *)
(* async process that pushes every ready segment with local worker         *)
(* processes and writes the status files.  In synchronous mode it pushes   *)
(* the segment itself.  Foreground, async processes, workers, PostgreSQL   *)
(* and the administrator interleave; any process may be killed, and any    *)
(* repository may fail.                                                    *)
(***************************************************************************)
EXTENDS Naturals, FiniteSets

CONSTANTS
    NSeg,           \* WAL segments PostgreSQL generates are 1..NSeg
    Repo,           \* repositories
    Async,          \* supply of async processes
    Worker,         \* local processes of one command (process-max)
    ArchiveAsync,   \* values the archive-async option has, from command to command
    QueueMax,       \* archive-push-queue-max in segments, or NoMax
    MaxFault,       \* bound on kills, repository outages, I/O errors and stops
    NoMax, None, Fg, Global

ASSUME ArchivePushAssumption ==
    /\ NSeg \in Nat /\ MaxFault \in Nat
    /\ QueueMax \in Nat \cup {NoMax} /\ NoMax \notin Nat
    /\ ArchiveAsync \subseteq BOOLEAN
    /\ Repo # {} /\ Worker # {}
    /\ None \notin Async \cup {Fg} /\ Fg \notin Async
    /\ Global \notin Nat /\ None \notin Nat \cup {Global}

Seg == 1..NSeg
Owner == Async \cup {Fg}

VARIABLES
    ready, done,    \* segments with a .ready or .done file in archive_status
    store,          \* store[r]: segments in the archive of repository r
    dropped,        \* segments given up because the queue was too long
    okFile,         \* segments with an .ok file in the spool out directory
    errFile,        \* segments with an .error file there, and Global
    up,             \* repositories that can be reached and match the cluster
    stopped,        \* the stop file exists
    lock,           \* holder of the archive lock
    fpc, fseg,      \* the foreground command and its segment
    forked, throw,  \* its variables forked and throwOnError
    found,          \* the error file it has seen
    apc,            \* async processes
    okList,         \* okList of archivePushProcessList()
    walFileList,    \* the segments an async process has yet to hand out
    repoList,       \* archiveInfo.repoList
    job,            \* job[o][w]: what worker w of o is pushing
    fresh,          \* error files written since the foreground forked
    faults          \* faults so far

pgVars == << ready, done >>
spoolVars == << okFile, errFile, fresh >>
fgVars == << fpc, fseg, forked, throw, found >>
asVars == << apc, okList, walFileList, repoList >>
envVars == << up, stopped, faults >>
vars == << pgVars, store, dropped, spoolVars, lock, fgVars, asVars, job, envVars >>

Idle == [seg |-> None, todo |-> {}, error |-> FALSE, step |-> "idle"]

Oldest(S) == {s \in S : \A t \in S : s <= t}

\* archivePushDrop(): the list of files to process exceeds the queue limit.
QueueExceeded(list) == QueueMax # NoMax /\ Cardinality(list) > QueueMax

\* Faulty variant of NewJob: the errors of archivePushCheck() are lost.
NewJobNoError(s, repos) ==
    [seg |-> s, todo |-> repos, error |-> FALSE, step |-> "find"]

\* What archivePushFile() works on: repositories that passed
\* archivePushCheck(), and whether one of them did not.
NewJob(s, repos) ==
    [seg |-> s, todo |-> repos, error |-> repos # Repo, step |-> "find"]
-----------------------------------------------------------------------------
Init ==
    /\ ready = {} /\ done = {} /\ dropped = {}
    /\ store = [r \in Repo |-> {}]
    /\ okFile = {} /\ errFile = {} /\ fresh = {}
    /\ up = Repo /\ stopped = FALSE /\ faults = 0
    /\ lock = None
    /\ fpc = "idle" /\ fseg = None /\ forked = FALSE /\ throw = FALSE /\ found = None
    /\ apc = [a \in Async |-> "none"]
    /\ okList = [a \in Async |-> {}]
    /\ walFileList = [a \in Async |-> {}]
    /\ repoList = [a \in Async |-> {}]
    /\ job = [o \in Owner |-> [w \in Worker |-> Idle]]
-----------------------------------------------------------------------------
\* PostgreSQL finishes a WAL segment.
PgReady ==
    \E s \in Seg :
        /\ s = Cardinality(ready \cup done) + 1
        /\ ready' = ready \cup {s}
        /\ UNCHANGED << done, store, dropped, spoolVars, lock, fgVars, asVars, job, envVars >>

\* archive_command succeeded: PostgreSQL renames .ready to .done.
PgDone ==
    /\ fpc = "pushed"
    /\ ready' = ready \ {fseg}
    /\ done' = done \cup {fseg}
    /\ fpc' = "idle"
    /\ UNCHANGED << store, dropped, spoolVars, lock, fseg, forked, throw, found, asVars, job,
                    envVars >>

\* The end of the foreground command with an error, which PostgreSQL retries.
FgEnd ==
    /\ fpc' = "idle"
    /\ UNCHANGED << pgVars, store, dropped, spoolVars, fseg, forked, throw, found, asVars,
                    envVars >>

\* Faulty variant of FgStart: the segment is that of the last command.
FgStartStale ==
    /\ fpc = "idle" /\ ready # {} /\ ~stopped
    /\ forked' = FALSE /\ throw' = FALSE /\ found' = None
    /\ \E async \in ArchiveAsync : fpc' = IF async THEN "ok" ELSE "drop"
    /\ UNCHANGED << fseg, pgVars, store, dropped, spoolVars, lock, asVars, job, envVars >>

\* PostgreSQL runs archive_command for the oldest ready segment.  The stop
\* file makes it fail at once.
FgStart ==
    /\ fpc = "idle" /\ ready # {} /\ ~stopped
    /\ fseg' \in Oldest(ready)
    /\ forked' = FALSE /\ throw' = FALSE /\ found' = None
    /\ \E async \in ArchiveAsync : fpc' = IF async THEN "ok" ELSE "drop"
    /\ UNCHANGED << pgVars, store, dropped, spoolVars, lock, asVars, job, envVars >>

FgGoto(l) ==
    /\ fpc' = l
    /\ UNCHANGED << pgVars, store, dropped, spoolVars, lock, fseg, forked, throw, asVars, job,
                    envVars >>

\* archiveAsyncStatus(): an ok file means the segment has been pushed ...
FgStatusOk ==
    /\ fpc = "ok"
    /\ FgGoto(IF fseg \in okFile THEN "pushed" ELSE "error")
    /\ UNCHANGED found

\* ... without one, an error file of the segment or the global one is read ...
FgStatusError ==
    /\ fpc = "error"
    /\ found' = CASE fseg \in errFile -> fseg
                  [] fseg \notin errFile /\ Global \in errFile -> Global
                  [] OTHER -> None
    /\ FgGoto(IF found' = None THEN "lock" ELSE "read")

\* Faulty variant of FgStatusThrow: errors are thrown on the first try.
FgStatusThrowFirst ==
    /\ fpc = "read"
    /\ FgEnd /\ UNCHANGED << lock, job >>

\* ... and thrown, but not on the first try; the file may be gone by now.
FgStatusThrow ==
    /\ fpc = "read"
    /\ throw \/ found \notin errFile
    /\ FgEnd /\ UNCHANGED << lock, job >>

FgStatusIgnore ==
    /\ fpc = "read"
    /\ ~throw /\ found \in errFile
    /\ FgGoto("lock") /\ UNCHANGED found

\* Fork the async process once, if nobody else holds the archive lock ...
FgLock ==
    /\ fpc = "lock" /\ ~forked /\ lock = None
    /\ lock' = Fg
    /\ fpc' = "clear"
    /\ UNCHANGED << pgVars, store, dropped, spoolVars, fseg, forked, throw, found, asVars, job,
                    envVars >>

FgNoLock ==
    /\ fpc = "lock" /\ (forked \/ lock # None)
    /\ FgGoto("wait") /\ UNCHANGED found

\* Faulty variant of FgErrorClear: the global error stays.
FgErrorClearOwn ==
    /\ fpc = "clear"
    /\ errFile' = errFile \ {fseg}
    /\ fresh' = {}
    /\ lock' = None
    /\ fpc' = "exec"
    /\ UNCHANGED << pgVars, store, dropped, okFile, fseg, forked, throw, found, asVars, job,
                    envVars >>

\* ... clear the errors of the segment, release the lock for the child ...
FgErrorClear ==
    /\ fpc = "clear"
    /\ errFile' = errFile \ {fseg, Global}
    /\ fresh' = {}
    /\ lock' = None
    /\ fpc' = "exec"
    /\ UNCHANGED << pgVars, store, dropped, okFile, fseg, forked, throw, found, asVars, job,
                    envVars >>

\* ... and execute it.
FgExec ==
    /\ fpc = "exec"
    /\ \E a \in Async :
        /\ apc[a] = "none" /\ \A w \in Worker : job[a][w] = Idle
        /\ apc' = [apc EXCEPT ![a] = "load"]
    /\ forked' = TRUE
    /\ fpc' = "wait"
    /\ UNCHANGED << pgVars, store, dropped, spoolVars, lock, fseg, throw, found, okList,
                    walFileList, repoList, job, envVars >>

\* Errors are thrown from the second pass of the loop on ...
FgAgain ==
    /\ fpc = "wait"
    /\ throw' = TRUE
    /\ fpc' = "ok"
    /\ UNCHANGED << pgVars, store, dropped, spoolVars, lock, fseg, forked, found, asVars, job,
                    envVars >>

\* ... until archive-timeout has passed, however few passes that is.
FgTimeout ==
    /\ fpc = "wait"
    /\ FgEnd /\ UNCHANGED << lock, job >>

\* Synchronous mode: the queue limit applies to all ready segments ...
FgSyncDrop ==
    /\ fpc = "drop"
    /\ QueueExceeded(ready)
    /\ dropped' = dropped \cup {fseg}
    /\ fpc' = "pushed"
    /\ UNCHANGED << pgVars, store, spoolVars, lock, fseg, forked, throw, found, asVars, job,
                    envVars >>

\* ... then archivePushCheck(), which throws when no repository is valid ...
FgSyncCheck ==
    /\ fpc = "drop"
    /\ ~QueueExceeded(ready)
    /\ \/ /\ up = {}
          /\ FgEnd /\ UNCHANGED << lock, job >>
       \/ /\ up # {}
          /\ fpc' = "file"
          /\ \E w \in Worker : job' = [job EXCEPT ![Fg][w] = NewJob(fseg, up)]
          /\ UNCHANGED << pgVars, store, dropped, spoolVars, lock, fseg, forked, throw, found,
                          asVars, envVars >>

\* ... and archivePushFile() in the foreground process itself.
FgSyncEnd ==
    /\ fpc = "file"
    /\ \E w \in Worker :
        /\ job[Fg][w].step = "copy" /\ job[Fg][w].todo = {}
        /\ job' = [job EXCEPT ![Fg][w] = Idle]
        /\ fpc' = IF job[Fg][w].error THEN "idle" ELSE "pushed"
    /\ UNCHANGED << pgVars, store, dropped, spoolVars, lock, fseg, forked, throw, found, asVars,
                    envVars >>
-----------------------------------------------------------------------------
AsKeep == << pgVars, store, dropped, fgVars, envVars >>

\* The async process takes the lock when it loads its configuration, and
\* ends without a trace when it cannot.
AsLoad(a) ==
    /\ apc[a] = "load"
    /\ IF lock = None
       THEN lock' = a /\ apc' = [apc EXCEPT ![a] = "list"]
       ELSE UNCHANGED lock /\ apc' = [apc EXCEPT ![a] = "none"]
    /\ UNCHANGED << AsKeep, spoolVars, okList, walFileList, repoList, job >>

\* lockStopTest(), whose error is caught like any other
AsStopped(a) ==
    /\ apc[a] = "list" /\ stopped
    /\ apc' = [apc EXCEPT ![a] = "fatal"]
    /\ UNCHANGED << AsKeep, spoolVars, lock, okList, walFileList, repoList, job >>

\* archivePushProcessList(): list the status files and remove all but ok ...
AsListStatus(a) ==
    /\ apc[a] = "list" /\ ~stopped
    /\ okList' = [okList EXCEPT ![a] = okFile]
    /\ errFile' = {}
    /\ apc' = [apc EXCEPT ![a] = "ready"]
    /\ UNCHANGED << AsKeep, okFile, fresh, lock, walFileList, repoList, job >>

\* Faulty variant of AsListReady: every ok file of the list is removed.
AsListReadyAll(a) ==
    LET list == ready \ okList[a] IN
    /\ apc[a] = "ready"
    /\ okFile' = okFile \ okList[a]
    /\ walFileList' = [walFileList EXCEPT ![a] = list]
    /\ apc' = [apc EXCEPT ![a] = IF list = {} THEN "assert" ELSE "check"]
    /\ UNCHANGED << AsKeep, errFile, fresh, lock, okList, repoList, job >>

\* ... then read the ready list, remove the ok files PostgreSQL has
\* acknowledged, and keep what is ready and not ok.  There must be something.
AsListReady(a) ==
    LET list == ready \ okList[a] IN
    /\ apc[a] = "ready"
    /\ okFile' = okFile \ (okList[a] \ ready)
    /\ walFileList' = [walFileList EXCEPT ![a] = list]
    /\ apc' = [apc EXCEPT ![a] = CASE list = {} -> "assert"
                                   [] list # {} /\ QueueExceeded(list) -> "drop"
                                   [] OTHER -> "check"]
    /\ UNCHANGED << AsKeep, errFile, fresh, lock, okList, repoList, job >>

\* When the queue is exceeded every file of the list is dropped: an ok file
\* with a warning.
AsDrop(a) ==
    /\ apc[a] = "drop"
    /\ \E s \in Oldest(walFileList[a]) :
        /\ okFile' = okFile \cup {s}
        /\ dropped' = dropped \cup {s}
        /\ walFileList' = [walFileList EXCEPT ![a] = @ \ {s}]
    /\ UNCHANGED << pgVars, store, errFile, fresh, lock, fgVars, apc, okList, repoList, job,
                    envVars >>

\* archivePushCheck(): repositories that cannot be used go to the error list.
AsCheck(a) ==
    /\ apc[a] = "check"
    /\ repoList' = [repoList EXCEPT ![a] = up]
    /\ apc' = [apc EXCEPT ![a] = IF up = {} THEN "fatal" ELSE "push"]
    /\ UNCHANGED << AsKeep, spoolVars, lock, okList, walFileList, job >>

\* archivePushAsyncCallback(): the next file goes to a worker without a job.
AsJob(a, w) ==
    /\ apc[a] = "push"
    /\ job[a][w] = Idle
    /\ \E s \in Oldest(walFileList[a]) :
        /\ job' = [job EXCEPT ![a][w] = NewJob(s, repoList[a])]
        /\ walFileList' = [walFileList EXCEPT ![a] = @ \ {s}]
    /\ UNCHANGED << AsKeep, spoolVars, lock, apc, okList, repoList >>

\* The result of a job becomes a status file.
AsResult(a, w) ==
    LET j == job[a][w] IN
    /\ apc[a] = "push"
    /\ j.step = "copy" /\ j.todo = {}
    /\ IF j.error
       THEN errFile' = errFile \cup {j.seg} /\ fresh' = fresh \cup {j.seg} /\ UNCHANGED okFile
       ELSE okFile' = okFile \cup {j.seg} /\ UNCHANGED << errFile, fresh >>
    /\ job' = [job EXCEPT ![a][w] = Idle]
    /\ UNCHANGED << AsKeep, lock, apc, okList, walFileList, repoList >>

\* CATCH_FATAL: one error file for all files that have no status
AsFatal(a) ==
    /\ apc[a] \in {"fatal", "assert"}
    /\ errFile' = errFile \cup {Global}
    /\ fresh' = fresh \cup {Global}
    /\ walFileList' = [walFileList EXCEPT ![a] = {}]
    /\ apc' = [apc EXCEPT ![a] = "exit"]
    /\ UNCHANGED << AsKeep, okFile, lock, okList, repoList, job >>

\* The async process ends and releases the lock.
AsExit(a) ==
    /\ \/ apc[a] = "exit"
       \/ /\ apc[a] \in {"drop", "push"} /\ walFileList[a] = {}
          /\ \A w \in Worker : job[a][w] = Idle
    /\ apc' = [apc EXCEPT ![a] = "none"]
    /\ lock' = None
    /\ UNCHANGED << AsKeep, spoolVars, okList, walFileList, repoList, job >>
-----------------------------------------------------------------------------
JobKeep == << pgVars, dropped, spoolVars, lock, fgVars, asVars, envVars >>

\* Faulty variant of JobFind: a segment that is there is written in place.
JobFindOverwrite(o, w) ==
    LET j == job[o][w]
        copy == j.todo \cap up IN
    /\ j.step = "find"
    /\ job' = [job EXCEPT ![o][w] = [seg |-> j.seg, todo |-> copy, step |-> "copy",
                                    error |-> j.error \/ ~(j.todo \subseteq up)]]
    /\ store' = [r \in Repo |-> IF r \in copy THEN store[r] \ {j.seg} ELSE store[r]]
    /\ UNCHANGED JobKeep

\* archivePushFile() looks for the segment in every repository: one that
\* cannot be listed is an error, one that has it needs no copy.
JobFind(o, w) ==
    LET j == job[o][w]
        copy == {r \in j.todo : r \in up /\ j.seg \notin store[r]} IN
    /\ j.step = "find"
    /\ job' = [job EXCEPT ![o][w] = [seg |-> j.seg, todo |-> copy, step |-> "copy",
                                    error |-> j.error \/ ~(j.todo \subseteq up)]]
    /\ UNCHANGED << JobKeep, store >>

\* A copy is complete when its file is closed (written to a temporary name and
\* renamed); an I/O error loses the copy of one repository only.
JobClose(o, w, r) ==
    LET j == job[o][w] IN
    /\ j.step = "copy" /\ r \in j.todo
    /\ store' = IF r \in up THEN [store EXCEPT ![r] = @ \cup {j.seg}] ELSE store
    /\ job' = [job EXCEPT ![o][w] = [j EXCEPT !.todo = @ \ {r}, !.error = @ \/ r \notin up]]
    /\ UNCHANGED JobKeep

\* A worker whose async process is gone finishes its job for nobody.
JobOrphan(a, w) ==
    /\ apc[a] # "push"
    /\ job[a][w].step = "copy" /\ job[a][w].todo = {}
    /\ job' = [job EXCEPT ![a][w] = Idle]
    /\ UNCHANGED << JobKeep, store >>
-----------------------------------------------------------------------------
Fault == faults < MaxFault /\ faults' = faults + 1

\* The foreground is killed, with PostgreSQL or alone; a segment that was
\* pushed but not renamed to .done stays ready.
FgKill ==
    /\ Fault
    /\ fpc # "idle"
    /\ fpc' = "idle"
    /\ lock' = IF lock = Fg THEN None ELSE lock
    /\ job' = [job EXCEPT ![Fg] = [w \in Worker |-> Idle]]
    /\ UNCHANGED << pgVars, store, dropped, spoolVars, fseg, forked, throw, found, asVars, up,
                    stopped >>

\* An async process is killed; its workers notice when they are done.
AsKill(a) ==
    /\ Fault
    /\ apc[a] # "none"
    /\ apc' = [apc EXCEPT ![a] = "none"]
    /\ walFileList' = [walFileList EXCEPT ![a] = {}]
    /\ lock' = IF lock = a THEN None ELSE lock
    /\ UNCHANGED << pgVars, store, dropped, spoolVars, fgVars, okList, repoList, job, up,
                    stopped >>

\* A worker or its protocol fails: the async process fails as a whole.
AsProtocolError(a) ==
    /\ Fault
    /\ apc[a] = "push"
    /\ apc' = [apc EXCEPT ![a] = "fatal"]
    /\ UNCHANGED << pgVars, store, dropped, spoolVars, lock, fgVars, okList, walFileList,
                    repoList, job, up, stopped >>

RepoDown(r) ==
    /\ Fault
    /\ r \in up /\ up' = up \ {r}
    /\ UNCHANGED << pgVars, store, dropped, spoolVars, lock, fgVars, asVars, job, stopped >>

RepoUp(r) ==
    /\ r \notin up /\ up' = up \cup {r}
    /\ UNCHANGED << pgVars, store, dropped, spoolVars, lock, fgVars, asVars, job, stopped,
                    faults >>

\* The stop and start commands.
CmdStop ==
    /\ Fault
    /\ ~stopped /\ stopped' = TRUE
    /\ UNCHANGED << pgVars, store, dropped, spoolVars, lock, fgVars, asVars, job, up >>

CmdStart ==
    /\ stopped /\ stopped' = FALSE
    /\ UNCHANGED << pgVars, store, dropped, spoolVars, lock, fgVars, asVars, job, up, faults >>
-----------------------------------------------------------------------------
Foreground ==
    \/ FgStart \/ FgStatusOk \/ FgStatusError \/ FgStatusThrow \/ FgStatusIgnore
    \/ FgLock \/ FgNoLock \/ FgErrorClear \/ FgExec \/ FgAgain \/ FgTimeout
    \/ FgSyncDrop \/ FgSyncCheck \/ FgSyncEnd

AsyncProcess(a) ==
    \/ AsLoad(a) \/ AsStopped(a) \/ AsListStatus(a) \/ AsListReady(a) \/ AsDrop(a)
    \/ AsCheck(a) \/ AsFatal(a) \/ AsExit(a)
    \/ \E w \in Worker : AsJob(a, w) \/ AsResult(a, w) \/ JobOrphan(a, w)

Job(o) ==
    \E w \in Worker : JobFind(o, w) \/ \E r \in Repo : JobClose(o, w, r)

Environment ==
    \/ FgKill \/ CmdStop \/ \E r \in Repo : RepoDown(r)
    \/ \E a \in Async : AsKill(a) \/ AsProtocolError(a)

Next ==
    \/ PgReady \/ PgDone \/ Foreground
    \/ \E a \in Async : AsyncProcess(a)
    \/ \E o \in Owner : Job(o)
    \/ Environment \/ CmdStart \/ \E r \in Repo : RepoUp(r)

Spec == Init /\ [][Next]_vars

\* The operating system runs every process, PostgreSQL retries, an
\* administrator restores repositories and removes the stop file.  A
\* foreground waits until its timeout and no longer, which may be after its
\* first pass; but not every child loads just while the next foreground has
\* the lock.
Fairness ==
    /\ SF_vars(FgTimeout)
    /\ SF_vars(\E a \in Async : AsLoad(a) /\ lock = None)
    /\ WF_vars(PgDone) /\ WF_vars(Foreground)
    /\ \A a \in Async : WF_vars(AsyncProcess(a))
    /\ \A o \in Owner : WF_vars(Job(o))
    /\ WF_vars(CmdStart) /\ \A r \in Repo : WF_vars(RepoUp(r))

FairSpec == Spec /\ Fairness
-----------------------------------------------------------------------------
JobType ==
    {Idle} \cup [seg : Seg, todo : SUBSET Repo, error : BOOLEAN, step : {"find", "copy"}]

PgType ==
    /\ ready \subseteq Seg /\ done \subseteq Seg /\ dropped \subseteq Seg
    /\ store \in [Repo -> SUBSET Seg]

SpoolType ==
    /\ okFile \subseteq Seg
    /\ errFile \subseteq Seg \cup {Global} /\ fresh \subseteq Seg \cup {Global}

FgType ==
    /\ fpc \in {"idle", "ok", "error", "read", "lock", "clear", "exec", "wait", "pushed",
                "drop", "file"}
    /\ fseg \in Seg \cup {None} /\ (fpc # "idle" => fseg \in Seg)
    /\ forked \in BOOLEAN /\ throw \in BOOLEAN
    /\ found \in Seg \cup {Global, None}

AsType ==
    /\ apc \in [Async -> {"none", "load", "list", "ready", "drop", "check", "push", "fatal",
                          "assert", "exit"}]
    /\ okList \in [Async -> SUBSET Seg]
    /\ walFileList \in [Async -> SUBSET Seg]
    /\ repoList \in [Async -> SUBSET Repo]

EnvType ==
    /\ up \subseteq Repo /\ stopped \in BOOLEAN /\ faults \in 0..MaxFault
    /\ lock \in Owner \cup {None}

\* The types of the variables.
TypeOK ==
    /\ PgType /\ SpoolType /\ FgType /\ AsType /\ EnvType
    /\ job \in [Owner -> [Worker -> JobType]]

Archived(s) == \A r \in Repo : s \in store[r]

\* What PostgreSQL may recycle is in the archive of every repository, unless
\* it was dropped because the queue limit was exceeded.
AckedIsArchived == \A s \in done : Archived(s) \/ s \in dropped

\* archive-push implements the promise of WalArchive.
Promise == INSTANCE WalArchive WITH acked <- done, stored <- store, given <- dropped
ImplementsPromise == Promise!Spec

\* An ok file is removed only after PostgreSQL has acknowledged the segment.
OkKeptUntilAcked == [][\A s \in okFile \ okFile' : s \in done]_vars

\* A foreground that has forked an async process throws only errors written
\* since then (archiveAsyncErrorClear).
ErrorIsFresh ==
    [][fpc = "read" /\ fpc' = "idle" /\ forked /\ found \in errFile /\ faults' = faults
        => found \in fresh]_vars

\* Every ready segment is eventually acknowledged, however PostgreSQL,
\* timeouts, kills and outages interleave, once there are no more of those.
EveryReadyIsAcked == \A s \in Seg : s \in ready ~> s \in done
=============================================================================
