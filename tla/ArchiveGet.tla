------------------------------ MODULE ArchiveGet ------------------------------
(***************************************************************************)
(* archive-get (command/archive/get/get.c, get/file.c, archive/common.c).  *)
(*                                                                         *)
(* PostgreSQL in recovery runs the foreground command for one WAL segment  *)
(* after the other.  In asynchronous mode the foreground takes the segment *)
(* from a queue in the spool directory, cleans the queue under the archive *)
(* lock and forks an async process that fills it ahead of PostgreSQL with  *)
(* local worker processes.  An ok file next to a queued segment carries    *)
(* warnings; an ok file alone says that the segment is missing.            *)
(*                                                                         *)
(* All repositories have the same segments, as archive-push leaves them;   *)
(* repositories fail and recover, the archive grows, processes are killed. *)
(***************************************************************************)
EXTENDS Naturals, FiniteSets

CONSTANTS
    NSeg,           \* segments that PostgreSQL may ask for are 1..NSeg
    QueueTotal,     \* archive-get-queue-max in segments, at least 2
    Repo,           \* repositories
    Async,          \* supply of async processes
    Worker,         \* local processes of one command (process-max)
    ArchiveAsync,   \* values the archive-async option has, from command to command
    MissingRetry,   \* the archive-missing-retry option
    FirstArchived,  \* number of segments in the archive at the beginning
    MaxArchived,    \* ... and at the end
    MaxDown,        \* bound on repository outages
    MaxKill,        \* bound on kills, protocol errors and restarts of PostgreSQL
    NoFile, None, Fg, Global

ASSUME ArchiveGetAssumption ==
    /\ NSeg \in Nat \ {0} /\ QueueTotal \in Nat /\ QueueTotal >= 2
    /\ FirstArchived \in 0..NSeg /\ MaxArchived \in 0..NSeg
    /\ MaxDown \in Nat /\ MaxKill \in Nat
    /\ ArchiveAsync \subseteq BOOLEAN /\ MissingRetry \in BOOLEAN
    /\ Repo # {} /\ Worker # {}
    /\ None \notin Async \cup {Fg} /\ Fg \notin Async
    /\ Global \notin Nat /\ None \notin Nat \cup {Global}
    /\ \A S \in SUBSET (Async \X Worker) : S # NoFile

\* walSegmentRange() goes beyond the segments that exist.
Seg == 1..(NSeg + QueueTotal)
Writer == Async \X Worker

VARIABLES
    archive,        \* segments in the repositories
    up,             \* repositories that can be read
    queue,          \* queue[s]: the segment in the spool in directory
    tmp,            \* tmp[s]: the file a worker writes the segment to
    okFile,         \* segments with an .ok file there
    errFile,        \* segments with an .error file there, and Global
    want,           \* the segment PostgreSQL needs next
    lock,           \* holder of the archive lock
    fpc, fseg,      \* the foreground command and its segment
    first, found,   \* its variables of the same names
    forked, full,   \* forked and queueFull
    absent,         \* the segment was not archived when the command began
    apc,            \* async processes
    need,           \* parameters of an async process not yet looked up
    repoList,       \* its cacheRepoList
    warn,           \* segments it has warnings for
    fileMap,        \* archiveFileMapList, not yet handed out
    missing, error, \* its first missing segment, and the error of archiveGetCheck()
    job,            \* job[a][w]: what worker w of a is getting
    fresh,          \* error files written since the foreground forked
    downs, kills    \* outages and kills so far

\* A file is NoFile or the set of writers that have truncated it and not yet
\* written all of it.
File == {NoFile} \cup SUBSET Writer
Whole(f) == f = {}

spoolVars == << queue, tmp, okFile, errFile, fresh >>
fgVars == << fpc, fseg, first, found, forked, full, absent >>
asVars == << apc, need, repoList, warn, fileMap, missing, error >>
envVars == << archive, up, downs, kills >>
vars == << spoolVars, want, lock, fgVars, asVars, job, envVars >>

Idle == [seg |-> None, todo |-> {}, src |-> None, warn |-> FALSE, step |-> "idle"]

Oldest(S) == {s \in S : \A t \in S : s <= t}

Queued == {s \in Seg : queue[s] # NoFile}
-----------------------------------------------------------------------------
Init ==
    /\ archive = 1..FirstArchived /\ up = Repo
    /\ queue = [s \in Seg |-> NoFile] /\ tmp = [s \in Seg |-> NoFile]
    /\ okFile = {} /\ errFile = {} /\ fresh = {}
    /\ want = 1 /\ lock = None
    /\ fpc = "idle" /\ fseg = None /\ first = TRUE /\ found = FALSE
    /\ forked = FALSE /\ full = FALSE /\ absent = FALSE
    /\ apc = [a \in Async |-> "none"]
    /\ need = [a \in Async |-> {}] /\ repoList = [a \in Async |-> {}]
    /\ warn = [a \in Async |-> {}] /\ fileMap = [a \in Async |-> {}]
    /\ missing = [a \in Async |-> None] /\ error = [a \in Async |-> None]
    /\ job = [a \in Async |-> [w \in Worker |-> Idle]]
    /\ downs = 0 /\ kills = 0
-----------------------------------------------------------------------------
\* PostgreSQL runs restore_command for the segment it needs.
FgStart ==
    /\ fpc = "idle" /\ want <= NSeg
    /\ fseg' = want
    /\ first' = TRUE /\ found' = FALSE /\ forked' = FALSE /\ full' = FALSE
    /\ absent' = (want \notin archive)
    /\ \E async \in ArchiveAsync : fpc' = IF async THEN "found" ELSE "sync"
    /\ UNCHANGED << spoolVars, want, lock, asVars, job, envVars >>

\* Exit code 0: PostgreSQL replays the segment and asks for the next one.
FgSuccess ==
    /\ fpc = "success"
    /\ want' = fseg + 1
    /\ fpc' = "idle"
    /\ UNCHANGED << spoolVars, lock, fseg, first, found, forked, full, absent, asVars, job,
                    envVars >>

\* Exit code 1: the segment is reported as missing.
FgMissing ==
    /\ fpc = "missing"
    /\ fpc' = "idle"
    /\ UNCHANGED << spoolVars, want, lock, fseg, first, found, forked, full, absent, asVars,
                    job, envVars >>

FgKeep == << want, fseg, forked, absent, asVars, job, envVars >>

\* Is the segment in the queue?
FgFound ==
    /\ fpc = "found"
    /\ found' = (fseg \in Queued)
    /\ fpc' = "status"
    /\ UNCHANGED << FgKeep, spoolVars, lock, first, full >>

\* An ok file is removed.  Alone it means the segment is missing, unless an
\* earlier async process may have written it.
FgStatusOk ==
    /\ fpc = "status"
    /\ fseg \in okFile
    /\ okFile' = okFile \ {fseg}
    /\ fpc' = CASE found -> "move"
                [] ~found /\ ~(first /\ MissingRetry) -> "missing"
                [] OTHER -> "lock"
    /\ UNCHANGED << FgKeep, queue, tmp, errFile, fresh, lock, first, found, full >>

FgStatusNone ==
    /\ fpc = "status"
    /\ fseg \notin okFile
    /\ fpc' = "error"
    /\ UNCHANGED << FgKeep, spoolVars, lock, first, found, full >>

\* Faulty variant of FgStatusError: errors are thrown at once.
FgStatusErrorFirst ==
    /\ fpc = "error"
    /\ fpc' = CASE {fseg, Global} \cap errFile # {} -> "idle"
                [] found /\ {fseg, Global} \cap errFile = {} -> "move"
                [] OTHER -> "lock"
    /\ UNCHANGED << FgKeep, spoolVars, lock, first, found, full >>

\* Errors are thrown from the second pass of the loop on.
FgStatusError ==
    /\ fpc = "error"
    /\ fpc' = CASE {fseg, Global} \cap errFile # {} /\ ~first -> "idle"
                [] found /\ ({fseg, Global} \cap errFile = {} \/ first) -> "move"
                [] OTHER -> "lock"
    /\ UNCHANGED << FgKeep, spoolVars, lock, first, found, full >>

\* Move the segment to the destination and look how full the queue is.
FgMove ==
    /\ fpc = "move"
    /\ queue' = [queue EXCEPT ![fseg] = NoFile]
    /\ full' = (2 * Cardinality(Queued \ {fseg}) > QueueTotal)
    /\ fpc' = "lock"
    /\ UNCHANGED << FgKeep, tmp, okFile, errFile, fresh, lock, first, found >>

\* Fork the async process once, unless it is not needed or is running ...
FgLock ==
    /\ fpc = "lock"
    /\ ~forked /\ (~found \/ ~full) /\ lock = None
    /\ lock' = Fg
    /\ fpc' = "need"
    /\ UNCHANGED << FgKeep, spoolVars, first, found, full >>

FgNoLock ==
    /\ fpc = "lock"
    /\ forked \/ (found /\ full) \/ lock # None
    /\ fpc' = "again"
    /\ UNCHANGED << FgKeep, spoolVars, lock, first, found, full >>

\* ... clean the queue (queueNeed) down to the segments that come next: all
\* other files go, except an ok file whose segment was listed ...
Ideal ==
    LET s == IF found THEN fseg + 1 ELSE fseg IN {t \in Seg : s <= t /\ t < s + QueueTotal}

\* Faulty variant of QueueNeed: error files stay.
QueueNeedErrors ==
    /\ queue' = [s \in Seg |-> IF s \in Ideal THEN queue[s] ELSE NoFile]
    /\ tmp' = [s \in Seg |-> NoFile]
    /\ okFile' = okFile \cap Queued
    /\ errFile' = errFile

QueueNeed ==
    /\ queue' = [s \in Seg |-> IF s \in Ideal THEN queue[s] ELSE NoFile]
    /\ tmp' = [s \in Seg |-> NoFile]
    /\ okFile' = okFile \cap Queued
    /\ errFile' = {}

\* ... release the lock for the child, and execute it for what is needed.
FgNeed ==
    /\ fpc = "need"
    /\ QueueNeed
    /\ fresh' = {}
    /\ lock' = None
    /\ \E a \in Async :
        /\ apc[a] = "none" /\ \A w \in Worker : job[a][w] = Idle
        /\ apc' = [apc EXCEPT ![a] = "load"]
        /\ need' = [need EXCEPT ![a] = Ideal \ Queued]
    /\ forked' = TRUE
    /\ fpc' = "again"
    /\ UNCHANGED << want, fseg, first, found, full, absent, repoList, warn, fileMap, missing,
                    error, job, envVars >>

\* The loop ends with success when the segment was found, and begins again
\* while archive-timeout has not passed.
FgAgain ==
    /\ fpc = "again"
    /\ fpc' = IF found THEN "success" ELSE "found"
    /\ first' = FALSE
    /\ UNCHANGED << FgKeep, spoolVars, lock, found, full >>

FgTimeout ==
    /\ fpc = "again" /\ ~found
    /\ fpc' = "idle"
    /\ UNCHANGED << FgKeep, spoolVars, lock, first, found, full >>

\* Synchronous mode: archiveGetCheck() and archiveGetFile() in the foreground
\* itself; one repository that works is enough.
FgSync ==
    /\ fpc = "sync"
    /\ fpc' = CASE up = {} -> "idle"
                [] up # {} /\ fseg \in archive -> "success"
                [] OTHER -> "missing"
    /\ UNCHANGED << FgKeep, spoolVars, lock, first, found, full >>
-----------------------------------------------------------------------------
AsKeep == << want, fgVars, envVars >>

\* The async process takes the lock when it loads its configuration, and
\* ends without a trace when it cannot; it refuses an empty list.
AsLoad(a) ==
    /\ apc[a] = "load"
    /\ IF lock = None
       THEN /\ lock' = a
            /\ apc' = [apc EXCEPT ![a] = IF need[a] = {} THEN "fatal" ELSE "check"]
       ELSE UNCHANGED lock /\ apc' = [apc EXCEPT ![a] = "none"]
    /\ UNCHANGED << AsKeep, spoolVars, need, repoList, warn, fileMap, missing, error, job >>

\* archiveGetCheck() keeps the repositories it can use ...
AsCheck(a) ==
    /\ apc[a] = "check"
    /\ repoList' = [repoList EXCEPT ![a] = up]
    /\ warn' = [warn EXCEPT ![a] = IF up = Repo THEN {} ELSE need[a]]
    /\ fileMap' = [fileMap EXCEPT ![a] = {}]
    /\ missing' = [missing EXCEPT ![a] = None]
    /\ error' = [error EXCEPT ![a] = IF up = {} THEN Global ELSE None]
    /\ apc' = [apc EXCEPT ![a] = IF up = {} THEN "get" ELSE "find"]
    /\ UNCHANGED << AsKeep, spoolVars, need, lock, job >>

\* Faulty variant of AsFind: a segment that cannot be looked up is missing.
AsFindAny(a) ==
    /\ apc[a] = "find"
    /\ \E s \in Oldest(need[a]) :
        /\ need' = [need EXCEPT ![a] = @ \ {s}]
        /\ IF s \in archive /\ repoList[a] \cap up # {}
           THEN /\ fileMap' = [fileMap EXCEPT ![a] = @ \cup {s}]
                /\ apc' = [apc EXCEPT ![a] = IF need[a] = {s} THEN "get" ELSE "find"]
                /\ UNCHANGED missing
           ELSE /\ missing' = [missing EXCEPT ![a] = s]
                /\ apc' = [apc EXCEPT ![a] = "get"]
                /\ UNCHANGED fileMap
    /\ UNCHANGED << AsKeep, spoolVars, lock, repoList, warn, error, job >>

\* ... and archiveGetFind() looks up one segment after the other until one
\* cannot be looked up in any repository or is missing.
AsFind(a) ==
    /\ apc[a] = "find"
    /\ \E s \in Oldest(need[a]) :
        /\ need' = [need EXCEPT ![a] = @ \ {s}]
        /\ CASE repoList[a] \cap up = {} ->
                  /\ error' = [error EXCEPT ![a] = s]
                  /\ apc' = [apc EXCEPT ![a] = "get"]
                  /\ UNCHANGED << warn, fileMap, missing >>
             [] repoList[a] \cap up # {} /\ s \notin archive ->
                  /\ missing' = [missing EXCEPT ![a] = s]
                  /\ apc' = [apc EXCEPT ![a] = "get"]
                  /\ UNCHANGED << warn, fileMap, error >>
             [] OTHER ->
                  /\ fileMap' = [fileMap EXCEPT ![a] = @ \cup {s}]
                  /\ warn' = [warn EXCEPT ![a] =
                                IF repoList[a] \subseteq up THEN @ ELSE @ \cup {s}]
                  /\ apc' = [apc EXCEPT ![a] = IF need[a] = {s} THEN "get" ELSE "find"]
                  /\ UNCHANGED << missing, error >>
    /\ UNCHANGED << AsKeep, spoolVars, lock, repoList, job >>

\* archiveGetAsyncCallback(): the next segment goes to a worker without a job.
AsJob(a, w) ==
    /\ apc[a] = "get"
    /\ job[a][w] = Idle
    /\ \E s \in Oldest(fileMap[a]) :
        /\ job' = [job EXCEPT ![a][w] = [seg |-> s, todo |-> repoList[a], src |-> None,
                                         warn |-> s \in warn[a], step |-> "open"]]
        /\ fileMap' = [fileMap EXCEPT ![a] = @ \ {s}]
    /\ UNCHANGED << AsKeep, spoolVars, lock, apc, need, repoList, warn, missing, error >>

\* A job without a repository left becomes an error file; ...
AsError(a, w) ==
    LET j == job[a][w] IN
    /\ apc[a] = "get"
    /\ j.step = "open" /\ j.todo = {}
    /\ errFile' = errFile \cup {j.seg}
    /\ fresh' = fresh \cup {j.seg}
    /\ job' = [job EXCEPT ![a][w] = Idle]
    /\ UNCHANGED << AsKeep, queue, tmp, okFile, lock, asVars >>

\* ... warnings are written to an ok file ...
AsOk(a, w) ==
    LET j == job[a][w] IN
    /\ apc[a] = "get"
    /\ j.step = "done" /\ j.warn
    /\ okFile' = okFile \cup {j.seg}
    /\ job' = [job EXCEPT ![a][w] = [j EXCEPT !.warn = FALSE]]
    /\ UNCHANGED << AsKeep, queue, tmp, errFile, fresh, lock, asVars >>

\* Faulty variant of AsRename: the segment is queued while it is written.
AsRenameEarly(a, w) ==
    LET j == job[a][w] IN
    /\ apc[a] = "get"
    /\ j.step \in {"write", "done"} /\ ~j.warn
    /\ queue' = [queue EXCEPT ![j.seg] = tmp[j.seg]]
    /\ tmp' = [tmp EXCEPT ![j.seg] = NoFile]
    /\ job' = [job EXCEPT ![a][w] = Idle]
    /\ UNCHANGED << AsKeep, okFile, errFile, fresh, lock, asVars >>

\* ... before the segment is renamed into the queue.
AsRename(a, w) ==
    LET j == job[a][w] IN
    /\ apc[a] = "get"
    /\ j.step = "done" /\ ~j.warn
    /\ queue' = [queue EXCEPT ![j.seg] = tmp[j.seg]]
    /\ tmp' = [tmp EXCEPT ![j.seg] = NoFile]
    /\ job' = [job EXCEPT ![a][w] = Idle]
    /\ UNCHANGED << AsKeep, okFile, errFile, fresh, lock, asVars >>

\* Faulty variant of AsStatus: an ok file although nothing is missing.
AsStatusAlways(a) ==
    /\ apc[a] = "get"
    /\ fileMap[a] = {} /\ \A w \in Worker : job[a][w] = Idle
    /\ IF error[a] # None
       THEN errFile' = errFile \cup {error[a]} /\ fresh' = fresh \cup {error[a]}
            /\ UNCHANGED okFile
       ELSE okFile' = okFile \cup {missing[a]} /\ UNCHANGED << errFile, fresh >>
    /\ apc' = [apc EXCEPT ![a] = "exit"]
    /\ UNCHANGED << AsKeep, queue, tmp, lock, need, repoList, warn, fileMap, missing, error,
                    job >>

\* In the end an error of archiveGetCheck() becomes an error file, or the
\* first missing segment an ok file.
AsStatus(a) ==
    /\ apc[a] = "get"
    /\ fileMap[a] = {} /\ \A w \in Worker : job[a][w] = Idle
    /\ IF error[a] # None
       THEN errFile' = errFile \cup {error[a]} /\ fresh' = fresh \cup {error[a]}
            /\ UNCHANGED okFile
       ELSE okFile' = okFile \cup ({missing[a]} \ {None}) /\ UNCHANGED << errFile, fresh >>
    /\ apc' = [apc EXCEPT ![a] = "exit"]
    /\ UNCHANGED << AsKeep, queue, tmp, lock, need, repoList, warn, fileMap, missing, error,
                    job >>

\* CATCH_ANY: one error file for all segments that have no status
AsFatal(a) ==
    /\ apc[a] = "fatal"
    /\ errFile' = errFile \cup {Global}
    /\ fresh' = fresh \cup {Global}
    /\ apc' = [apc EXCEPT ![a] = "exit"]
    /\ UNCHANGED << AsKeep, queue, tmp, okFile, lock, need, repoList, warn, fileMap, missing,
                    error, job >>

\* The async process ends and releases the lock.
AsExit(a) ==
    /\ apc[a] = "exit"
    /\ apc' = [apc EXCEPT ![a] = "none"]
    /\ lock' = None
    /\ UNCHANGED << AsKeep, spoolVars, need, repoList, warn, fileMap, missing, error, job >>
-----------------------------------------------------------------------------
JobKeep == << want, okFile, errFile, fresh, lock, fgVars, asVars, envVars >>

\* archiveGetFile() tries one repository after the other ...
JobSkip(a, w, r) ==
    LET j == job[a][w] IN
    /\ j.step = "open" /\ r \in j.todo /\ r \notin up
    /\ job' = [job EXCEPT ![a][w] = [j EXCEPT !.todo = @ \ {r}, !.warn = TRUE]]
    /\ UNCHANGED << JobKeep, queue, tmp >>

\* ... truncates the temporary file once the source is open ...
JobOpen(a, w, r) ==
    LET j == job[a][w] IN
    /\ j.step = "open" /\ r \in j.todo /\ r \in up
    /\ tmp' = [tmp EXCEPT ![j.seg] = {<< a, w >>}]
    /\ job' = [job EXCEPT ![a][w] = [j EXCEPT !.src = r, !.step = "write"]]
    /\ UNCHANGED << JobKeep, queue >>

\* ... and writes it, whatever its name is by now, or fails half-way.
JobWrite(a, w) ==
    LET j == job[a][w]
        written(f) == [f EXCEPT ![j.seg] = IF @ = NoFile THEN NoFile ELSE @ \ {<< a, w >>}] IN
    /\ j.step = "write"
    /\ IF j.src \in up
       THEN /\ tmp' = written(tmp) /\ queue' = written(queue)
            /\ job' = [job EXCEPT ![a][w] = [j EXCEPT !.step = "done"]]
       ELSE /\ job' = [job EXCEPT ![a][w] = [j EXCEPT !.todo = @ \ {j.src}, !.warn = TRUE,
                                                      !.step = "open"]]
            /\ UNCHANGED << queue, tmp >>
    /\ UNCHANGED JobKeep

\* A worker whose async process is gone finishes its job for nobody.
JobOrphan(a, w) ==
    LET j == job[a][w] IN
    /\ apc[a] # "get"
    /\ j.step = "done" \/ (j.step = "open" /\ j.todo = {})
    /\ job' = [job EXCEPT ![a][w] = Idle]
    /\ UNCHANGED << JobKeep, queue, tmp >>
-----------------------------------------------------------------------------
Kill == kills < MaxKill /\ kills' = kills + 1

\* PostgreSQL is restarted, with the foreground, and begins recovery again.
PgRestart ==
    /\ Kill
    /\ \E s \in 1..want : want' = s
    /\ fpc' = "idle"
    /\ lock' = IF lock = Fg THEN None ELSE lock
    /\ UNCHANGED << spoolVars, fseg, first, found, forked, full, absent, asVars, job, archive,
                    up, downs >>

\* An async process is killed; its workers notice when they are done.
AsKill(a) ==
    /\ Kill
    /\ apc[a] # "none"
    /\ apc' = [apc EXCEPT ![a] = "none"]
    /\ fileMap' = [fileMap EXCEPT ![a] = {}]
    /\ lock' = IF lock = a THEN None ELSE lock
    /\ UNCHANGED << spoolVars, want, fgVars, need, repoList, warn, missing, error, job,
                    archive, up, downs >>

\* A worker or its protocol fails: the async process fails as a whole.
AsProtocolError(a) ==
    /\ Kill
    /\ apc[a] = "get"
    /\ apc' = [apc EXCEPT ![a] = "fatal"]
    /\ UNCHANGED << spoolVars, want, lock, fgVars, need, repoList, warn, fileMap, missing,
                    error, job, archive, up, downs >>

RepoDown(r) ==
    /\ downs < MaxDown /\ downs' = downs + 1
    /\ r \in up /\ up' = up \ {r}
    /\ UNCHANGED << spoolVars, want, lock, fgVars, asVars, job, archive, kills >>

RepoUp(r) ==
    /\ r \notin up /\ up' = up \cup {r}
    /\ UNCHANGED << spoolVars, want, lock, fgVars, asVars, job, archive, downs, kills >>

\* The primary archives the next segment.
ArchiveNext ==
    /\ Cardinality(archive) < MaxArchived
    /\ archive' = archive \cup {Cardinality(archive) + 1}
    /\ UNCHANGED << spoolVars, want, lock, fgVars, asVars, job, up, downs, kills >>
-----------------------------------------------------------------------------
Foreground ==
    \/ FgStart \/ FgSuccess \/ FgMissing \/ FgFound \/ FgStatusOk \/ FgStatusNone
    \/ FgStatusError \/ FgMove \/ FgLock \/ FgNoLock \/ FgNeed \/ FgAgain \/ FgTimeout
    \/ FgSync

AsyncProcess(a) ==
    \/ AsLoad(a) \/ AsCheck(a) \/ AsFind(a) \/ AsStatus(a) \/ AsFatal(a) \/ AsExit(a)
    \/ \E w \in Worker : \/ AsJob(a, w) \/ AsError(a, w) \/ AsOk(a, w) \/ AsRename(a, w)
                         \/ JobOrphan(a, w)

Job(a) ==
    \E w \in Worker :
        JobWrite(a, w) \/ \E r \in Repo : JobSkip(a, w, r) \/ JobOpen(a, w, r)

Environment ==
    \/ PgRestart \/ ArchiveNext \/ \E r \in Repo : RepoDown(r)
    \/ \E a \in Async : AsKill(a) \/ AsProtocolError(a)

Next ==
    \/ Foreground
    \/ \E a \in Async : AsyncProcess(a) \/ Job(a)
    \/ Environment \/ \E r \in Repo : RepoUp(r)

Spec == Init /\ [][Next]_vars

\* The operating system runs every process and an administrator restores
\* repositories.  A foreground waits until its timeout, PostgreSQL asks
\* again, and not every child loads just while the next foreground has the
\* lock.
Fairness ==
    /\ SF_vars(FgTimeout)
    /\ SF_vars(\E a \in Async : AsLoad(a) /\ lock = None)
    /\ WF_vars(Foreground)
    /\ \A a \in Async : WF_vars(AsyncProcess(a)) /\ WF_vars(Job(a))
    /\ \A r \in Repo : WF_vars(RepoUp(r))

FairSpec == Spec /\ Fairness
-----------------------------------------------------------------------------
JobType ==
    {Idle} \cup [seg : Seg, todo : SUBSET Repo, src : Repo \cup {None}, warn : BOOLEAN,
                 step : {"open", "write", "done"}]

SpoolType ==
    /\ queue \in [Seg -> File] /\ tmp \in [Seg -> File]
    /\ okFile \subseteq Seg
    /\ errFile \subseteq Seg \cup {Global} /\ fresh \subseteq Seg \cup {Global}

FgType ==
    /\ fpc \in {"idle", "found", "status", "error", "move", "lock", "need", "again",
                "success", "missing", "sync"}
    /\ fseg \in (1..NSeg) \cup {None} /\ (fpc # "idle" => fseg \in 1..NSeg)
    /\ first \in BOOLEAN /\ found \in BOOLEAN /\ forked \in BOOLEAN /\ full \in BOOLEAN
    /\ absent \in BOOLEAN

AsType ==
    /\ apc \in [Async -> {"none", "load", "check", "find", "get", "fatal", "exit"}]
    /\ need \in [Async -> SUBSET Seg] /\ fileMap \in [Async -> SUBSET Seg]
    /\ repoList \in [Async -> SUBSET Repo] /\ warn \in [Async -> SUBSET Seg]
    /\ missing \in [Async -> Seg \cup {None}]
    /\ error \in [Async -> Seg \cup {Global, None}]

EnvType ==
    /\ archive \subseteq 1..NSeg /\ up \subseteq Repo
    /\ downs \in 0..MaxDown /\ kills \in 0..MaxKill
    /\ want \in 1..(NSeg + 1)
    /\ lock \in Async \cup {Fg, None}

\* The types of the variables.
TypeOK ==
    /\ SpoolType /\ FgType /\ AsType /\ EnvType
    /\ job \in [Async -> [Worker -> JobType]]

\* A segment that is moved to the destination is there and whole.
MovedIsWhole == [][fpc = "move" /\ fpc' = "lock" => Whole(queue[fseg])]_vars

\* A segment is reported as missing only if it was not archived when the
\* command began.
MissingIsMissing == [][fpc # "missing" /\ fpc' = "missing" => absent]_vars

\* A foreground that has forked an async process throws only errors written
\* since then.
ErrorIsFresh ==
    [][fpc = "error" /\ fpc' = "idle" /\ forked /\ kills' = kills
        => {fseg, Global} \cap fresh # {}]_vars

\* A segment that is archived is eventually replayed.
EveryArchivedIsReplayed ==
    \A s \in 1..NSeg : want = s /\ s \in archive ~> want > s
=============================================================================
