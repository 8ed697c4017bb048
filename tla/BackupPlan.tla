----------------------------- MODULE BackupPlan -----------------------------
(***************************************************************************)
(* What a backup copies (command/backup/backup.c, file.c, protocol.c): the *)
(* files of the manifest go into queues, a client that is free gets a file *)
(* or a bundle of files, a worker checks what need not be copied and       *)
(* copies the rest, and its results go into the manifest.  A backup that   *)
(* did not end is resumed, a full backup may copy old files before it      *)
(* starts, and an incremental one keeps what the prior backup has.         *)
(*                                                                         *)
(* A disk is a function from names to [size, time, data].  The checksum of *)
(* a file is its data.  The repository is a function from paths to the     *)
(* pieces that are stored there one after the other.                       *)
(***************************************************************************)
EXTENDS ManifestBuild

CONSTANTS
    CopyNames,      \* names of files in their order
    TargetOf,       \* the number of the target a file is in, 1 is pg_data
    OnStandby,      \* files that may be copied from a standby
    PgControl,
    ReadBuffer,     \* io-buffer-size
    FirstBackups,   \* see CmdBackup
    NextBackups(_), \* what may follow a backup
    InitCalls       \* see BackupInit

-----------------------------------------------------------------------------
(* Queues.  o is [bundle, size, limit, standby, clients, ...].              *)

PrimaryOnly(name) == name = PgControl \/ name \notin OnStandby
QueueOffset(o) == IF o.standby THEN 1 ELSE 0
QueueOf(o, f) == IF o.standby /\ PrimaryOnly(f.name) THEN 1 ELSE TargetOf[f.name] + QueueOffset(o)
QueueTotal(o) == Max(Range(TargetOf)) + QueueOffset(o)

\* backupProcessQueueComparator() in descending order.
Precedes(o, f, g) ==
    LET sized == ~o.bundle \/ f.size > o.limit \/ g.size > o.limit
    IN  IF sized /\ f.size # g.size THEN f.size > g.size
        ELSE IF o.bundle /\ f.timestamp # g.timestamp THEN f.timestamp < g.timestamp
        ELSE IndexIn(CopyNames, f.name) > IndexIn(CopyNames, g.name)

Queues(o, m) ==
    [q \in 1..QueueTotal(o) |->
        SortSeq(SelectSeq(m.files, LAMBDA f : f.copy /\ QueueOf(o, f) = q), LAMBDA f, g : Precedes(o, f, g))]

ToCopy(m) == SelectSeq(m.files, LAMBDA f : f.copy)
QueueError(o, m, preliminary) ==
    \/ ~preliminary /\ o.online /\ ~\E f \in Range(ToCopy(m)) : f.name = PgControl
    \/ ToCopy(m) = << >>

\* One file of a queue, if it goes into the job.
TakeFile(o, t, f) ==
    IF t.full \/ (t.files # << >> /\ t.size + f.size >= o.size)
    THEN [t EXCEPT !.left = Append(@, f)]
    ELSE LET bundle == IF t.files = << >> THEN o.bundle /\ f.size <= o.limit ELSE t.bundle
             size == t.size + f.sizeOriginal
         IN  [files |-> Append(t.files, f), left |-> t.left, size |-> size, bundle |-> bundle,
              full |-> ~bundle \/ size >= o.size]

NoFiles == [files |-> << >>, left |-> << >>, size |-> 0, bundle |-> FALSE, full |-> FALSE]

\* Faulty variant of ScanOrder: every client looks into all queues.
ScanOrderAll(o, client) ==
    LET total == QueueTotal(o)
    IN  [k \in 1..total |-> ((client + (IF client % 2 = 1 THEN total - k + 1 ELSE k - 1)) % total) + 1]

\* Queues in the order that a client looks into: even ones forward, odd ones
\* backward.  The first client is the primary's.
ScanOrder(o, client) ==
    LET offset == IF o.standby /\ client > 0 THEN 1 ELSE 0
        total == QueueTotal(o) - offset
    IN  IF o.standby /\ client = 0 THEN << 1 >>
        ELSE [k \in 1..total |-> ((client + (IF client % 2 = 1 THEN total - k + 1 ELSE k - 1)) % total) + 1 + offset]

\* backupJobCallback(): p is [queues, bundleId, jobs].
JobFor(o, p, client) ==
    LET order == SelectSeq(ScanOrder(o, client), LAMBDA q : p.queues[q] # << >>)
    IN  IF order = << >> THEN p
        ELSE LET q == order[1]
                 t == FoldLeft(LAMBDA x, f : TakeFile(o, x, f), NoFiles, p.queues[q])
             IN  [queues |-> [p.queues EXCEPT ![q] = t.left],
                  bundleId |-> p.bundleId + IF t.bundle THEN 1 ELSE 0,
                  jobs |-> Append(p.jobs, [client |-> client, bundleId |-> IF t.bundle THEN p.bundleId ELSE 0, files |-> t.files])]

\* The jobs when clients ask in the given order and then in turns.
Jobs(o, m) ==
    LET turns == o.order \o [k \in 1..(Len(m.files) * o.clients) |-> (k - 1) % o.clients]
    IN  FoldLeft(LAMBDA p, c : JobFor(o, p, c), [queues |-> Queues(o, m), bundleId |-> 1, jobs |-> << >>], turns).jobs
-----------------------------------------------------------------------------
(* A worker.                                                                *)

\* The checksum of what is stored for data.
StoredSum(compress, map, data) == data \o (IF compress THEN " compressed" ELSE "") \o (IF map > 0 THEN " blocks" ELSE "")
RepoSize(o, size) == IF o.compress THEN size + 1 ELSE size

\* backupFileRepoPath()
RepoPathOf(label, name, bundleId, block) ==
    [label |-> label, bundle |-> bundleId, name |-> IF bundleId # 0 THEN None ELSE name, block |-> bundleId = 0 /\ block]
Block(o, f) == o.block /\ f.blockIncrSize > 0
PathOfJob(o, m, job) == RepoPathOf(m.label, job.files[1].name, job.bundleId, Block(o, job.files[1]))

\* What is read of a file: nothing behind its size in the manifest, if the rest
\* is in WAL.
ReadFile(disk, f) ==
    IF f.name \notin DOMAIN disk THEN None
    ELSE LET d == disk[f.name]
             size == IF ~PrimaryOnly(f.name) /\ d.size > f.sizeOriginal THEN f.sizeOriginal ELSE d.size
         IN  [size |-> size, data |-> IF size = 0 THEN ZeroChecksum ELSE d.data]
Exists(disk, f) == f.name \in DOMAIN disk
SameFile(disk, f) == ReadFile(disk, f) = [size |-> f.size, data |-> f.checksum]

Outcome(is, size, data) == [is |-> is, size |-> size, data |-> data, repoSize |-> 0, offset |-> 0, map |-> 0]

\* Faulty variant of Unneeded: the file in the repository is not read again.
UnneededResumed(o, disk, repo, path, f) ==
    IF f.delta /\ ~Exists(disk, f) THEN Outcome(IF f.name = PgControl THEN Error ELSE "skip", 0, None)
    ELSE IF f.resume /\ (~f.delta \/ SameFile(disk, f)) THEN Outcome("checksum", f.size, f.checksum)
    ELSE IF f.delta /\ SameFile(disk, f) THEN Outcome("noop", f.size, f.checksum)
    ELSE Outcome("copy", 0, None)

\* backupFile(): which files need not be copied.
Unneeded(o, disk, repo, path, f) ==
    IF f.delta /\ ~Exists(disk, f) THEN Outcome(IF f.name = PgControl THEN Error ELSE "skip", 0, None)
    ELSE IF f.resume /\ (~f.delta \/ SameFile(disk, f))
    THEN IF path \notin DOMAIN repo THEN Outcome(Error, 0, None)
         ELSE LET stored == repo[path][1]
              IN  IF /\ stored.repoSize = f.sizeRepo
                     /\ StoredSum(stored.compress, stored.map, stored.data)
                            = (IF f.checksumRepo # None THEN f.checksumRepo ELSE f.checksum)
                  THEN Outcome("checksum", f.size, f.checksum)
                  ELSE Outcome("copy", 0, None)
    ELSE IF f.delta /\ SameFile(disk, f) THEN Outcome("noop", f.size, f.checksum)
    ELSE Outcome("copy", 0, None)

\* The map of the prior backup of the file is where the manifest says it is.
PriorMap(o, f) == Block(o, f) /\ f.blockIncrMapSize # 0 /\ f.reference # None
MapFound(repo, f) ==
    LET path == RepoPathOf(f.reference, f.name, f.bundleId, TRUE)
    IN  path \in DOMAIN repo /\
            \E i \in DOMAIN repo[path] :
                LET p == repo[path][i]
                IN  p.name = f.name /\ p.map = f.blockIncrMapSize
                        /\ p.offset + p.repoSize - p.map = f.bundleOffset + f.sizeRepo - f.blockIncrMapSize

\* The file is read to its end at once, or there is nothing new in it.
AtEnd(o, f, read) == read.size <= ReadBuffer \/ (PriorMap(o, f) /\ read = [size |-> f.size, data |-> f.checksum])

\* backupFile(): one file that is to be copied, to what the job has stored.
CopyOne(o, disk, repo, job, f, stored) ==
    LET read == ReadFile(disk, f)
        map == IF Block(o, f) /\ read.size > 0 THEN 1 ELSE 0
        end == IF stored = << >> THEN 0 ELSE Last(stored).offset + Last(stored).repoSize
    IN  IF PriorMap(o, f) /\ ~MapFound(repo, f) THEN Outcome(Error, 0, None)
        ELSE IF ~Exists(disk, f) THEN Outcome(IF f.name = PgControl THEN Error ELSE "skip", 0, None)
        ELSE IF AtEnd(o, f, read) /\ job.bundleId # 0 /\ read.size = 0 THEN Outcome("truncate", 0, ZeroChecksum)
        ELSE IF AtEnd(o, f, read) /\ f.reference # None /\ SameFile(disk, f) THEN Outcome("noop", f.size, f.checksum)
        ELSE [is |-> "copy", size |-> read.size, data |-> read.data, offset |-> end, map |-> map,
              repoSize |-> RepoSize(o, read.size) + map]

\* A job: its outcomes and the repository after it.
RunJob(o, m, repo, job, first, second) ==
    LET path == PathOfJob(o, m, job)
        Copied(x, f, checked) == IF checked.is = "copy" THEN CopyOne(o, second, repo, job, f, x.stored) ELSE checked
        Put(x, f, out) ==
            LET piece == [name |-> f.name, size |-> out.size, data |-> out.data, offset |-> out.offset,
                          repoSize |-> out.repoSize, map |-> out.map, compress |-> o.compress]
            IN  [out |-> Append(x.out, out), stored |-> IF out.is = "copy" THEN Append(x.stored, piece) ELSE x.stored]
        Result(done) ==
            LET left == IF job.bundleId = 0 /\ done.out[1].is = "skip" THEN [p \in DOMAIN repo \ {path} |-> repo[p]] ELSE repo
            IN  [out |-> done.out, repo |-> IF done.stored = << >> THEN left ELSE (path :> done.stored) @@ left]
    IN  Result(FoldLeft(LAMBDA x, f : Put(x, f, Copied(x, f, Unneeded(o, first, repo, path, f))),
                        [out |-> << >>, stored |-> << >>], job.files))
-----------------------------------------------------------------------------
(* Results.                                                                 *)

\* Faulty variant of CopyResult: the copied file keeps its reference.
CopyResultReference(o, f, out, bundleId) ==
    IF out.is \notin {"copy", "truncate"} THEN f
    ELSE [f EXCEPT !.size = out.size, !.sizeRepo = out.repoSize, !.checksum = out.data,
                   !.checksumRepo = IF o.compress \/ out.map > 0 THEN StoredSum(o.compress, out.map, out.data) ELSE None,
                   !.bundleId = IF out.is = "truncate" THEN 0 ELSE bundleId,
                   !.bundleOffset = out.offset, !.blockIncrMapSize = out.map]

\* backupJobResult(): what a file of the manifest becomes.
CopyResult(o, f, out, bundleId) ==
    IF out.is \notin {"copy", "truncate"} THEN f
    ELSE [f EXCEPT !.size = out.size, !.sizeRepo = out.repoSize, !.checksum = out.data, !.reference = None,
                   !.checksumRepo = IF o.compress \/ out.map > 0 THEN StoredSum(o.compress, out.map, out.data) ELSE None,
                   !.bundleId = IF out.is = "truncate" THEN 0 ELSE bundleId,
                   !.bundleOffset = out.offset, !.blockIncrMapSize = out.map]

\* One job of backupProcess(); w is [repo, manifest, removed, progress, error].
FinishJob(o, w, job, first, second) ==
    LET Of(name) == {i \in DOMAIN job.files : job.files[i].name = name}
        Result(r) ==
            LET NewOf(f) == IF Of(f.name) = {} THEN f ELSE CopyResult(o, f, r.out[Min(Of(f.name))], job.bundleId)
                failed == \E out \in Range(r.out) : out.is = Error
            IN  IF failed THEN [w EXCEPT !.error = "job"]
                ELSE [w EXCEPT !.repo = r.repo,
                               !.manifest.files = [i \in DOMAIN @ |-> NewOf(@[i])],
                               !.removed = @ \cup {job.files[i].name : i \in {j \in DOMAIN job.files : r.out[j].is = "skip"}},
                               !.progress = FoldLeft(LAMBDA n, f : n + f.sizeOriginal, @, job.files)]
    IN  IF w.error # None THEN w ELSE Result(RunJob(o, w.manifest, w.repo, job, first, second))

UpTo(jobs, n) == [i \in DOMAIN jobs \cap 1..n |-> jobs[i]]

\* A killed backup's last result is not in the copy of the manifest that is left.
Killed(w, finished) == [finished EXCEPT !.manifest = w.manifest, !.error = "killed"]

\* The jobs of backupProcess(): b.after is how many are done when it is killed.
ProcessJobs(o, b, start, preliminary, jobs) ==
    LET killed == b.after > 0 /\ b.after <= Len(jobs) /\ ~preliminary
        KillIf(w, n, finished) == IF killed /\ n = b.after THEN Killed(w, finished) ELSE finished
        End(w) == IF killed THEN w ELSE [w EXCEPT !.manifest.files = SelectSeq(@, LAMBDA f : f.name \notin w.removed)]
    IN  End(FoldLeftDomain(LAMBDA w, n : KillIf(w, n, FinishJob(o, w, jobs[n], b.first, b.second)),
                           start, IF killed THEN UpTo(jobs, b.after) ELSE jobs))
            @@ [jobs |-> jobs, total |-> FoldLeft(LAMBDA n, f : n + f.sizeOriginal, start.progress, ToCopy(start.manifest))]

\* backupProcess() from what is resumed.
BackupProcess(o, b, resumed, preliminary, progress) ==
    LET start == [repo |-> resumed.repo, manifest |-> resumed.manifest, removed |-> {}, progress |-> progress, error |-> None]
    IN  IF QueueError(o, resumed.manifest, preliminary) THEN [start EXCEPT !.error = "queue"] @@ [jobs |-> << >>, total |-> 0]
        ELSE ProcessJobs(o, b, start, preliminary, Jobs(o, resumed.manifest))
-----------------------------------------------------------------------------
(* What is left of a backup that did not end, or was copied before.         *)

ResumeReason(o, m, prior, path, name) ==
    LET piece == CHOOSE f \in Range(m.files) : f.name = name
        old == CHOOSE f \in Range(prior.files) : f.name = name
    IN  IF path.label # m.label THEN None
        ELSE IF path.bundle # 0 THEN "path"
        ELSE IF ~path.block /\ prior.compress # o.compress THEN "compression"
        ELSE IF ~\E f \in Range(m.files) : f.name = name THEN "missing"
        ELSE IF ~\E f \in Range(prior.files) : f.name = name THEN "missing in prior"
        ELSE IF old.checksum = None THEN "checksum"
        ELSE IF piece.size # old.size THEN "size"
        ELSE IF ~m.delta /\ piece.timestamp # old.timestamp THEN "timestamp"
        ELSE IF piece.size = 0 THEN "zero"
        ELSE None

\* Faulty variant of ResumeClean: what is found does not have to be of the time.
ResumeCleanTime(o, m, prior, repo, resume) ==
    LET labelled == [m EXCEPT !.label = prior.label]
        Reason(p) == ResumeReason(o, [labelled EXCEPT !.delta = TRUE], prior, p, p.name)
        kept == {p \in DOMAIN repo : Reason(p) = None}
        Found(f) == \E p \in kept : p.label = prior.label /\ p.name = f.name
        Merge(f, g) ==
            [f EXCEPT !.sizeRepo = g.sizeRepo, !.checksum = g.checksum, !.checksumRepo = g.checksumRepo,
                      !.blockIncrSize = g.blockIncrSize, !.blockIncrMapSize = g.blockIncrMapSize,
                      !.resume = resume, !.delta = m.delta, !.copy = resume \/ m.delta]
    IN  [manifest |-> [labelled EXCEPT !.files = [i \in DOMAIN @ |-> IF Found(@[i]) THEN Merge(@[i], Prior(prior, @[i])) ELSE @[i]]],
         repo |-> [p \in kept |-> repo[p]]]

\* backupResumeClean()
ResumeClean(o, m, prior, repo, resume) ==
    LET labelled == [m EXCEPT !.label = prior.label]
        kept == {p \in DOMAIN repo : ResumeReason(o, labelled, prior, p, p.name) = None}
        Found(f) == \E p \in kept : p.label = prior.label /\ p.name = f.name
        Merge(f, g) ==
            [f EXCEPT !.sizeRepo = g.sizeRepo, !.checksum = g.checksum, !.checksumRepo = g.checksumRepo,
                      !.blockIncrSize = g.blockIncrSize, !.blockIncrMapSize = g.blockIncrMapSize,
                      !.resume = resume, !.delta = m.delta, !.copy = resume \/ m.delta]
    IN  [manifest |-> [labelled EXCEPT !.files = [i \in DOMAIN @ |-> IF Found(@[i]) THEN Merge(@[i], Prior(prior, @[i])) ELSE @[i]]],
         repo |-> [p \in kept |-> repo[p]]]

\* The manifest of a disk: manifestNewBuild() for files.
Listed(o, disk) ==
    LET names == SelectSeq(CopyNames, LAMBDA n : n \in DOMAIN disk)
        FileOf(n) ==
            LET zero == disk[n].size = 0 /\ o.bundle
            IN  [NoFile EXCEPT !.name = n, !.copy = ~zero, !.size = disk[n].size, !.sizeOriginal = disk[n].size,
                               !.sizeRepo = disk[n].size, !.timestamp = disk[n].time,
                               !.checksum = IF zero THEN ZeroChecksum ELSE None,
                               !.blockIncrSize = IF o.block /\ disk[n].size >= 2 THEN 2 ELSE 0]
    IN  [label |-> None, copyStart |-> o.now, online |-> o.online, delta |-> o.delta, stop |-> << >>, references |-> << >>,
         bundle |-> o.bundle, bundleRaw |-> FALSE, compress |-> o.compress, files |-> [i \in DOMAIN names |-> FileOf(names[i])]]

\* cmdBackup(): s is [repo, done, left]: the repository, the manifests of the
\* backups that ended, and the copy of one that did not.  b is [kind, option,
\* label, disk, first, second, after, limit, damaged]: the disk when it is listed,
\* checked and copied, and files of the one that did not end that went bad.
Damaged(b, s) ==
    [p \in DOMAIN s.repo |-> [i \in DOMAIN s.repo[p] |->
        IF s.left # << >> /\ p.label = s.left[1].label /\ p.name \in b.damaged
        THEN [s.repo[p][i] EXCEPT !.data = "damaged"] ELSE s.repo[p][i]]]
Resume(o, m, b, s) ==
    IF s.left # << >> /\ b.kind = "full" /\ s.left[1].kind = "full" /\ s.left[1].compress = o.compress
    THEN ResumeClean(o, m, s.left[1], s.repo, TRUE)
    ELSE [manifest |-> [m EXCEPT !.label = b.label],
          repo |-> [p \in {q \in DOMAIN s.repo : s.left = << >> \/ q.label # s.left[1].label} |-> s.repo[p]]]

\* The copy before the start: nothing, or the files that were not modified lately.
Preliminary(o, b, s) ==
    LET listed == BuildFullIncr(Listed(o, b.disk), b.limit, o.limit)
        m == BuildValidate(listed, o.delta, b.limit)
    IN  IF b.kind = "full" /\ o.fullIncr /\ listed.files # << >>
        THEN << BackupProcess(o, b, Resume(o, m, b, s), TRUE, 0) >> ELSE << >>

\* What is left of a backup that failed, and one more backup if it did not.
AfterBackup(b, s, prelim, last) ==
    LET labelled == [last.manifest EXCEPT !.references = Append(@, last.manifest.label)]
    IN  [repo |-> last.repo,
         done |-> IF last.error = None THEN Append(s.done, labelled) ELSE s.done,
         left |-> IF last.error = None THEN << >> ELSE << labelled @@ [kind |-> b.kind] >>,
         last |-> last, prelim |-> prelim]

\* The backup after the copy before the start.
BackupAfter(b, s, prelim) ==
    LET prior == SelectSeq(s.done, LAMBDA m : b.kind = "incr")
        o == IF prior # << >> THEN [b.option EXCEPT !.compress = Last(prior).compress] ELSE b.option
        m == BuildValidate(Listed(o, b.disk), o.delta, o.now)
        resumed ==
            IF prelim # << >>
            THEN ResumeClean(o, DeltaCheck(m, prelim[1].manifest), prelim[1].manifest, prelim[1].repo, FALSE)
            ELSE Resume(o, IF prior # << >> THEN BuildIncr(m, Last(prior), << >>) ELSE m, b, s)
        progress == IF prelim = << >> THEN 0 ELSE prelim[1].progress
    IN  AfterBackup(b, s, prelim,
            IF prelim # << >> /\ prelim[1].error # None THEN prelim[1] ELSE BackupProcess(o, b, resumed, FALSE, progress))

CmdBackup(b, s) == BackupAfter(b, s, Preliminary(b.option, b, s))

NoBackup == [repo |-> << >>, done |-> << >>, left |-> << >>, last |-> << >>, prelim |-> << >>]
FirstBackup == NoCall /\ \E b \in FirstBackups : call' = Called("backups", << b >>, CmdBackup(b, NoBackup))
NextBackup ==
    /\ Returns("backups") /\ Len(call.arg) = 1
    /\ \E b \in NextBackups(call.arg[1]) : call' = Called("backups", Append(call.arg, b), CmdBackup(b, [call.result EXCEPT !.repo = Damaged(b, call.result)]))
-----------------------------------------------------------------------------
(* The start.                                                               *)

\* backupInit(): a is [online, option, standby, checksum, enabled, match].
BackupInit(a) ==
    LET wanted == IF a.online THEN a.option ELSE "n"
        useStandby == a.online /\ wanted # "n" /\ a.standby
    IN  IF a.online /\ wanted = "y" /\ ~a.standby THEN [error |-> "standby"]
        ELSE IF ~a.match THEN [error |-> "stanza"]
        ELSE [error |-> None, standby |-> useStandby,
              checksum |-> CASE a.checksum = None -> a.online /\ a.enabled
                             [] a.checksum = "y" -> ~a.online \/ a.enabled
                             [] OTHER -> FALSE]
InitBackup == NoCall /\ \E a \in InitCalls : call' = Called("backup init", a, BackupInit(a))

\* Faulty variant of BackupTime: the sleep is trusted.
BackupTimeOnce(readings, second) == [error |-> None, time |-> readings[1] \div second, last |-> readings[2]]

\* backupTime(): the clock of the database, read up to four times until the
\* second is over.
BackupTime(readings, second) ==
    LET first == readings[1] \div second
        over == {i \in 2..4 : readings[i] \div second > first}
    IN  IF over = {} THEN [error |-> "clock"]
        ELSE [error |-> None, time |-> first, last |-> readings[Min(over)]]
ReadTime == NoCall /\ \E a \in [1..4 -> 4..9] : call' = Called("backup time", a, BackupTime(a, 2))

\* backupFullIncrLimit(): the time of the newest full backup, rounded up.
FullIncrLimit(backups, day, minute) ==
    LET full == SelectSeq(backups, LAMBDA b : b.full)
        last == IF full = << >> THEN day ELSE Last(full).stop - Last(full).start
    IN  (last \div minute + 1) * minute

Limits ==
    NoCall /\ \E a \in UNION {[1..n -> [full : BOOLEAN, start : {10}, stop : {12, 19, 20}]] : n \in 0..2} :
        call' = Called("backup limit", a, FullIncrLimit(a, 40, 5))

\* backupJobResultPageChecksum(): pages with errors as ranges.
PageRanges(pages) ==
    FoldLeft(LAMBDA r, p : IF r # << >> /\ p = Last(r)[2] + 1 THEN [r EXCEPT ![Len(r)][2] = p] ELSE Append(r, << p, p >>),
             << >>, pages)
PageErrors ==
    NoCall /\ \E pages \in SUBSET (0..5) :
        call' = Called("backup pages", pages, PageRanges(SetToSortSeq(pages, <)))

BackupPlanNext == FirstBackup \/ NextBackup \/ InitBackup \/ ReadTime \/ Limits \/ PageErrors
-----------------------------------------------------------------------------
(* Every file that is to be copied is in one job, whatever order clients   *)
(* ask in, and a file that must come from the primary is the first         *)
(* client's alone.  A bundle with more than one file is not above its size.*)
JobsWhole ==
    Returns("backups") =>
        LET b == Last(call.arg)
            r == call.result.last
            o == b.option
            names == FlattenSeq([j \in DOMAIN r.jobs |-> [i \in DOMAIN r.jobs[j].files |-> r.jobs[j].files[i].name]])
        IN  r.jobs # << >> =>
            /\ IsInjective(names)
            /\ r.error = None => r.progress = r.total
            /\ \A j \in Range(r.jobs) :
                  /\ o.standby => (j.client = 0) = (\A f \in Range(j.files) : PrimaryOnly(f.name))
                  /\ o.standby /\ j.client # 0 => \A f \in Range(j.files) : ~PrimaryOnly(f.name)
                  /\ j.bundleId # 0 /\ Len(j.files) > 1 =>
                        FoldLeft(LAMBDA n, f : n + f.sizeOriginal, 0, j.files) < o.size
                            \/ \E f \in Range(j.files) : f.size # f.sizeOriginal

(* The manifest of a backup that ended has every file that was still there *)
(* with data it had while it was listed, checked or copied, and the data   *)
(* is found in the repository where the manifest says it is.               *)
Versions(b, f) ==
    {ReadFile(disk, [f EXCEPT !.sizeOriginal = b.disk[f.name].size]) : disk \in {d \in {b.disk, b.first, b.second} : f.name \in DOMAIN d}}
FoundIn(s, m, f) ==
    LET path == RepoPathOf(IF f.reference = None THEN m.label ELSE f.reference, f.name, f.bundleId, f.blockIncrMapSize # 0)
    IN  \/ f.size = 0
        \/ path \in DOMAIN s.repo /\
              \E p \in Range(s.repo[path]) :
                  /\ p.name = f.name /\ p.offset = f.bundleOffset /\ p.repoSize = f.sizeRepo
                  /\ p.size = f.size /\ p.data = f.checksum /\ p.map = f.blockIncrMapSize
CopiesFound ==
    Returns("backups") /\ call.result.last.error = None =>
        LET s == call.result
            b == Last(call.arg)
            m == Last(s.done)
            names == {f.name : f \in Range(m.files)}
        IN  /\ DOMAIN b.disk \cap DOMAIN b.first \cap DOMAIN b.second \subseteq names
            /\ names \subseteq DOMAIN b.disk
            /\ \A f \in Range(m.files) :
                  /\ [size |-> f.size, data |-> f.checksum] \in Versions(b, f)
                  /\ FoundIn(s, m, f)
            /\ \A n \in DOMAIN b.disk \ names : \A p \in DOMAIN s.repo : p.label = m.label => p.name # n

(* A backup that is resumed fails for nothing it finds in the repository,  *)
(* if files are stored in the same way as before.                          *)
ResumeWorks ==
    Returns("backups") /\ Len(call.arg) > 1 /\ call.arg[1].option.bundle = call.arg[2].option.bundle
        /\ call.arg[1].option.block = call.arg[2].option.block => call.result.last.error # "job"

(* The second that the copy starts after is over; page checksums are only  *)
(* verified in a cluster that is known to have them, unless asked for; no  *)
(* standby is used offline; the ranges are the pages and cannot be joined; *)
(* files are old when they are older than the last full backup took.       *)
StartRight ==
    /\ Returns("backup time") /\ call.result.error = None => call.result.last >= (call.result.time + 1) * 2
    /\ Returns("backup init") /\ call.result.error = None =>
          /\ call.result.checksum => call.arg.enabled \/ (~call.arg.online /\ call.arg.checksum = "y")
          /\ call.result.standby => call.arg.online
    /\ Returns("backup limit") =>
          \A i \in DOMAIN call.arg :
              call.arg[i].full /\ (\A j \in DOMAIN call.arg : j > i => ~call.arg[j].full) =>
                  call.result - (call.arg[i].stop - call.arg[i].start) \in 1..5
    /\ Returns("backup pages") =>
          LET r == call.result
          IN  /\ call.arg = UNION {r[i][1]..r[i][2] : i \in DOMAIN r}
              /\ \A i \in DOMAIN r : i > 1 => r[i][1] > r[i - 1][2] + 1

(* A backup copies what it must, once, and knows where it is.              *)
BackupPlanSound == JobsWhole /\ CopiesFound /\ ResumeWorks /\ StartRight
=============================================================================
