------------------------------- MODULE Verify -------------------------------
(***************************************************************************)
(* The verify command (command/verify/verify.c, file.c): info files, WAL   *)
(* ranges and the files of all backups are checked by jobs that workers    *)
(* finish in any order, and a file that a newer backup refers to is not    *)
(* checked again when its own backup has been.                             *)
(*                                                                         *)
(* A repository is                                                         *)
(*   archiveInfo, backupInfo  [main, copy]: "ok", "bad" or "missing"       *)
(*   historyEqual   both have the same history of clusters                 *)
(*   archive        sequence of [known, path]: paths are sequences of      *)
(*                  segments [tl, n, is], is "ok" or what is wrong with it *)
(*   backup         sequence of [listed, known, main, copy, file], a file  *)
(*                  is [name, ref, kind, is], ref the index of the backup  *)
(*                  that holds it or 0                                     *)
(* A file of kind "zero" is empty and in a bundle; "bundle" and "block"    *)
(* are stored under other names than the file's.                           *)
(***************************************************************************)
EXTENDS Calls, SequencesExt, FiniteSetsExt, Functions

CONSTANTS VerifyRepos, VerifyClients

-----------------------------------------------------------------------------
(* Info files: the copy is only used when the main file is not usable.      *)

InfoUsable(f) == f.main = "ok" \/ f.copy = "ok"

\* verifyProcess() up to the jobs: errors that end it.
InfoErrors(r) ==
    Cardinality({f \in {"archiveInfo", "backupInfo"} : ~InfoUsable(r[f])})
        + (IF InfoUsable(r.archiveInfo) /\ InfoUsable(r.backupInfo) /\ ~r.historyEqual THEN 1 ELSE 0)

\* verifySetBackupCheckArchive(): the newest backup may be in progress when
\* backup.info does not list it.
Current(r) == IF r.backup # << >> /\ ~Last(r.backup).listed THEN Len(r.backup) ELSE 0
ArchiveErrors(r) == IF \E i \in DOMAIN r.archive : ~r.archive[i].known THEN 1 ELSE 0

\* verifyManifestFile(): the status of backup b and whether its manifest is used.
ManifestUse(r, b) ==
    LET m == r.backup[b]
        progress == b = Current(r) /\ m.main = "missing"
        found == ~progress /\ InfoUsable(m)
    IN  [used |-> found /\ m.known,
         status |-> IF found /\ m.known THEN "valid"
                    ELSE IF progress THEN "progress"
                    ELSE IF ~found /\ m.main = "missing" /\ m.copy = "missing" THEN "missing"
                    ELSE "invalid"]
-----------------------------------------------------------------------------
(* WAL.  verifyCreateArchiveIdRange(): segments that are there twice are    *)
(* left out, and what follows without a gap is one range.                   *)

Segment(s) == << s.tl, s.n >>
Twice(path, i) == \E j \in DOMAIN path \ {i} : Segment(path[j]) = Segment(path[i])
Once(path) == SelectSeq(path, LAMBDA s : Cardinality({i \in DOMAIN path : Segment(path[i]) = Segment(s)}) = 1)
DuplicateErrors(path) == Cardinality({Segment(path[i]) : i \in {i \in DOMAIN path : Twice(path, i)}})

AllDuplicates(r) ==
    MapThenSumSet(LAMBDA p : DuplicateErrors(r.archive[p[1]].path[p[2]]),
                  UNION {{<< a, i >> : i \in DOMAIN r.archive[a].path} : a \in DOMAIN r.archive})

\* Faulty variant of Continues: the next number on another timeline continues
\* a range.
ContinuesAny(range, s) == s.n = range.stop.n + 1

Continues(range, s) == s.tl = range.stop.tl /\ s.n = range.stop.n + 1

AddSegment(ranges, s) ==
    IF ranges # << >> /\ Continues(Last(ranges), s)
    THEN [ranges EXCEPT ![Len(ranges)].stop = s]
    ELSE Append(ranges, [start |-> s, stop |-> s, invalid |-> {}])

Ranges(archive) == FoldLeft(AddSegment, << >>, FlattenSeq([i \in DOMAIN archive.path |-> Once(archive.path[i])]))

\* The jobs of verifyArchive() in their order.
WalJobs(r) ==
    FlattenSeq([a \in DOMAIN r.archive |->
        LET segments == FlattenSeq([i \in DOMAIN r.archive[a].path |-> Once(r.archive[a].path[i])])
        IN  [i \in DOMAIN segments |-> [type |-> "archive", of |-> a, file |-> segments[i], is |-> segments[i].is]]])

\* verifyAddInvalidWalFile(): the first range that ends at the segment or later.
NotAfter(s, t) == s.tl < t.tl \/ (s.tl = t.tl /\ s.n <= t.n)
AddInvalidWal(ranges, s) ==
    LET i == Min({i \in DOMAIN ranges : NotAfter(s, ranges[i].stop)})
    IN  [ranges EXCEPT ![i].invalid = @ \cup {s}]
-----------------------------------------------------------------------------
(* Backups.                                                                 *)

NoJob == [type |-> None]

NewResult == [status |-> "valid", used |-> FALSE, complete |-> FALSE, sent |-> 0, valid |-> 0, invalid |-> {}]

\* The name a file has in the repository.
RepoPath(label, f) == << label, IF f.kind \in {"bundle", "block"} THEN << f.name, f.kind >> ELSE << f.name >> >>

\* Files of all manifests in the order they are looked at; file 0 loads the
\* manifest.
ManifestItems(r) == FlattenSeq([b \in DOMAIN r.backup |-> [i \in 1..(Len(r.backup[b].file) + 1) |-> << b, i - 1 >>]])

\* The result list is extended and the manifest is loaded; one without files
\* is an error of its own.
LoadManifest(o, b) ==
    LET m == ManifestUse(o.repo, b)
        empty == m.used /\ o.repo.backup[b].file = << >>
    IN  [o EXCEPT !.backup = Append(@, [NewResult EXCEPT !.status = IF empty THEN "invalid" ELSE m.status, !.used = m.used]),
                  !.errors = @ + IF empty \/ m.status = "invalid" THEN 1 ELSE 0]

BackupJob(b, label, f) == [type |-> "backup", of |-> b, file |-> RepoPath(label, f), is |-> f.is]

\* Faulty variant of Checked: a backup that has a result has been checked.
CheckedListed(o, b) == b \in DOMAIN o.backup

\* The results of backup b say which of its files are bad.
Checked(o, b) == b \in DOMAIN o.backup /\ o.backup[b].complete

\* One file of the manifest in work.
NextFile(o, b, i) ==
    LET f == o.repo.backup[b].file[i]
        p == [o EXCEPT !.backup[b].sent = @ + 1]
        prior == << f.ref, << f.name >> >>
    IN  IF f.kind = "zero" THEN [p EXCEPT !.backup[b].valid = @ + 1]
        ELSE IF f.ref = 0 THEN [p EXCEPT !.job = BackupJob(b, b, f)]
        ELSE IF ~Checked(o, f.ref) THEN [p EXCEPT !.job = BackupJob(b, f.ref, f)]
        ELSE IF prior \in o.backup[f.ref].invalid
             THEN [p EXCEPT !.backup[b].invalid = @ \cup {prior}, !.backup[b].status = "invalid"]
        ELSE [p EXCEPT !.backup[b].valid = @ + 1]

\* verifyArchive(), then verifyBackup(), until there is a job.
VerifyCallback(o) ==
    LET jobs == WalJobs(o.repo)
        items == ManifestItems(o.repo)
        Step(p, k) ==
            LET b == items[k][1]
                i == items[k][2]
            IN  IF p.job # NoJob \/ k < p.item THEN p
                ELSE LET q == [p EXCEPT !.item = k + 1]
                     IN  IF i = 0 THEN LoadManifest(q, b) ELSE IF q.backup[b].used THEN NextFile(q, b, i) ELSE q
    IN  IF o.wal <= Len(jobs) THEN [o EXCEPT !.job = jobs[o.wal], !.wal = @ + 1]
        ELSE FoldLeftDomain(Step, o, items)

GiveJob(o, c) ==
    LET Given(p) == [p EXCEPT !.running[c] = p.job, !.job = NoJob,
                              !.order = IF p.job = NoJob THEN @ ELSE Append(@, c)]
    IN  IF o.running[c] # NoJob THEN o ELSE Given(VerifyCallback([o EXCEPT !.job = NoJob]))

\* verifyFile(), and what verifyProcess() does with its result.
WalResult(o, j) ==
    IF j.is = "ok" THEN [o EXCEPT !.walValid[j.of] = @ + 1]
    ELSE [o EXCEPT !.errors = @ + IF j.is = "missing" THEN 0 ELSE 1,
                   !.range[j.of] = AddInvalidWal(@, j.file)]

FileResult(o, j) ==
    LET p == IF j.is = "ok" THEN [o EXCEPT !.backup[j.of].valid = @ + 1]
             ELSE [o EXCEPT !.errors = @ + 1, !.backup[j.of].status = "invalid",
                            !.backup[j.of].invalid = @ \cup {j.file}]
    IN  IF p.backup[j.of].sent = Len(o.repo.backup[j.of].file) THEN [p EXCEPT !.backup[j.of].complete = TRUE] ELSE p

Result(o, j) == IF j.type = "archive" THEN WalResult(o, j) ELSE FileResult(o, j)

\* One pass of the loop: workers that are ready get new jobs, then the results
\* are taken in the order the jobs were made.
Process(o, ready) ==
    LET finished == SelectSeq(o.order, LAMBDA c : c \in ready)
        results == [i \in DOMAIN finished |-> o.running[finished[i]]]
        freed == [o EXCEPT !.running = [c \in DOMAIN @ |-> IF c \in ready THEN NoJob ELSE @[c]],
                           !.order = SelectSeq(@, LAMBDA c : c \notin ready)]
    IN  FoldLeft(Result, FoldLeft(GiveJob, freed, [c \in DOMAIN o.running |-> c]), results)

\* verifyProcess() begins: info files that cannot be used end it.
NewVerify(r) ==
    [repo |-> r, wal |-> 1, item |-> 1, job |-> NoJob, running |-> [c \in 1..VerifyClients |-> NoJob], order |-> << >>,
     range |-> [a \in DOMAIN r.archive |-> Ranges(r.archive[a])], walValid |-> [a \in DOMAIN r.archive |-> 0],
     backup |-> << >>, done |-> InfoErrors(r) > 0 \/ (r.archive = << >> /\ r.backup = << >>),
     errors |-> IF InfoErrors(r) > 0 THEN InfoErrors(r) ELSE ArchiveErrors(r) + AllDuplicates(r)]
-----------------------------------------------------------------------------
Verifying == call.op = "verify" /\ ~call.obj.done
Busy(o) == {c \in DOMAIN o.running : o.running[c] # NoJob}

VerifyStart == NoCall /\ \E r \in VerifyRepos : call' = [op |-> "verify", obj |-> NewVerify(r)]

VerifyProcess ==
    /\ Verifying
    /\ \E ready \in SUBSET Busy(call.obj) :
          /\ ready = {} => Busy(call.obj) = {}
          /\ LET DoneIf(p) == [p EXCEPT !.done = Busy(p) = {}]
             IN  call' = [call EXCEPT !.obj = DoneIf(Process(@, ready))]

VerifyNext == VerifyStart \/ VerifyProcess
-----------------------------------------------------------------------------
Done == call.op = "verify" /\ call.obj.done
Checks(r) == InfoErrors(r) = 0
Files(r, b) == Range(r.backup[b].file)
Stored(b, f) == << IF f.ref = 0 THEN b ELSE f.ref, f.name >>
Broken(f) == f.kind # "zero" /\ f.is # "ok"

\* verify ends with an error when, and only when, something is wrong; WAL that
\* expire has removed and backups without any manifest are not errors.
ErrorsTrue ==
    LET r == call.obj.repo
        Used(b) == ManifestUse(r, b).used
    IN  call.obj.errors > 0 <=>
            \/ ~Checks(r)
            \/ \E a \in DOMAIN r.archive :
                  \/ ~r.archive[a].known
                  \/ \E p \in Range(r.archive[a].path) : \E i \in DOMAIN p : Twice(p, i) \/ p[i].is \notin {"ok", "missing"}
            \/ \E b \in DOMAIN r.backup :
                  IF Used(b) THEN r.backup[b].file = << >> \/ \E f \in Files(r, b) : Broken(f)
                  ELSE ManifestUse(r, b).status = "invalid"

\* The ranges are the longest runs of segments, and each bad segment is in the
\* range that it belongs to.
RangesTrue ==
    LET r == call.obj.repo
        Seg(a) == UNION {Range(Once(r.archive[a].path[i])) : i \in DOMAIN r.archive[a].path}
        In(s, g) == NotAfter(g.start, s) /\ NotAfter(s, g.stop)
        Following(s, t) == s.tl = t.tl /\ t.n = s.n + 1
    IN  Checks(r) => \A a \in DOMAIN r.archive :
            LET range == call.obj.range[a]
            IN  /\ \A s \in Seg(a) : Cardinality({i \in DOMAIN range : In(s, range[i])}) = 1
                /\ \A i \in DOMAIN range : \A s, t \in Seg(a) :
                      Following(s, t) => (In(s, range[i]) <=> In(t, range[i]))
                /\ \A i \in DOMAIN range : range[i].start.tl = range[i].stop.tl
                /\ \A i \in DOMAIN range : range[i].invalid = {s \in Seg(a) : In(s, range[i]) /\ s.is # "ok"}
                /\ call.obj.walValid[a] = Cardinality({s \in Seg(a) : s.is = "ok"})

\* No file of a manifest is left unchecked: one that is broken makes a backup
\* that has it invalid, and the backup it is stored with when that one is
\* checked; a backup is only called invalid with a reason.
StatusTrue ==
    LET r == call.obj.repo
        o == call.obj
        Used(b) == ManifestUse(r, b).used
        All == {b \in DOMAIN r.backup : Used(b)}
    IN  Checks(r) =>
            /\ \A b \in All : \A f \in Files(r, b) : Broken(f) =>
                  \/ o.backup[b].status = "invalid"
                  \/ f.ref # 0 /\ Used(f.ref) /\ o.backup[f.ref].status = "invalid"
            /\ \A b \in All : o.backup[b].status = "invalid" =>
                  Files(r, b) = {} \/ \E f \in Files(r, b) : Broken(f)
            /\ \A b \in All : o.backup[b].status = "valid" => o.backup[b].valid = o.backup[b].sent
            /\ \A b \in All : o.backup[b].sent = Len(r.backup[b].file)

\* What verify reports is what is in the repository, in whatever order the
\* workers finish.  Two things it does miss are left out: a file that a prior
\* backup has in a bundle or in blocks is looked up there under its own name,
\* and a backup counts as checked when one of its files is and all were sent.
VerifySound == Done => ErrorsTrue /\ RangesTrue /\ StatusTrue
=============================================================================
