---------------------------- MODULE BackupExpire ----------------------------
(***************************************************************************)
(* backup and expire on one repository of a stanza                         *)
(* (command/backup/backup.c, command/expire/expire.c, info/infoBackup.c).  *)
(*                                                                         *)
(* Both take the backup lock, so one of them runs at a time; backup goes   *)
(* on with expire when expire-auto is set.  Each storage operation is a    *)
(* step, and the command may be killed or fail before any of them, while   *)
(* PostgreSQL switches WAL segments and archive-push stores them in any    *)
(* order or gives them up.                                                 *)
(***************************************************************************)
EXTENDS Retention

CONSTANTS
    MaxTime,    \* bound on the clock
    MaxSeg,     \* bound on the WAL of a cluster: segments are 1..MaxSeg
    MaxPend,    \* bound on the segments waiting for archive-push
    MaxPg,      \* bound on stanza-upgrade: database ids are 1..MaxPg
    YearSize,   \* seconds of a year
    Config,     \* retention settings an expire may run with
    Options,    \* [kind, resume, prelim] a backup may run with
    MaxShift,   \* bound on how often the clock is set back
    MaxFault,   \* bound on kills, storage errors and lost segments
    Busy        \* steps before which the clock and PostgreSQL may go on

ASSUME BackupExpireAssumption ==
    /\ MaxTime \in Nat \ {0} /\ MaxSeg \in Nat \ {0} /\ MaxPend \in Nat
    /\ MaxPg \in Nat \ {0} /\ MaxFault \in Nat /\ MaxShift \in Nat
    /\ YearSize \in Nat \ {0}
    /\ Config \subseteq [fullType : {"count", "time"}, full : Nat, diff : Nat,
                         archive : Nat, archiveType : 0..2, history : Nat]
    /\ Options \subseteq [kind : 0..2, resume : BOOLEAN, prelim : BOOLEAN]

Seg == 1..MaxSeg
Pg == 1..MaxPg
Label == [full : 1..MaxTime, time : 0..MaxTime, kind : 0..2]
Backup == [label : Label, prior : Label \cup {NoLabel}, pg : Pg,
           start : 0..MaxSeg, stop : 0..MaxSeg, end : 0..MaxTime]

VARIABLES
    info,           \* backups in backup.info
    manifest,       \* backups with a backup.manifest, as it says
    copy,           \* labels with a backup.manifest.copy, by prior
    dir,            \* labels with a directory
    history,        \* labels with a manifest in backup.history
    wal,            \* wal[p]: segments in the archive of cluster p
    pend,           \* segments PostgreSQL has finished that are not archived
    pos,            \* the segment PostgreSQL writes
    pg,             \* id of the current cluster
    clock,          \* time, in seconds
    pc,             \* the next step of the command that runs
    cur,            \* its InfoBackup
    job,            \* the backup it makes
    conf,           \* its retention settings
    adhoc,          \* adhocBackupLabel
    heads,          \* labels it has yet to expire, or directories to remove
    trash,          \* <<cluster, segment>> it has yet to remove
    faults,         \* faults so far
    shifts          \* times the clock was set back so far

repoVars == << info, manifest, copy, dir, history, wal >>
pgVars == << pend, pos, pg >>
taskVars == << cur, job, conf, adhoc, heads, trash >>
boundVars == << faults, shifts >>
vars == << repoVars, pgVars, clock, pc, taskVars, boundVars >>

NoJob == [label |-> NoLabel, prior |-> NoLabel, kind |-> FullKind, time |-> 0, start |-> NoWal,
          stop |-> NoWal, end |-> 0, resume |-> FALSE]
NoConf == [fullType |-> "count", full |-> 0, diff |-> 0, archive |-> 0,
           archiveType |-> FullKind, history |-> MaxTime]

Year(t) == t \div YearSize

Without(S, l) == {b \in S : b.label # l}
-----------------------------------------------------------------------------
Init ==
    /\ info = {} /\ manifest = {} /\ copy = {} /\ dir = {} /\ history = {}
    /\ wal = [p \in Pg |-> {}]
    /\ pend = {} /\ pos = 1 /\ pg = 1 /\ clock = 1
    /\ pc = "idle" /\ cur = {} /\ job = NoJob /\ conf = NoConf /\ adhoc = NoLabel
    /\ heads = {} /\ trash = {}
    /\ faults = 0 /\ shifts = 0
-----------------------------------------------------------------------------
Tick ==
    /\ pc \in Busy /\ clock < MaxTime
    /\ clock' = clock + 1
    /\ UNCHANGED << repoVars, pgVars, pc, taskVars, boundVars >>

\* The clock is set back, or the time zone changes.
ClockBack ==
    /\ pc \in Busy /\ clock > 1 /\ shifts < MaxShift
    /\ clock' = clock - 1
    /\ shifts' = shifts + 1
    /\ UNCHANGED << repoVars, pgVars, pc, taskVars, faults >>

\* PostgreSQL switches to the next segment ...
Switch ==
    /\ pc \in Busy /\ pos < MaxSeg /\ Cardinality(pend) < MaxPend
    /\ pos' = pos + 1
    /\ pend' = pend \cup {pos}
    /\ UNCHANGED << repoVars, pg, clock, pc, taskVars, boundVars >>

\* ... and archive-push stores the finished ones in any order ...
Archive(s) ==
    /\ pc \in Busy /\ s \in pend
    /\ pend' = pend \ {s}
    /\ wal' = [wal EXCEPT ![pg] = @ \cup {s}]
    /\ UNCHANGED << info, manifest, copy, dir, history, pos, pg, clock, pc, taskVars, boundVars >>

\* ... or gives one up.
Drop(s) ==
    /\ pc \in Busy /\ s \in pend /\ faults < MaxFault
    /\ pend' = pend \ {s}
    /\ faults' = faults + 1
    /\ UNCHANGED << repoVars, pos, pg, clock, pc, taskVars, shifts >>

\* stanza-upgrade after pg_upgrade, which makes the new cluster go on with
\* the next segment.  It needs all locks.
Upgrade ==
    /\ pc = "idle" /\ pg < MaxPg
    /\ pg' = pg + 1
    /\ pend' = {}
    /\ UNCHANGED << repoVars, pos, clock, pc, taskVars, boundVars >>

\* The command ends and forgets what it knows.
End ==
    /\ pc' = "idle"
    /\ cur' = {} /\ job' = NoJob /\ conf' = NoConf /\ adhoc' = NoLabel
    /\ heads' = {} /\ trash' = {}

\* The command is killed, or a storage operation fails.
Abort ==
    /\ pc # "idle" /\ faults < MaxFault
    /\ faults' = faults + 1
    /\ End
    /\ UNCHANGED << repoVars, pgVars, clock, shifts >>
-----------------------------------------------------------------------------
\* A step of backup that changes nothing in the repository.
Plan == UNCHANGED << repoVars, pgVars, conf, adhoc, heads, trash, boundVars >>

\* Faulty variant of BackupLoad: a diff without a full stays a diff.
BackupLoadKind(o) ==
    /\ pc = "idle"
    /\ cur' = Reconstruct(info, manifest)
    /\ LET priors == Priors(cur', o.kind, pg)
       IN  \E prior \in IF priors = {} THEN {NoLabel} ELSE priors :
              job' = [NoJob EXCEPT !.prior = prior, !.time = clock, !.kind = o.kind,
                                   !.resume = o.resume]
    /\ pc' = "start"
    /\ Plan /\ UNCHANGED clock

\* cmdBackup(): a diff or incr without a backup to build on is made full.
\* With backup-full-incr the preliminary copy is made before the start.
BackupLoad(o) ==
    /\ pc = "idle"
    /\ cur' = Reconstruct(info, manifest)
    /\ LET priors == Priors(cur', o.kind, pg)
       IN  \E prior \in IF priors = {} THEN {NoLabel} ELSE priors :
              job' = [NoJob EXCEPT !.prior = prior, !.time = clock,
                                   !.kind = IF priors = {} THEN FullKind ELSE o.kind,
                                   !.resume = o.resume]
    /\ pc' = IF o.prelim /\ job'.kind = FullKind THEN "resume" ELSE "start"
    /\ Plan /\ UNCHANGED clock

\* backupStart(), and backupTime() that waits for the next second.
BackupStart ==
    /\ pc = "start" /\ clock < MaxTime
    /\ job' = [job EXCEPT !.start = pos]
    /\ clock' = clock + 1
    /\ pc' = IF job.label = NoLabel THEN "resume" ELSE "copy"
    /\ Plan /\ UNCHANGED cur

\* The newest directory, if it has no manifest.
Unfinished == {l \in Newest(dir) : l \notin Labels(manifest)}

Resumable(l) ==
    /\ job.kind = FullKind /\ job.resume
    /\ \E c \in copy : c.label = l /\ l.kind = FullKind /\ c.prior = job.prior

\* backupResumeFind(): the newest backup is resumed ...
BackupResume ==
    /\ pc = "resume"
    /\ \E l \in Unfinished :
        /\ Resumable(l)
        /\ job' = [job EXCEPT !.label = l]
    /\ pc' = "copy"
    /\ Plan /\ UNCHANGED << clock, cur >>

\* ... or removed ...
BackupRemove ==
    /\ pc = "resume"
    /\ \E l \in Unfinished :
        /\ ~Resumable(l)
        /\ copy' = {c \in copy : c.label # l}
        /\ dir' = dir \ {l}
    /\ pc' = "label"
    /\ UNCHANGED << info, manifest, history, wal, pgVars, clock, taskVars, boundVars >>

\* ... or complete.
BackupNew ==
    /\ pc = "resume" /\ Unfinished = {}
    /\ pc' = "label"
    /\ Plan /\ UNCHANGED << clock, cur, job >>

\* backupLabelCreate(): the labels a new one must come after.
NewestYear == {l \in history : \A m \in history : Year(m.full) <= Year(l.full)}
Compared ==
    dir \cup IF job.kind = FullKind THEN NewestYear
             ELSE {l \in NewestYear : l.kind # FullKind /\ \E m \in Newest(dir) : l.full = m.full}

LabelAt(t) ==
    IF job.kind = FullKind THEN [full |-> t, time |-> 0, kind |-> FullKind]
    ELSE [full |-> job.prior.full, time |-> t, kind |-> job.kind]

Later(l) == \A m \in Compared : Before(m, l)

BackupLabel ==
    /\ pc = "label"
    /\ \/ /\ Later(LabelAt(job.time))
          /\ job' = [job EXCEPT !.label = LabelAt(job.time)]
          /\ UNCHANGED clock
       \/ /\ ~Later(LabelAt(job.time)) /\ Later(LabelAt(job.time + 1))
          /\ clock < MaxTime /\ job.time < MaxTime
          /\ job' = [job EXCEPT !.label = LabelAt(job.time + 1)]
          /\ clock' = clock + 1
    /\ pc' = "copy"
    /\ Plan /\ UNCHANGED cur

\* ClockError
BackupLabelError ==
    /\ pc = "label"
    /\ ~Later(LabelAt(job.time)) /\ ~Later(LabelAt(job.time + 1))
    /\ End
    /\ UNCHANGED << repoVars, pgVars, clock, boundVars >>

CopyOfJob == {c \in copy : c.label # job.label} \cup {[label |-> job.label, prior |-> job.prior]}

\* backupManifestSaveCopy() and backupProcess(), which makes the directory.
BackupCopy ==
    /\ pc = "copy"
    /\ copy' = IF job.resume THEN CopyOfJob ELSE copy
    /\ dir' = dir \cup {job.label}
    /\ pc' = IF job.start = NoWal THEN "start" ELSE "stop"
    /\ UNCHANGED << info, manifest, history, wal, pgVars, clock, taskVars, boundVars >>

\* backupStop(): PostgreSQL switches the segment.
BackupStop ==
    /\ pc = "stop" /\ pos < MaxSeg
    /\ job' = [job EXCEPT !.stop = pos, !.end = clock]
    /\ pos' = pos + 1 /\ pend' = pend \cup {pos}
    /\ pc' = "check"
    /\ UNCHANGED << repoVars, pg, clock, cur, conf, adhoc, heads, trash, boundVars >>

Needed(b) == b.start..b.stop

\* backupArchiveCheckCopy() waits for the WAL of the backup.
BackupCheck ==
    /\ pc = "check"
    /\ Needed(job) \subseteq wal[pg]
    /\ pc' = "final"
    /\ Plan /\ UNCHANGED << clock, cur, job >>

\* archive-timeout
BackupTimeout ==
    /\ pc = "check"
    /\ ~(Needed(job) \subseteq wal[pg]) /\ faults < MaxFault
    /\ faults' = faults + 1
    /\ End
    /\ UNCHANGED << repoVars, pgVars, clock, shifts >>

\* backupComplete(): the last backup.manifest.copy, ...
BackupFinal ==
    /\ pc = "final"
    /\ copy' = CopyOfJob
    /\ pc' = "manifest"
    /\ UNCHANGED << info, manifest, dir, history, wal, pgVars, clock, taskVars, boundVars >>

\* ... backup.manifest, ...
BackupManifest ==
    /\ pc = "manifest"
    /\ manifest' = manifest \cup
        {[label |-> job.label, prior |-> job.prior, pg |-> pg, start |-> job.start,
          stop |-> job.stop, end |-> job.end]}
    /\ pc' = "history"
    /\ UNCHANGED << info, copy, dir, history, wal, pgVars, clock, taskVars, boundVars >>

\* ... the manifest in backup.history, ...
BackupHistory ==
    /\ pc = "history"
    /\ history' = history \cup {job.label}
    /\ pc' = "info"
    /\ UNCHANGED << info, manifest, copy, dir, wal, pgVars, clock, taskVars, boundVars >>

\* ... backup.info.  Then main() runs expire if expire-auto is set.
BackupInfo ==
    /\ pc = "info"
    /\ info' = cur \cup {b \in manifest : b.label = job.label}
    /\ \/ End
       \/ /\ pc' = "load" /\ cur' = {} /\ job' = NoJob
          /\ UNCHANGED << conf, adhoc, heads, trash >>
    /\ UNCHANGED << manifest, copy, dir, history, wal, pgVars, clock, boundVars >>
-----------------------------------------------------------------------------
\* cmdExpire(), with --set if l is a label.
Expire(l) ==
    /\ pc = "idle"
    /\ adhoc' = l
    /\ pc' = "load"
    /\ UNCHANGED << repoVars, pgVars, clock, cur, job, conf, heads, trash, boundVars >>

\* Faulty variant of Refused: the cluster of the other backup is not looked at.
RefusedOnly(S, l) ==
    LET fulls == Labels(OfKind(S, {FullKind})) IN l \in Newest(fulls) /\ fulls = {l}

\* expireAdhocBackup(): the last full backup of its cluster may not go.
Refused(S, l) ==
    LET fulls == Labels(OfKind(S, {FullKind}))
        PgOf(m) == {b.pg : b \in {c \in S : c.label = m}}
    IN  /\ l \in Newest(fulls)
        /\ \A m \in Newest(fulls \ {l}) : PgOf(m) # PgOf(l)

\* Retention does not apply when --set is given, found or not.
ExpireLoad(c) ==
    /\ pc = "load"
    /\ cur' = Reconstruct(info, manifest)
    /\ ~Refused(cur', adhoc)
    /\ heads' = CASE adhoc # NoLabel -> {adhoc} \cap Labels(cur')
                  [] adhoc = NoLabel /\ c.fullType = "count" -> FullExpired(cur', c)
                  [] adhoc = NoLabel /\ c.fullType = "time" -> TimeExpired(cur', c, clock)
    /\ conf' = [c EXCEPT !.archive = IF adhoc # NoLabel /\ c.fullType = "time" /\ c.archiveType = FullKind
                                     THEN c.archive ELSE ArchiveRetention(cur', c, clock)]
    /\ pc' = "full"
    /\ UNCHANGED << repoVars, pgVars, clock, job, adhoc, trash, boundVars >>

ExpireRefused ==
    /\ pc = "load"
    /\ Refused(Reconstruct(info, manifest), adhoc)
    /\ End
    /\ UNCHANGED << repoVars, pgVars, clock, boundVars >>

\* Faulty variant of Victim: oldest first.
VictimOldest == UNION {Oldest(Dependents(cur, h)) : h \in Oldest(heads)}

\* expireBackup(): of the oldest backup to expire and its dependents, the newest.
Victim == UNION {Newest(Dependents(cur, h)) : h \in Oldest(heads)}

\* The manifest goes, ...
RemoveManifest(p, q) ==
    /\ pc = p
    /\ \E l \in Victim : manifest' = Without(manifest, l)
    /\ pc' = q
    /\ UNCHANGED << info, copy, dir, history, wal, pgVars, clock, taskVars, boundVars >>

\* ... and its copy.
RemoveCopy(p, q) ==
    /\ pc = p
    /\ \E l \in Victim :
        /\ copy' = {c \in copy : c.label # l}
        /\ cur' = Without(cur, l)
        /\ heads' = heads \ {l}
    /\ pc' = q
    /\ UNCHANGED << info, manifest, dir, history, wal, pgVars, clock, job, conf, adhoc, trash, boundVars >>

\* expireDiffBackup() comes after the full backups.
ExpireDiffList ==
    /\ pc = "full" /\ heads = {}
    /\ heads' = IF adhoc = NoLabel THEN DiffExpired(cur, conf) ELSE {}
    /\ pc' = "diff"
    /\ UNCHANGED << repoVars, pgVars, clock, cur, job, conf, adhoc, trash, boundVars >>

\* removeExpiredBackup(): the newest directory stays if it may be resumed and
\* --set is given for another backup.
Skipped ==
    {l \in Newest(dir) :
        /\ adhoc # NoLabel
        /\ l \notin Labels(manifest)
        /\ \E c \in copy : c.label = l /\ (l.full = adhoc.full => c.prior \in Labels(cur))}

\* backup.info is saved before anything else is removed.
ExpireSave ==
    /\ pc = "diff" /\ heads = {}
    /\ info' = cur
    /\ heads' = dir \ (Labels(cur) \cup Skipped)
    /\ adhoc' = NoLabel
    /\ pc' = "dirs"
    /\ UNCHANGED << manifest, copy, dir, history, wal, pgVars, clock, cur, job, conf, trash, boundVars >>

RemoveDir ==
    /\ pc = "dirs"
    /\ \E l \in Newest(heads) :
        /\ heads' = heads \ {l}
        /\ dir' = dir \ {l}
        /\ copy' = {c \in copy : c.label # l}
        /\ manifest' = Without(manifest, l)
    /\ UNCHANGED << info, history, wal, pgVars, clock, pc, cur, job, conf, adhoc, trash, boundVars >>

\* removeExpiredArchive(): what goes is found with the directory listings.
ExpireArchiveList ==
    /\ pc = "dirs" /\ heads = {}
    /\ trash' = UNION {{p} \X ArchiveExpired(cur, conf.archiveType, conf.archive, p, pg, wal[p])
                        : p \in Pg}
    /\ pc' = "wal"
    /\ UNCHANGED << repoVars, pgVars, clock, cur, job, conf, adhoc, heads, boundVars >>

\* The oldest goes first, with the others of its path.
RemoveWal ==
    /\ pc = "wal"
    /\ \E t \in trash :
        /\ \A u \in trash : t[1] < u[1] \/ (t[1] = u[1] /\ t[2] <= u[2])
        /\ LET gone == {u \in trash : u[1] = t[1] /\ Path(u[2]) = Path(t[2])}
           IN  /\ trash' = trash \ gone
               /\ wal' = [wal EXCEPT ![t[1]] = @ \ {u[2] : u \in gone}]
    /\ UNCHANGED << info, manifest, copy, dir, history, pgVars, clock, pc, cur, job, conf, adhoc,
                    heads, boundVars >>

\* removeExpiredHistory(): years as a whole, and files of the first year kept.
RemoveHistory ==
    /\ pc = "wal" /\ trash = {}
    /\ LET min == IF clock > conf.history THEN clock - conf.history ELSE 0
           minLabel == [full |-> min, time |-> 0, kind |-> FullKind]
       IN  history' = {l \in history :
                /\ Year(l.full) >= Year(min)
                /\ Year(l.full) = Year(min) => l \in Labels(cur) \/ ~Before(l, minLabel)}
    /\ End
    /\ UNCHANGED << info, manifest, copy, dir, wal, pgVars, clock, boundVars >>
-----------------------------------------------------------------------------
Backups ==
    \/ \E o \in Options : BackupLoad(o)
    \/ BackupStart \/ BackupResume \/ BackupRemove \/ BackupNew
    \/ BackupLabel \/ BackupLabelError \/ BackupCopy \/ BackupStop
    \/ BackupCheck \/ BackupTimeout
    \/ BackupFinal \/ BackupManifest \/ BackupHistory \/ BackupInfo

Expires ==
    \/ \E l \in dir \cup {NoLabel} : Expire(l)
    \/ \E c \in Config : ExpireLoad(c)
    \/ ExpireRefused
    \/ RemoveManifest("full", "fullCopy") \/ RemoveCopy("fullCopy", "full")
    \/ ExpireDiffList
    \/ RemoveManifest("diff", "diffCopy") \/ RemoveCopy("diffCopy", "diff")
    \/ ExpireSave \/ RemoveDir
    \/ ExpireArchiveList \/ RemoveWal \/ RemoveHistory

Next ==
    \/ Tick \/ ClockBack \/ Switch \/ Upgrade \/ Abort
    \/ \E s \in Seg : Archive(s) \/ Drop(s)
    \/ Backups \/ Expires

Spec == Init /\ [][Next]_vars
-----------------------------------------------------------------------------
PcSet == {"idle", "start", "resume", "label", "copy", "stop", "check", "final", "manifest",
          "history", "info", "load", "full", "fullCopy", "diff", "diffCopy", "dirs", "wal"}

Job == [label : Label \cup {NoLabel}, prior : Label \cup {NoLabel}, kind : 0..2,
        time : 0..MaxTime, start : 0..MaxSeg, stop : 0..MaxSeg, end : 0..MaxTime,
        resume : BOOLEAN]

\* Types of the repository, of the cluster and of the command that runs.
TypeOK ==
    /\ info \subseteq Backup /\ manifest \subseteq Backup /\ cur \subseteq Backup
    /\ copy \subseteq [label : Label, prior : Label \cup {NoLabel}]
    /\ dir \subseteq Label /\ history \subseteq Label
    /\ wal \in [Pg -> SUBSET Seg] /\ pend \subseteq Seg /\ pos \in Seg /\ pg \in Pg
    /\ clock \in 1..MaxTime /\ pc \in PcSet /\ job \in Job
    /\ adhoc \in Label \cup {NoLabel} /\ heads \subseteq Label /\ trash \subseteq Pg \X Seg
    /\ faults \in 0..MaxFault /\ shifts \in 0..MaxShift

\* Whenever backup or expire is interrupted, the backups that have a
\* manifest can be restored: those they are built on are there, with their
\* files.
Restorable ==
    /\ Closed(manifest)
    /\ Labels(manifest) \subseteq dir

\* ... and PostgreSQL becomes consistent: the archive has every segment from
\* the start to the stop of the backup.
Consistent == \A b \in manifest : Needed(b) \subseteq wal[b.pg]

\* A retention rule never takes a full backup before its time: as many newer
\* ones as the rule asks for are complete, or one of them covers the whole
\* time period.
RetentionKept ==
    [][\A b \in OfKind(manifest, {FullKind}) \ manifest' :
        adhoc = NoLabel =>
            LET newer == Newer(OfKind(manifest', {FullKind}), b)
            IN  IF conf.fullType = "count" THEN Cardinality(newer) >= conf.full
                ELSE \E c \in newer : c.end + conf.full < clock]_vars

\* Neither retention nor --set leaves the cluster of the newest full backup
\* without a full backup.
LastFullKept ==
    [][\A b \in OfKind(manifest, {FullKind}) :
        b.label \in Newest(Labels(OfKind(manifest, {FullKind}))) =>
            \E c \in OfKind(manifest', {FullKind}) : c.pg = b.pg]_vars

\* Expire removes no segment that point-in-time recovery may replay from one
\* of the newest backups, as many as archive retention asks for, or from the
\* newest backup of a cluster.
PitrKept ==
    [][\A p \in Pg : \A s \in wal[p] \ wal'[p] : \A b \in manifest :
        /\ b.pg = p
        /\ \/ Cardinality(Newer(OfKind(manifest, 0..conf.archiveType), b)) < conf.archive
           \/ \A c \in Newer(manifest, b) : c.pg # p
        => s < b.start]_vars
=============================================================================
