------------------------------ MODULE Retention ------------------------------
(***************************************************************************)
(* The decisions expire and backup take from backup.info, the manifests    *)
(* and the archive (command/expire/expire.c, info/infoBackup.c), as        *)
(* operators without state.                                                *)
(*                                                                         *)
(* A label is the time of its full backup, the time of the backup itself   *)
(* and its kind: 20240101F is [full |-> t, time |-> 0, kind |-> 0] and     *)
(* 20240101F_20240102D is [full |-> t, time |-> u, kind |-> 1].            *)
(***************************************************************************)
EXTENDS Naturals, FiniteSets

CONSTANT PathSize   \* WAL segments in one directory of the archive

ASSUME RetentionAssumption == PathSize \in Nat \ {0}

FullKind == 0
DiffKind == 1
IncrKind == 2
NoLabel == [full |-> 0, time |-> 0, kind |-> 0]
NoWal == 0          \* start and stop of a backup made with --no-online

\* The order of labels as strings.
Before(a, b) ==
    \/ a.full < b.full
    \/ a.full = b.full /\ a.time < b.time
    \/ a.full = b.full /\ a.time = b.time /\ a.kind < b.kind

Oldest(L) == {l \in L : \A m \in L : ~Before(m, l)}
Newest(L) == {l \in L : \A m \in L : ~Before(l, m)}

Labels(S) == {b.label : b \in S}
OfKind(S, kinds) == {b \in S : b.label.kind \in kinds}
Newer(S, b) == {c \in S : Before(b.label, c.label)}

\* Every backup is there with the ones it is built on.
Closed(S) == \A b \in S : b.prior = NoLabel \/ b.prior \in Labels(S)
-----------------------------------------------------------------------------
\* infoBackupDataDependentList(): l and what depends on it, directly or not.
Dependents(S, l) ==
    LET all == Labels(S) \cup {l}
        Complete(D) == l \in D /\ \A b \in S : b.prior \in D => b.label \in D
    IN  {m \in all : \A D \in SUBSET all : Complete(D) => m \in D}

\* infoBackupLoadFileReconstruct(): backup.info without the backups that
\* lost their manifest and their dependents, and with the complete backups
\* found in the repository.
Reconstruct(info, manifest) ==
    LET missing == Labels(info) \ Labels(manifest)
        kept == {b \in info : \A l \in missing : b.label \notin Dependents(info, l)}
        found == {b \in manifest : b.label \notin Labels(kept)}
        Valid(A) == \A b \in A : b.prior \in {NoLabel} \cup Labels(kept \cup A)
    IN  kept \cup UNION {A \in SUBSET found : Valid(A)}

\* backupBuildIncrPrior(): what a backup of this kind is built on.
Priors(S, kind, pg) ==
    CASE kind = FullKind -> {}
      [] kind = DiffKind -> Newest({b.label : b \in {c \in OfKind(S, {FullKind}) : c.pg = pg}})
      [] kind = IncrKind -> Newest({b.label : b \in {c \in S : c.pg = pg}})
-----------------------------------------------------------------------------
(* Configuration c: fullType, full, diff, archive and archiveType are the  *)
(* repo-retention options, 0 for one that is not set.                      *)

\* Faulty variant of FullExpired: one too many.
FullExpiredMore(S, c) ==
    {b.label : b \in {f \in OfKind(S, {FullKind}) :
        c.full > 0 /\ Cardinality(Newer(OfKind(S, {FullKind}), f)) >= c.full - 1}}

\* expireFullBackup()
FullExpired(S, c) ==
    {b.label : b \in {f \in OfKind(S, {FullKind}) :
        c.full > 0 /\ Cardinality(Newer(OfKind(S, {FullKind}), f)) >= c.full}}

\* Full backups that ended before the time period.
OlderThanPeriod(S, c, now) ==
    {f \in OfKind(S, {FullKind}) : c.full > 0 /\ f.end + c.full < now}

\* expireTimeBasedBackup(): those older than the newest of these.
TimeExpired(S, c, now) ==
    {b.label : b \in {f \in OfKind(S, {FullKind}) :
        Newer(OlderThanPeriod(S, c, now), f) # {}}}

\* expireDiffBackup(): full backups count but only differentials go.
DiffExpired(S, c) ==
    {b.label : b \in {d \in OfKind(S, {DiffKind}) :
        /\ c.diff > 0
        /\ Cardinality(Newer(OfKind(S, {FullKind, DiffKind}), d)) >= c.diff}}

\* repo-retention-archive with the default of cfgLoadUpdateOption() and, for
\* time-based retention, of expireTimeBasedBackup().
ArchiveRetention(S, c, now) ==
    CASE c.archive > 0 -> c.archive
      [] c.archive = 0 /\ c.archiveType = DiffKind -> c.diff
      [] c.archive = 0 /\ c.archiveType = FullKind /\ c.fullType = "count" -> c.full
      [] c.archive = 0 /\ c.archiveType = FullKind /\ c.fullType = "time" ->
            IF OlderThanPeriod(S, c, now) = {} THEN 0
            ELSE Cardinality(OfKind(S, {FullKind})) - Cardinality(TimeExpired(S, c, now))
      [] OTHER -> 0
-----------------------------------------------------------------------------
Path(s) == (s - 1) \div PathSize

\* Faulty variant of RetentionBackups: one too few.
RetentionBackupsFewer(S, archiveType, retention, p) ==
    {b \in OfKind(S, 0..archiveType) :
        b.pg = p /\ Cardinality(Newer(OfKind(S, 0..archiveType), b)) + 1 < retention}

\* localBackupArchiveRetentionList: the newest backups of archiveType are in
\* retention; these are the ones of cluster p.
RetentionBackups(S, archiveType, retention, p) ==
    {b \in OfKind(S, 0..archiveType) :
        b.pg = p /\ Cardinality(Newer(OfKind(S, 0..archiveType), b)) < retention}

\* archiveRetentionBackup: from the oldest of them on the archive stays, or
\* from the newest backup of the cluster.
PlaysFrom(S, archiveType, retention, p) ==
    LET local == {b \in OfKind(S, 0..archiveType) : b.pg = p}
        kept == RetentionBackups(S, archiveType, retention, p)
    IN  {b \in local : b.label \in IF kept = {} THEN Newest(Labels(local)) ELSE Oldest(Labels(kept))}

\* Faulty variant of MadeConsistent: the older backups are forgotten.
MadeConsistentNone(S, from, p) == {}

\* The other ranges of archiveRangeList: what makes older backups consistent.
MadeConsistent(S, from, p) ==
    {b \in S : b.pg = p /\ b.start # NoWal /\ \E f \in from : Before(b.label, f.label)}

\* removeExpiredArchive(): the segments of cluster p that go, of those in
\* the archive.  A path goes as a whole when no range reaches into it, and
\* single segments are looked for up to the path archive stays from.
ArchiveExpired(S, archiveType, retention, p, current, archive) ==
    LET global == OfKind(S, 0..archiveType)
        from == PlaysFrom(S, archiveType, retention, p)
        older == MadeConsistent(S, from, p)
        PathUsed(q) ==
            \/ \E f \in from : q >= Path(f.start)
            \/ \E b \in older : q >= Path(b.start) /\ q <= Path(b.stop)
        Used(s) ==
            \/ \E f \in from : s >= f.start
            \/ \E b \in older : s >= b.start /\ s <= b.stop
        Scanned(q) == \E f \in from : q <= Path(f.start)
    IN  CASE retention = 0 \/ Cardinality(global) < retention -> {}
          [] retention > 0 /\ Cardinality(global) >= retention /\ from = {} ->
                IF p = current THEN {} ELSE archive
          [] \E f \in from : f.start = NoWal -> {}
          [] OTHER -> {s \in archive :
                \/ ~PathUsed(Path(s))
                \/ Scanned(Path(s)) /\ ~Used(s)}
=============================================================================
