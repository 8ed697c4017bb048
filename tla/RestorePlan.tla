----------------------------- MODULE RestorePlan -----------------------------
(***************************************************************************)
(* What restore decides before it touches the data directory               *)
(* (command/restore/restore.c, command/restore/timeline.c): the backup     *)
(* set, whether the target timeline can be reached, where links and        *)
(* tablespaces go, which databases are left out, and what PostgreSQL will  *)
(* read as its recovery settings.                                          *)
(*                                                                         *)
(* Each decision is a function of the options and the repository.          *)
(***************************************************************************)
EXTENDS Calls, Integers, SequencesExt, FiniteSetsExt, Functions

CONSTANTS
    SetCalls,       \* arguments of restoreBackupSet
    TimelineCalls,  \* of timelineVerify
    MapCalls,       \* of restoreManifestMap
    SelectCalls,    \* of restoreSelectiveExpression
    RecoveryCalls,  \* of restoreRecoveryWrite
    ReadCalls       \* files of one restoreFile call

\* The backups of backup.info, of which none is of a later cluster, and a
\* repository that is configured when one is asked for.
BackupType == [label : Nat \ {0}, pg : Nat, stop : Nat, lsn : Nat]
RepoType == [load : BOOLEAN, pg : Nat, backups : Seq(BackupType)]
ASSUME SetAssumption == \A a \in SetCalls :
    /\ a.repos \in Seq(RepoType)
    /\ a.option \in [type : STRING, target : Nat, set : Nat, repo : 0..Len(a.repos)]
    /\ \A r \in Range(a.repos) : \A b \in Range(r.backups) : b.pg <= r.pg

\* t and the timelines it descends from.
Descent(tree, t) ==
    {x \in 1..t : \A S \in SUBSET (1..t) :
        t \in S /\ (\A y \in S \cap DOMAIN tree : tree[y].timeline \in S) => x \in S}

\* A timeline begins on an earlier one, and a history file that is archived has
\* where each timeline of the line began.
ASSUME TimelineAssumption == \A a \in TimelineCalls :
    /\ a.backup \in Nat /\ a.lsn \in Nat
    /\ DOMAIN a.tree \subseteq Nat
    /\ \A x \in DOMAIN a.tree : a.tree[x].timeline \in 1..(x - 1) /\ a.tree[x].lsn \in Nat
    /\ \A t \in DOMAIN a.history :
          t \in Nat \ {0} /\ Range(a.history[t]) = {a.tree[x] : x \in Descent(a.tree, t) \cap DOMAIN a.tree}

\* Where a link to a target leads.
IsTblspc(t) == t.tblspc # None
Destination(t) == IF t.file = None THEN t.path ELSE Append(t.path, t.file)

\* The manifest of a backup has a link for each target but the data directory.
ASSUME MapAssumption == \A a \in MapCalls :
    /\ DOMAIN a.link = DOMAIN a.target
    /\ \A n \in DOMAIN a.target :
          /\ a.target[n] \in [path : Seq(STRING), file : STRING, tblspc : STRING, name : STRING]
          /\ IsTblspc(a.target[n]) => a.target[n].file = None
          /\ a.link[n] = Destination(a.target[n])
    /\ \A n \in DOMAIN a.linkMap : a.linkMap[n] \in Seq(STRING \ {None})

\* recovery_target options "should not be set" with --recovery-option
\* (build/help/help.xml).
RecoveryTargets == {"recovery_target", "recovery_target_lsn", "recovery_target_name",
                    "recovery_target_time", "recovery_target_xid"}

\* Faulty variant of TargetSettings: recovery_target itself is left in the file.
TargetSettingsFewer == (RecoveryTargets \ {"recovery_target"}) \cup {"recovery_target_timeline"}

TargetSettings == RecoveryTargets \cup {"recovery_target_action", "recovery_target_inclusive",
                                        "recovery_target_timeline"}

ASSUME RecoveryAssumption == \A a \in RecoveryCalls :
    /\ a.type \in {"none", "default", "immediate", "standby", "lsn", "time", "name", "xid"}
    /\ DOMAIN a.option \cap TargetSettings = {}

ASSUME ReadAssumption == \A a \in ReadCalls : a \in Seq([offset : Nat, limit : Nat, copy : BOOLEAN])
-----------------------------------------------------------------------------
(* The backup set.  A repository is [load, pg, backups]: whether            *)
(* backup.info can be loaded, the current database id and the backups by    *)
(* label, [label, pg, stop, lsn].                                           *)

Pitr == {"time", "lsn"}

\* Faulty variant of Reaches: the search passes over backups without LSN.
ReachesOlder(r, o, i) ==
    IF o.type = "time" THEN r.backups[i].stop <= o.target ELSE r.backups[i].lsn <= o.target

\* A backup that ends before the target, found from the newest to the oldest;
\* a backup without LSN ends the search.
Reaches(r, o, i) ==
    IF o.type = "time" THEN r.backups[i].stop < o.target
    ELSE /\ r.backups[i].lsn <= o.target
         /\ \A j \in i..Len(r.backups) : r.backups[j].lsn # 0

NoSet == 0          \* the repository has no answer
InvalidSet == -1    \* BackupSetInvalidError

BackupInRepo(r, o) ==
    LET At == DOMAIN r.backups
        reach == {i \in At : Reaches(r, o, i)}
    IN  IF ~r.load \/ At = {} THEN NoSet
        ELSE IF o.set # 0 THEN
            (IF \E i \in At : r.backups[i].label = o.set THEN o.set ELSE NoSet)
        ELSE IF o.type \in Pitr THEN
            (IF reach = {} THEN NoSet ELSE r.backups[Max(reach)].label)
        ELSE IF Last(r.backups).pg < r.pg THEN InvalidSet
        ELSE Last(r.backups).label

Searched(repos, o) == IF o.repo = 0 THEN DOMAIN repos ELSE {o.repo}

\* The first repository that has an answer decides.
RestoreBackupSet(repos, o) ==
    LET found == {i \in Searched(repos, o) : BackupInRepo(repos[i], o) # NoSet}
    IN  IF found = {} THEN [repo |-> 0, set |-> InvalidSet]
        ELSE [repo |-> Min(found), set |-> BackupInRepo(repos[Min(found)], o)]

BackupSet ==
    NoCall /\ \E a \in SetCalls : call' = Called("set", a, RestoreBackupSet(a.repos, a.option))
-----------------------------------------------------------------------------
(* Timelines.  The history file of timeline t lists the timelines it        *)
(* descends from and the LSN at which each was left.                        *)

TimelineLatest(history, backup) == Max(DOMAIN history \cup {backup})

TargetDefault(a) ==
    IF a.target # None THEN a.target
    ELSE IF ~a.guc \/ a.type = "immediate" THEN "current" ELSE "latest"

\* Faulty variant of TimelineFound: wherever the timeline was left.
TimelineFoundAny(items, backup, lsn) == \E i \in DOMAIN items : items[i].timeline = backup

TimelineFound(items, backup, lsn) ==
    \E i \in DOMAIN items : items[i].timeline = backup /\ lsn < items[i].lsn

TimelineVerify(a) ==
    LET asked == TargetDefault(a)
        target == IF asked = "latest" THEN TimelineLatest(a.history, a.backup) ELSE a.number
    IN  \/ asked = "current"
        \/ target = a.backup
        \/ target \in DOMAIN a.history /\ TimelineFound(a.history[target], a.backup, a.lsn)

Timeline == NoCall /\ \E a \in TimelineCalls : call' = Called("timeline", a, TimelineVerify(a))
-----------------------------------------------------------------------------
(* The links.  A target is [path, file, tblspc]: the directory a link       *)
(* leads to, the file in it or None, and the tablespace id or None.  The       *)
(* destination of a link is the sequence of its path components.            *)

TblspcAsked(a, n) ==
    {a.tblspcMap[k] : k \in DOMAIN a.tblspcMap \cap {a.target[n].tblspc, a.target[n].name}}

TblspcPath(a, n) ==
    LET name == a.target[n].name
        named == name \in DOMAIN a.tblspcMap
    IN  IF named THEN a.tblspcMap[name]
        ELSE IF a.target[n].tblspc \in DOMAIN a.tblspcMap THEN a.tblspcMap[a.target[n].tblspc]
        ELSE IF a.mapAll # << >> THEN Append(a.mapAll, name)
        ELSE a.target[n].path

TblspcMapError(a) ==
    LET spaces == {n \in DOMAIN a.target : IsTblspc(a.target[n])}
    IN  \/ \E n \in spaces : Cardinality(TblspcAsked(a, n)) > 1
        \/ \E k \in DOMAIN a.tblspcMap :
              \A n \in spaces : k \notin {a.target[n].tblspc, a.target[n].name}

\* A link that is mapped must be a link, a path or a file of the backup and no
\* tablespace, and a file needs a directory to be in.
LinkIsFile(a, n) ==
    IF n \in DOMAIN a.target THEN a.target[n].file # None ELSE n \in a.files

LinkMapError(a) ==
    \E n \in DOMAIN a.linkMap :
        \/ n \notin DOMAIN a.target \cup a.files \cup a.paths
        \/ n \in DOMAIN a.target /\ IsTblspc(a.target[n])
        \/ LinkIsFile(a, n) /\ Len(a.linkMap[n]) < 2

LinkTarget(a, n) ==
    LET to == a.linkMap[n]
    IN  [path |-> IF LinkIsFile(a, n) THEN Front(to) ELSE to,
         file |-> IF LinkIsFile(a, n) THEN Last(to) ELSE None, tblspc |-> None, name |-> None]

\* Links that are neither mapped nor restored with --link-all become files and
\* directories of the data directory.
KeptLink(a, n) == a.linkAll \/ n \in DOMAIN a.linkMap \/ IsTblspc(a.target[n])

MappedTargets(a) ==
    [n \in {t \in DOMAIN a.target : KeptLink(a, t)} \cup DOMAIN a.linkMap |->
        IF n \in DOMAIN a.linkMap THEN LinkTarget(a, n)
        ELSE IF IsTblspc(a.target[n]) THEN [a.target[n] EXCEPT !.path = TblspcPath(a, n)]
        ELSE a.target[n]]

\* Faulty variant of MappedLinks: the links of tablespaces stay as they are.
MappedLinksOld(a) ==
    [n \in {t \in DOMAIN a.link : KeptLink(a, t)} \cup DOMAIN a.linkMap |->
        IF n \in DOMAIN a.linkMap THEN a.linkMap[n] ELSE a.link[n]]

MappedLinks(a) ==
    [n \in {t \in DOMAIN a.link : KeptLink(a, t)} \cup DOMAIN a.linkMap |->
        IF n \in DOMAIN a.linkMap THEN a.linkMap[n]
        ELSE IF IsTblspc(a.target[n]) THEN TblspcPath(a, n)
        ELSE a.link[n]]

RestoreManifestMap(a) ==
    IF TblspcMapError(a) \/ LinkMapError(a) THEN [error |-> TRUE]
    ELSE [error |-> FALSE, target |-> MappedTargets(a), link |-> MappedLinks(a)]

ManifestMap == NoCall /\ \E a \in MapCalls : call' = Called("map", a, RestoreManifestMap(a))
-----------------------------------------------------------------------------
(* Selective restore.  A database is [id, name]; in an option it is given   *)
(* by either, and an id is tried first.                                     *)

SystemNames == {"postgres", "template0", "template1"}
FirstNormalObjectId == 16384

SystemDb(a) ==
    {d.id : d \in {d \in a.db : d.name \in SystemNames \/ d.id < FirstNormalObjectId}}
        \cup {i \in a.base : i < FirstNormalObjectId}

DbList(a) == a.base \cup {i \in SystemDb(a) : \E d \in a.db : d.id = i}

\* A name that is a number may be the id of another database.
DbId(a, x) ==
    IF x.id \in DbList(a) THEN x.id
    ELSE LET named == {d.id : d \in {d \in a.db : d.name = x.name}} \cap DbList(a)
         IN  IF named = {} THEN 0 ELSE CHOOSE i \in named : TRUE

DbIds(a, X) == {DbId(a, x) : x \in X}

SelectError(a) ==
    \/ DbList(a) = {}
    \/ 0 \in DbIds(a, a.exclude \cup a.include)
    \/ DbIds(a, a.include) \cap (SystemDb(a) \cup DbIds(a, a.exclude)) # {}

\* Faulty variant of Zeroed: what is excluded is forgotten when something is included.
ZeroedNoExclude(a) ==
    IF a.include = {} THEN DbIds(a, a.exclude)
    ELSE (DbList(a) \ DbIds(a, a.include)) \ SystemDb(a)

Zeroed(a) ==
    IF a.include = {} THEN DbIds(a, a.exclude)
    ELSE (DbList(a) \ DbIds(a, a.include)) \ (SystemDb(a) \ DbIds(a, a.exclude))

RestoreSelectiveExpression(a) ==
    IF a.include \cup a.exclude = {} THEN {}
    ELSE IF SelectError(a) THEN {0} ELSE Zeroed(a)

Selective == NoCall /\ \E a \in SelectCalls : call' = Called("select", a, RestoreSelectiveExpression(a))
-----------------------------------------------------------------------------
(* Recovery settings, as functions from setting to value.                   *)

TargetName(type) ==
    CASE type = "immediate" -> "recovery_target"
      [] type = "lsn" -> "recovery_target_lsn"
      [] type = "time" -> "recovery_target_time"
      [] type = "name" -> "recovery_target_name"
      [] type = "xid" -> "recovery_target_xid"

\* Settings that restore writes, as pairs of a name and a value.
Setting(when, k, v) == IF when THEN {<< k, v >>} ELSE {}
OwnSettings(a) ==
    LET pitr == a.type \in {"lsn", "time", "name", "xid"}
    IN  Setting(a.timeline = None /\ a.type = "immediate" /\ a.guc, "recovery_target_timeline", "current")
        \cup Setting(a.timeline # None /\ (a.guc \/ a.timeline # "current"), "recovery_target_timeline", a.timeline)
        \cup Setting(a.action \notin {None, "pause"}, "recovery_target_action", a.action)
        \cup Setting(pitr /\ a.exclusive, "recovery_target_inclusive", "false")
        \cup Setting(pitr, TargetName(a.type), a.target)
        \cup Setting(a.type = "standby" /\ ~a.guc, "standby_mode", "on")
        \cup Setting(a.type = "immediate", "recovery_target", "immediate")
        \cup Setting("restore_command" \notin DOMAIN a.option, "restore_command", "archive-get")
        \cup Setting(a.archiveOff, "archive_mode", "off")

\* They replace those of --recovery-option.
RestoreRecoveryOption(a) ==
    LET Of(k) == {s \in OwnSettings(a) : s[1] = k}
    IN  [k \in {s[1] : s \in OwnSettings(a)} \cup DOMAIN a.option |->
            IF Of(k) = {} THEN a.option[k] ELSE (CHOOSE s \in Of(k) : TRUE)[2]]

RecoveryError(a) ==
    \/ a.archiveOff /\ ~a.guc /\ a.type # "none"
    \/ a.guc /\ a.type # "none" /\ "standby_mode" \in DOMAIN a.option

\* recovery.conf is written anew; in postgresql.auto.conf the old targets are
\* commented out and the last of two equal settings counts.
RestoreRecoveryWriteConf(a) ==
    [setting |-> IF a.type = "none" THEN << >> ELSE RestoreRecoveryOption(a),
     signal |-> IF a.type = "none" THEN None ELSE "recovery.conf"]

RestoreRecoveryWriteAutoConf(a) ==
    LET new == IF a.type = "none" THEN << >> ELSE RestoreRecoveryOption(a)
    IN
    [setting |-> [k \in DOMAIN new \cup (DOMAIN a.old \ TargetSettings) |->
                    IF k \in DOMAIN new THEN new[k] ELSE a.old[k]],
     signal |-> IF a.type = "none" THEN None
                ELSE IF a.type = "standby" THEN "standby.signal" ELSE "recovery.signal"]

RestoreRecoveryWrite(a) ==
    IF RecoveryError(a) THEN [setting |-> << >>, signal |-> Error]
    ELSE IF a.guc THEN RestoreRecoveryWriteAutoConf(a) ELSE RestoreRecoveryWriteConf(a)

Recovery == NoCall /\ \E a \in RecoveryCalls : call' = Called("recovery", a, RestoreRecoveryWrite(a))
-----------------------------------------------------------------------------
(* Files of one bundle, [offset, limit, copy], are read with as few reads   *)
(* as the gaps allow: `left' is what the open read has left.                *)

\* Files i + 1 to n follow file i without a gap.
Adjoin(files, i, n) == \A j \in (i + 1)..n : files[j].offset = files[j - 1].offset + files[j - 1].limit

\* Bytes from the begin of file i to the end of file n.
Extent(files, i, n) == files[n].offset + files[n].limit - files[i].offset

\* Faulty variant of ReadLimit: a file that is preserved does not end the read.
ReadLimitAll(files, i) == Extent(files, i, Max({n \in i..Len(files) : Adjoin(files, i, n)}))

\* Bytes of the read that begins at file i: it has the files that follow and
\* are copied.
ReadLimit(files, i) ==
    Extent(files, i, Max({n \in i..Len(files) : Adjoin(files, i, n) /\ \A j \in (i + 1)..n : files[j].copy}))

\* File i is read where the open read has got to; without one a read begins.
FileRead(files, s, i) ==
    IF ~files[i].copy THEN s
    ELSE LET at == IF s.left = 0 THEN files[i].offset ELSE s.at
             left == IF s.left = 0 THEN ReadLimit(files, i) ELSE s.left
         IN  [from |-> [s.from EXCEPT ![i] = at], at |-> at + files[i].limit, left |-> left - files[i].limit]

RestoreRead(files) ==
    LET Upto[i \in 0..Len(files)] ==
            IF i = 0 THEN [from |-> [j \in DOMAIN files |-> -1], at |-> 0, left |-> 0]
            ELSE FileRead(files, Upto[i - 1], i)
    IN  Upto[Len(files)].from

Read == NoCall /\ \E a \in ReadCalls : call' = Called("read", a, RestoreRead(a))

RestorePlanNext == BackupSet \/ Timeline \/ ManifestMap \/ Selective \/ Recovery \/ Read
RestorePlanSpec == NoCall /\ [][RestorePlanNext]_call
-----------------------------------------------------------------------------
\* For a time or an LSN the set is a backup that ends before it, the newest of
\* its repository that can reach it; without one it belongs to the current
\* cluster.
EndsBefore(b, o) == IF o.type = "time" THEN b.stop < o.target ELSE b.lsn \in 1..o.target
IsRight(set, r, o) ==
    \E i \in DOMAIN r.backups :
        /\ r.load /\ r.backups[i].label = set
        /\ o.set = 0 /\ o.type \in Pitr =>
              EndsBefore(r.backups[i], o) /\ \A j \in DOMAIN r.backups : j > i => ~EndsBefore(r.backups[j], o)
        /\ o.set = 0 /\ o.type \notin Pitr => r.backups[i].pg = r.pg

\* restore never starts recovery from a backup that has to be replayed past the
\* target, nor from one of an earlier cluster (restoreBackupSet).
SetReachesTarget ==
    Returns("set") /\ call.result.set # InvalidSet =>
        IsRight(call.result.set, call.arg.repos[call.result.repo], call.arg.option)

\* PostgreSQL's rule (tliOfPointInHistory): replay reaches timeline t from
\* (b, lsn) when b is t, or an ancestor that the way to t leaves after lsn.
Reachable(tree, t, b, lsn) ==
    LET Up[x \in 1..t] ==
            \/ x = b
            \/ /\ x \in DOMAIN tree
               /\ tree[x].timeline = b => lsn < tree[x].lsn
               /\ Up[tree[x].timeline]
    IN  Up[t]

\* A restore is let through exactly when PostgreSQL can follow the timelines
\* from the backup to the target (timelineVerify).
TimelineReachable ==
    Returns("timeline") =>
        LET a == call.arg
            asked == TargetDefault(a)
            target == IF asked = "latest" THEN TimelineLatest(a.history, a.backup) ELSE a.number
        IN  call.result <=> \/ asked = "current"
                            \/ target = a.backup
                            \/ /\ target \in DOMAIN a.history
                               /\ Reachable(a.tree, target, a.backup, a.lsn)

\* After mapping every link leads to where its target is restored, a mapping
\* that was asked for is in effect, and no tablespace lost its link
\* (restoreManifestMap updates targets and links one by one).
MapConsistent ==
    Returns("map") /\ ~call.result.error =>
        LET a == call.arg
            m == call.result
        IN  /\ DOMAIN m.link = DOMAIN m.target
            /\ \A n \in DOMAIN m.link : m.link[n] = Destination(m.target[n])
            /\ \A n \in DOMAIN a.linkMap : n \in DOMAIN m.link /\ m.link[n] = a.linkMap[n]
            /\ \A n \in DOMAIN a.target :
                  IsTblspc(a.target[n]) => n \in DOMAIN m.link /\ TblspcAsked(a, n) \subseteq {m.link[n]}

\* A database that is asked for, by id or by name, and a system database that
\* is not excluded keep their files; one that is excluded is zeroed; with
\* --db-include so is every other (restoreSelectiveExpression).
SelectiveSafe ==
    Returns("select") /\ call.result # {0} =>
        LET a == call.arg
            excluded == DbIds(a, a.exclude)
        IN  /\ call.result \cap DbIds(a, a.include) = {}
            /\ call.result \cap SystemDb(a) \subseteq excluded
            /\ excluded \subseteq call.result
            /\ a.include # {} => DbList(a) \ (SystemDb(a) \cup DbIds(a, a.include)) \subseteq call.result

\* PostgreSQL refuses more than one recovery target: the one that was asked for
\* is the only one in effect, whatever an earlier restore has left in the file,
\* and a recovery with targets is signalled (restoreRecoveryWriteAutoConf).
OneTarget ==
    Returns("recovery") /\ call.result.signal # Error =>
        LET a == call.arg
            set == DOMAIN call.result.setting
        IN  /\ set \cap RecoveryTargets =
                   IF a.type \in {"none", "default", "standby"} THEN {} ELSE {TargetName(a.type)}
            /\ set # {} /\ "restore_command" \in set \ DOMAIN a.old => call.result.signal # None
            /\ a.timeline = None /\ "recovery_target_timeline" \in set => a.type = "immediate"
            /\ (call.result.signal = "standby.signal" \/ "standby_mode" \in set \ (DOMAIN a.option \cup DOMAIN a.old)) =>
                   a.type = "standby"

\* Each file of a bundle that is copied is read from its own place, whatever
\* files between them are preserved (restoreFile).
ReadFromOffset ==
    Returns("read") =>
        \A i \in DOMAIN call.arg :
            call.arg[i].copy => call.result[i] = call.arg[i].offset

\* What restore decides before it touches the data directory is right.
RestorePlanSound ==
    SetReachesTarget /\ TimelineReachable /\ MapConsistent /\ SelectiveSafe /\ OneTarget /\ ReadFromOffset
=============================================================================
