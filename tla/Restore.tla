------------------------------ MODULE Restore ------------------------------
(***************************************************************************)
(* restore: from the checks of the data directory to the rename of         *)
(* pg_control (command/restore/restore.c, command/restore/file.c).         *)
(*                                                                         *)
(* The data directory and the tablespaces are one function from entries to *)
(* contents.  Each change of an entry is a step; the command may be killed *)
(* or fail before any of them, and when the host crashes an entry that was *)
(* made or removed since its directory was synced may be back as it was.   *)
(* Whatever is left, PostgreSQL can be started on it when pg_control is    *)
(* there.                                                                  *)
(***************************************************************************)
EXTENDS Integers, SequencesExt, FiniteSetsExt, Functions

CONSTANTS
    Dir,        \* Dir[e]: directory of entry e
    Links,      \* directories that are links to tablespaces
    Backup,     \* [online, copyStart, file, path] of each backup set; file[f]
                \* is [ver, time, size, bundle, ref, offset, block]
    Changing,   \* files PostgreSQL changes
    Options,    \* [set, repo, delta, force, type, zero] a restore may have
    Clusters,   \* contents the data directory may have at first
    Clients,    \* number of workers
    Now,        \* time of what is written now
    Ordered,    \* changes of one directory last in the order they were made in
    FaultKinds, \* kinds of faults, "kill" and "host", that happen together
    MaxFault    \* bound on them

PgVersion == "PG_VERSION"
Control == "pg_control"
ControlTmp == "pg_control.tmp"
AutoConf == "postgresql.auto.conf"
Signal == "recovery.signal"
SavedManifest == "backup.manifest"
Pid == "postmaster.pid"

PgData == "pg_data"
Global == "global"

Entry == DOMAIN Dir
Path == Range(Dir) \ {PgData}           \* directories that are entries as well
Set == DOMAIN Backup
Client == 0..(Clients - 1)

Absent == 0
Partial == -1
Zero == -2
Live == 99      \* contents PostgreSQL makes
Nothing == [ver |-> Absent, time |-> 0, mark |-> "none"]
Made(v, t, k) == [ver |-> v, time |-> t, mark |-> k]

RecoveryType == {"default", "none", "preserve"}
EntryType == [ver : -2..Live, time : 0..Now, mark : {"other", "invalid"} \cup RecoveryType]
OptionType ==
    [set : Set, repo : 1..2, delta : BOOLEAN, force : BOOLEAN, type : RecoveryType, zero : SUBSET Entry]

ASSUME RestoreAssumption ==
    /\ MaxFault \in Nat /\ Ordered \in BOOLEAN /\ Clients \in Nat \ {0} /\ Now \in Nat
    /\ FaultKinds \subseteq SUBSET {"kill", "host"}
    /\ Options \subseteq OptionType /\ Options # {}

\* Where the entries are that restore knows by name.  None but global is a
\* directory.  A directory of the data directory stands for all below it.
ASSUME DirAssumption ==
    /\ {PgVersion, AutoConf, Signal, SavedManifest, Pid, Global, Control, ControlTmp} \cup Path \subseteq Entry
    /\ {PgVersion, AutoConf, Signal, SavedManifest, Pid, Control, ControlTmp} \cap Path = {}
    /\ \A e \in {PgVersion, AutoConf, Signal, SavedManifest, Pid, Global} : Dir[e] = PgData
    /\ \A e \in {Control, ControlTmp} : Dir[e] = Global
    /\ \A p \in Path : Dir[p] = PgData
    /\ IsFiniteSet(Entry) /\ Links \subseteq Path /\ PgData \notin Entry /\ Global \notin Links

\* A backup has all the directories of its files.  manifestBuildInfo leaves out
\* postmaster.pid and the signal files; what restore keeps while it works is
\* not there in a cluster that has pg_control, and only such a one is backed up.
ASSUME BackupAssumption ==
    /\ Set \subseteq 1..Live
    /\ \A s \in Set : LET b == Backup[s] IN
          /\ Global \in b.path /\ b.path \subseteq Path
          /\ PgVersion \in DOMAIN b.file
          /\ DOMAIN b.file \subseteq Entry \ (Path \cup {ControlTmp, Signal, SavedManifest, Pid})
          /\ \A x \in DOMAIN b.file \cup b.path : Dir[x] \in {PgData} \cup b.path
          /\ \A f \in DOMAIN b.file :
                b.file[f].ver \in 1..Live /\ b.file[f].time \in 0..Now /\ b.file[f].mark \in RecoveryType
          /\ b.copyStart \in 0..Now /\ b.online \in BOOLEAN

\* A directory that has pg_control or postmaster.pid was made by PostgreSQL.
ASSUME ClusterAssumption ==
    \A c \in Clusters :
        /\ c \in [Entry -> EntryType]
        /\ \A e \in Entry : c[e].ver = Absent => c[e] = Nothing
        /\ \A e \in Entry : Dir[e] \in Path \ Links /\ c[Dir[e]].ver = Absent => c[e] = Nothing
        /\ c[Control].ver # Absent \/ c[Pid].ver # Absent => c[PgVersion].ver # Absent

\* Files whose time and size are trusted: the time is before the copy of set s.
\* (PostgreSQL and restore write the contents of others.)
Timed(s) == DOMAIN Backup[s].file \ {Control, AutoConf}
Agrees(c, s, f) ==
    LET m == Backup[s].file[f]
    IN  c.ver # Absent /\ c.time = m.time /\ m.time < Backup[s].copyStart => c.ver = m.ver /\ c.mark = m.mark

\* --delta --force rests on it that a file is not changed without its time.
ASSUME TimeAssumption ==
    \A s \in Set : \A f \in Timed(s) :
        /\ \A c \in Clusters : Agrees(c[f], s, f)
        /\ \A r \in Set : f \in Timed(r) => Agrees(Backup[r].file[f], s, f)

VARIABLES
    ent,        \* contents of the entries
    disk,       \* what of them is sure to survive a crash of the host
    pc,         \* the next step of restore
    opt,        \* its options
    queue,      \* files that are not in a job yet, one queue per target
    work,       \* work[c]: the job of worker c
    sync,       \* directories that are still to be synced
    whole,      \* what PostgreSQL has left or a restore has finished
    kind,       \* the faults that happen
    faults      \* number of faults so far

vars == << ent, disk, pc, opt, queue, work, sync, whole, kind, faults >>

NoWork == [check |-> << >>, copy |-> << >>, open |-> FALSE]
NoOption == CHOOSE o \in Options : TRUE
NoJobs == [c \in Client |-> NoWork]
-----------------------------------------------------------------------------
(* The data directory.                                                      *)

Exists(e) == ent[e].ver # Absent

\* A change of an entry is sure to last when its directory is synced, one of
\* the contents of a file that was there when the file is closed.
Put(e, c) == ent' = [ent EXCEPT ![e] = c]
Kept(e) == IF disk[e].ver = Absent THEN disk ELSE [disk EXCEPT ![e] = ent'[e]]
Synced(d) == [e \in Entry |-> IF Dir[e] = d THEN ent[e] ELSE disk[e]]

\* What is in a directory is gone with it.
WithPaths(e) ==
    [x \in Entry |-> IF Dir[x] \in Path \ Links /\ e[Dir[x]].ver = Absent THEN Nothing ELSE e[x]]

\* Contents the entries may have after the host has crashed and those of S were
\* lost.  A rename happens or does not, and where the order of changes is kept
\* all that was done in global before it has happened as well.
AfterCrash ==
    LET lost == {e \in Entry : disk[e] # ent[e]}
        Whole(S) == {Control, ControlTmp} \subseteq lost => (Control \in S) = (ControlTmp \in S)
        InOrder(S) == Ordered /\ Exists(Control) /\ Control \in lost \ S => \A e \in S : Dir[e] # Global
    IN  {WithPaths([e \in Entry |-> IF e \in S THEN disk[e] ELSE ent[e]]) :
            S \in {S \in SUBSET lost : Whole(S) /\ InOrder(S)}}

\* PostgreSQL can be started.
Startable == Exists(Control) /\ ~Exists(Pid)
-----------------------------------------------------------------------------
(* The manifest of the backup that is restored, less the file that is       *)
(* preserved.                                                               *)

Manifest == Backup[opt.set]
Preserved == IF opt.type = "preserve" THEN {AutoConf, Signal} ELSE {}
File == DOMAIN Manifest.file \ Preserved

\* fileIgnore: entries the clean leaves alone.
Ignored == {SavedManifest} \cup Preserved

\* pg_control is restored under a temporary name.
PgPath(f) == IF f = Control THEN ControlTmp ELSE f

\* Sort order of a queue of set s, restoreProcessQueueComparator() from last to
\* first.
Before(s, f, g) ==
    LET x == Backup[s].file[f]
        y == Backup[s].file[g]
        RefLast(r) == IF r = 0 THEN Cardinality(Set) + 1 ELSE r
    IN  IF (x.size = 0) # (y.size = 0) THEN y.size = 0
        ELSE IF x.bundle # y.bundle THEN x.bundle < y.bundle
        ELSE IF x.bundle = 0 THEN x.size >= y.size
        ELSE IF x.ref # y.ref THEN RefLast(x.ref) < RefLast(y.ref)
        ELSE x.offset <= y.offset

\* The orders the sort may give a queue: files of one size, which it orders by
\* name, are in any.
Orders(s, S) ==
    {q \in [1..Cardinality(S) -> S] :
        Range(q) = S /\ \A i, j \in DOMAIN q : i < j => Before(s, q[i], q[j])}

\* One queue for the data directory and one for each tablespace, less the files
\* that are preserved.
Targets(s) == << PgData >> \o SetToSeq(Backup[s].path \cap Links)
FilesOf(s, p, t) ==
    {f \in DOMAIN Backup[s].file \ p : t = IF Dir[f] \in Links THEN Dir[f] ELSE PgData}
Queues(s, p) ==
    {q \in [DOMAIN Targets(s) -> UNION {Orders(s, FilesOf(s, p, t)) : t \in Range(Targets(s))}] :
        \A i \in DOMAIN Targets(s) : q[i] \in Orders(s, FilesOf(s, p, Targets(s)[i]))}
AllQueues == [s \in Set |-> [p \in {{}, {AutoConf, Signal}} |-> Queues(s, p)]]
ProcessQueues == AllQueues[opt.set][Preserved]

\* Faulty variant of QueueScan: the index is not advanced.
QueueScanFirst(c, k) == 1

\* The k-th queue client c looks at: even clients go forward, odd ones back
\* (restoreJobQueueNext).
QueueScan(c, k) ==
    LET n == Len(queue)
    IN  ((IF c % 2 = 0 THEN (c % n) + k - 1 ELSE (c % n) + n - k + 1) % n) + 1

\* The first n files of a queue make one job.
IsJob(q, n) ==
    LET head == Manifest.file[q[1]]
        Alike(i) == Manifest.file[q[i]].bundle = head.bundle /\ Manifest.file[q[i]].ref = head.ref
    IN  IF head.bundle = 0 THEN n = 1
        ELSE (\A i \in 1..n : Alike(i)) /\ (n < Len(q) => ~Alike(n + 1))
-----------------------------------------------------------------------------
Init ==
    /\ ent \in Clusters /\ disk = ent /\ whole = ent
    /\ pc = "idle" /\ opt = NoOption
    /\ queue = << >> /\ work = NoJobs /\ sync = {}
    /\ kind \in FaultKinds /\ faults = 0

At(p) == pc = p
Go(p) == pc' = p

\* The command ends and its workers with it.
End == pc' = "idle" /\ opt' = NoOption /\ queue' = << >> /\ work' = NoJobs /\ sync' = {}

Directory == << ent, disk, whole >>
Command == << opt, queue, work, sync >>
Fault == << kind, faults >>

\* Killed, or an operation failed.
Abort ==
    /\ pc # "idle" /\ "kill" \in kind /\ faults < MaxFault
    /\ faults' = faults + 1
    /\ End
    /\ UNCHANGED << Directory, kind >>

HostCrash ==
    /\ "host" \in kind /\ faults < MaxFault
    /\ faults' = faults + 1
    /\ \E e \in AfterCrash : ent' = e /\ disk' = e
    /\ End
    /\ UNCHANGED << whole, kind >>

\* PostgreSQL is started and stopped between restores.  It uses up
\* recovery.signal, makes pg_control valid and changes files.
PgStart ==
    /\ At("idle") /\ Startable
    /\ ent' = [ent EXCEPT ![Pid] = Made(1, Now, "none"), ![Signal] = Nothing,
                          ![Control].mark = "none"]
    /\ disk' = ent' /\ whole' = ent'
    /\ UNCHANGED << pc, Command, Fault >>

PgStop ==
    /\ At("idle") /\ Exists(Pid)
    /\ \E S \in SUBSET (Changing \cap {e \in Entry : Exists(e)}) :
          ent' = [e \in Entry |-> IF e = Pid THEN Nothing
                                  ELSE IF e \in S THEN Made(Live, Now, "none") ELSE ent[e]]
    /\ disk' = ent' /\ whole' = ent'
    /\ UNCHANGED << pc, Command, Fault >>
-----------------------------------------------------------------------------
(* Checks.                                                                  *)

\* Faulty variant of DeltaOf: --delta is believed for any directory.
DeltaAsGiven(o) == o

\* restorePathValidate(): --delta and --force only count in a directory that
\* looks like PostgreSQL's or like one an earlier restore has left.
DeltaOf(o) ==
    IF Exists(PgVersion) \/ Exists(SavedManifest) THEN o
    ELSE [o EXCEPT !.delta = FALSE, !.force = FALSE]

RestoreStart(o) ==
    /\ At("idle") /\ ~Exists(Pid)
    /\ opt' = DeltaOf(o)
    /\ Go("check")
    /\ UNCHANGED << Directory, queue, work, sync, Fault >>

\* Entries restore looks at: those of the data directory and of the
\* tablespaces of the backup.  Without --delta there must be none.
Looked == {e \in Entry \ Ignored : Exists(e) /\ Dir[e] \in {PgData} \cup Manifest.path}
Clean == opt.delta \/ opt.force
NotEmpty == Looked # {}

PathNotEmpty ==
    /\ At("check") /\ ~Clean /\ NotEmpty
    /\ End
    /\ UNCHANGED << Directory, Fault >>

CleanCheck ==
    /\ At("check") /\ (Clean \/ ~NotEmpty)
    /\ Go("control")
    /\ UNCHANGED << Directory, Command, Fault >>
-----------------------------------------------------------------------------
(* The clean.                                                               *)

\* pg_control goes first, for good, so that what follows cannot be started.
ControlRemove ==
    /\ At("control") /\ Exists(Control)
    /\ Put(Control, Nothing)
    /\ Go("controlSync")
    /\ UNCHANGED << disk, whole, Command, Fault >>

\* Faulty variant of ControlSync: the directory is not synced.
ControlSyncNone ==
    /\ At("controlSync")
    /\ Go("clean")
    /\ UNCHANGED << Directory, Command, Fault >>

ControlSync ==
    /\ At("controlSync")
    /\ disk' = Synced(Global)
    /\ Go("clean")
    /\ UNCHANGED << ent, whole, Command, Fault >>

ControlMissing ==
    /\ At("control") /\ ~Exists(Control)
    /\ Go("clean")
    /\ UNCHANGED << Directory, Command, Fault >>

\* Entries the manifest does not have, and links to another place.
Invalid ==
    {e \in Looked : IF e \in Manifest.path THEN ent[e].mark = "other" ELSE e \notin File}

\* A path goes with all that is in it, of a link only the link.
CleanRemove ==
    /\ At("clean")
    /\ \E e \in Invalid :
          ent' = [x \in Entry |-> IF x = e \/ (Dir[x] = e /\ e \notin Links) THEN Nothing ELSE ent[x]]
    /\ UNCHANGED << disk, whole, pc, Command, Fault >>

Missing == {p \in Manifest.path : ~Exists(p)}

CleanBuild ==
    /\ At("clean") /\ Invalid = {}
    /\ \E p \in Missing : Put(p, Made(1, Now, "none"))
    /\ UNCHANGED << disk, whole, pc, Command, Fault >>

\* Faulty variant of ManifestSave: the manifest is not kept for the next restore.
ManifestSaveNone ==
    /\ At("clean") /\ Invalid = {} /\ Missing = {}
    /\ queue' \in ProcessQueues
    /\ Go("jobs")
    /\ UNCHANGED << Directory, opt, work, sync, Fault >>

\* backup.manifest is written to a temporary file and the directory synced.
ManifestSave ==
    /\ At("clean") /\ Invalid = {} /\ Missing = {}
    /\ Put(SavedManifest, Made(opt.set, Now, "none"))
    /\ disk' = [e \in Entry |-> IF Dir[e] = PgData THEN ent'[e] ELSE disk[e]]
    /\ queue' \in ProcessQueues
    /\ Go("jobs")
    /\ UNCHANGED << whole, opt, work, sync, Fault >>
-----------------------------------------------------------------------------
(* The workers.                                                             *)

Idle(c) == work[c] = NoWork

\* restoreJobCallback()
JobCallback(c) ==
    /\ At("jobs") /\ Idle(c)
    /\ \E k \in DOMAIN queue :
          LET i == QueueScan(c, k)
          IN  /\ queue[i] # << >>
              /\ \A l \in 1..(k - 1) : queue[QueueScan(c, l)] = << >>
              /\ \E n \in DOMAIN queue[i] :
                    /\ IsJob(queue[i], n)
                    /\ work' = [work EXCEPT ![c].check = SubSeq(queue[i], 1, n)]
                    /\ queue' = [queue EXCEPT ![i] = SubSeq(@, n + 1, Len(@))]
    /\ UNCHANGED << Directory, pc, opt, sync, Fault >>

\* A file with the size and the time of the manifest may still have been
\* changed since, unless the time is before the copy.
SameTime(f, c) == c.time = Manifest.file[f].time /\ c.time < Manifest.copyStart
SameChecksum(f, c) == c.ver = Manifest.file[f].ver /\ c.mark = Manifest.file[f].mark

\* Faulty variant of Preserve: the time the backup began to copy does not count.
PreserveSameTime(f) ==
    /\ opt.delta /\ f \notin opt.zero /\ Exists(PgPath(f))
    /\ IF opt.force THEN ent[PgPath(f)].time = Manifest.file[f].time
                    ELSE SameChecksum(f, ent[PgPath(f)])

\* The file is left as it is: by time with --force, by checksum without.
Preserve(f) ==
    /\ opt.delta /\ f \notin opt.zero /\ Exists(PgPath(f))
    /\ IF opt.force THEN SameTime(f, ent[PgPath(f)]) ELSE SameChecksum(f, ent[PgPath(f)])

Content(f) == LET m == Manifest.file[f]
              IN  Made(IF f \in opt.zero THEN Zero ELSE m.ver, m.time, m.mark)

\* First all files of the job are looked at; zeroed ones are made at once.
FileCheck(c) ==
    /\ work[c].check # << >>
    /\ LET f == Head(work[c].check)
           e == PgPath(f)
       IN  \/ /\ Preserve(f)
              /\ Put(e, [ent[e] EXCEPT !.time = Manifest.file[f].time])
              /\ disk' = Kept(e)
              /\ work' = [work EXCEPT ![c].check = Tail(@)]
           \/ /\ f \in opt.zero
              /\ Put(e, Content(f))
              /\ disk' = Kept(e)
              /\ work' = [work EXCEPT ![c].check = Tail(@)]
           \/ /\ ~Preserve(f) /\ f \notin opt.zero
              /\ work' = [work EXCEPT ![c].check = Tail(@), ![c].copy = Append(@, f)]
              /\ UNCHANGED << ent, disk >>
    /\ UNCHANGED << whole, pc, opt, queue, sync, Fault >>

\* Then the others are truncated and written in place, ...
Copying(c) == work[c].check = << >> /\ work[c].copy # << >>

FileOpen(c) ==
    /\ Copying(c) /\ ~work[c].open
    /\ Put(PgPath(Head(work[c].copy)), Made(Partial, Now, "none"))
    /\ work' = [work EXCEPT ![c].open = TRUE]
    /\ UNCHANGED << disk, whole, pc, opt, queue, sync, Fault >>

\* Blocks of a file that was backed up in blocks are read from the default
\* repository, whichever the backup is in.
BlocksMissing(f) == Manifest.file[f].block /\ opt.repo # 1

\* Faulty variant of FileClose: the worker forgets that it has closed the file.
FileCloseOpen(c) ==
    /\ Copying(c) /\ work[c].open
    /\ LET f == Head(work[c].copy)
       IN  /\ ~BlocksMissing(f)
           /\ Put(PgPath(f), Content(f))
           /\ disk' = Kept(PgPath(f))
    /\ work' = [work EXCEPT ![c].copy = Tail(@)]
    /\ UNCHANGED << whole, pc, opt, queue, sync, Fault >>

\* ... synced and closed.
FileClose(c) ==
    /\ Copying(c) /\ work[c].open
    /\ LET f == Head(work[c].copy)
       IN  /\ ~BlocksMissing(f)
           /\ Put(PgPath(f), Content(f))
           /\ disk' = Kept(PgPath(f))
    /\ work' = [work EXCEPT ![c].copy = Tail(@), ![c].open = FALSE]
    /\ UNCHANGED << whole, pc, opt, queue, sync, Fault >>

\* An error of a job ends the command.
FileError(c) ==
    /\ Copying(c) /\ work[c].open /\ BlocksMissing(Head(work[c].copy))
    /\ End
    /\ UNCHANGED << Directory, Fault >>

JobsDone ==
    /\ At("jobs") /\ Range(queue) \subseteq {<< >>} /\ \A c \in Client : Idle(c)
    /\ Go("recovery")
    /\ UNCHANGED << Directory, Command, Fault >>
-----------------------------------------------------------------------------
(* Recovery settings and the end.                                           *)

\* restoreRecoveryWrite(): the file is written in place; targets it had are
\* commented out.
RecoveryOpen ==
    /\ At("recovery") /\ opt.type # "preserve"
    /\ Put(AutoConf, Made(Partial, Now, "none"))
    /\ Go("recoveryClose")
    /\ UNCHANGED << disk, whole, Command, Fault >>

AutoVer == IF AutoConf \in File THEN Manifest.file[AutoConf].ver ELSE 1

RecoveryClose ==
    /\ At("recoveryClose")
    /\ Put(AutoConf, Made(AutoVer, Now, opt.type))
    /\ disk' = Kept(AutoConf)
    /\ Go("signal")
    /\ UNCHANGED << whole, Command, Fault >>

RecoveryPreserve ==
    /\ At("recovery") /\ opt.type = "preserve"
    /\ Go("manifest")
    /\ UNCHANGED << Directory, Command, Fault >>

SignalWrite ==
    /\ At("signal")
    /\ IF opt.type = "none" THEN UNCHANGED ent ELSE Put(Signal, Made(1, Now, "none"))
    /\ Go("manifest")
    /\ UNCHANGED << disk, whole, Command, Fault >>

ManifestRemove ==
    /\ At("manifest")
    /\ Put(SavedManifest, Nothing)
    /\ sync' = ({PgData} \cup Manifest.path) \ {Global}
    /\ Go("sync")
    /\ UNCHANGED << disk, whole, opt, queue, work, Fault >>

\* Every directory but global is synced before pg_control gets its name ...
PathSync ==
    /\ At("sync")
    /\ \E d \in sync : disk' = Synced(d) /\ sync' = sync \ {d}
    /\ UNCHANGED << ent, whole, pc, opt, queue, work, Fault >>

ControlInvalidate ==
    /\ At("sync") /\ sync = {}
    /\ IF Exists(ControlTmp) /\ Manifest.online
       THEN Put(ControlTmp, [ent[ControlTmp] EXCEPT !.mark = "invalid"]) ELSE UNCHANGED ent
    /\ disk' = Kept(ControlTmp)
    /\ Go("rename")
    /\ UNCHANGED << whole, Command, Fault >>

ControlRename ==
    /\ At("rename")
    /\ ent' = IF Exists(ControlTmp) THEN [ent EXCEPT ![Control] = ent[ControlTmp], ![ControlTmp] = Nothing]
              ELSE ent
    /\ whole' = ent'
    /\ Go("globalSync")
    /\ UNCHANGED << disk, Command, Fault >>

\* ... and global after that.
GlobalSync ==
    /\ At("globalSync")
    /\ disk' = Synced(Global)
    /\ End
    /\ UNCHANGED << ent, whole, Fault >>
-----------------------------------------------------------------------------
Worker(c) == JobCallback(c) \/ FileCheck(c) \/ FileOpen(c) \/ FileClose(c) \/ FileError(c)

Step ==
    \/ PathNotEmpty \/ CleanCheck
    \/ ControlRemove \/ ControlSync \/ ControlMissing \/ CleanRemove \/ CleanBuild \/ ManifestSave
    \/ (\E c \in Client : Worker(c)) \/ JobsDone
    \/ RecoveryOpen \/ RecoveryClose \/ RecoveryPreserve \/ SignalWrite \/ ManifestRemove
    \/ PathSync \/ ControlInvalidate \/ ControlRename \/ GlobalSync

Next == Step \/ Abort \/ HostCrash \/ PgStart \/ PgStop \/ \E o \in Options : RestoreStart(o)

\* A command that was started goes on.
Spec == Init /\ [][Next]_vars /\ WF_vars(Step)
-----------------------------------------------------------------------------
\* The contents a restore with options o promises.  --delta --force trusts size
\* and time: it keeps what an earlier selective restore has zeroed.
Promised(e, o) ==
    LET m == Backup[o.set]
        kept == IF o.type = "preserve" THEN {AutoConf, Signal} ELSE {}
        Ver(f) == IF f \in o.zero THEN Zero ELSE m.file[f].ver
        Mark(f) == IF f = Control /\ m.online THEN "invalid" ELSE m.file[f].mark
        Trusted(f) == o.delta /\ o.force /\ e[f].ver = Zero
    IN  /\ \A f \in DOMAIN m.file \ {AutoConf} :
              /\ e[f].ver = Ver(f) \/ Trusted(f)
              /\ e[f].mark = Mark(f)
        /\ \A p \in m.path : e[p].ver # Absent /\ e[p].mark # "other"
        /\ \A x \in Entry \ (DOMAIN m.file \cup m.path \cup kept \cup {AutoConf, Signal}) :
              Dir[x] \in {PgData} \cup m.path => e[x] = Nothing
        /\ o.type # "preserve" =>
              e[AutoConf].mark = o.type /\ (e[Signal].ver # Absent) = (o.type # "none")

TypeOK ==
    /\ {ent, disk, whole} \subseteq [Entry -> EntryType]
    /\ opt \in OptionType
    /\ queue \in Seq(Seq(File))
    /\ work \in [Client -> [check : Seq(File), copy : Seq(File), open : BOOLEAN]]
    /\ \A c \in Client : work[c].open => work[c].copy # << >>
    /\ sync \subseteq {PgData} \cup Path
    /\ kind \in FaultKinds /\ faults \in 0..MaxFault

\* What PostgreSQL sees of the entries: not where no directory or link leads.
Seen(e) == [x \in Entry |-> IF Dir[x] \in Path /\ e[Dir[x]].ver = Absent THEN Nothing ELSE e[x]]

\* PostgreSQL can only be started on what it has left itself or on what a
\* restore has finished, whenever restore was killed and whatever a crash of
\* the host has brought back (pg_control goes first and comes last).
NeverHalfRestored == Startable => Seen(ent) = Seen(whole)

\* When pg_control gets its name the directory holds the backup and nothing
\* else: what was there before, an earlier restore that was interrupted or one
\* of another set leaves no trace (delta, restoreCleanBuild).
RestoredAsAsked == At("globalSync") => Promised(ent, opt)

\* restore only removes from a directory that looks like PostgreSQL's or that
\* it has begun to restore itself (restorePathValidate).
RemovesOwn ==
    \A e \in Entry : Exists(e) /\ ent'[e] = Nothing /\ faults' = faults =>
        Exists(PgVersion) \/ Exists(SavedManifest)
OnlyOwnDirectory == [][RemovesOwn]_vars

\* A restore that was interrupted after it had written files can be taken up
\* with --delta: backup.manifest or PG_VERSION is there.
CanContinue ==
    /\ At("idle") /\ kind = {"kill"} /\ ~Exists(PgVersion) /\ ~Exists(SavedManifest)
    => \A s \in Set : \A f \in DOMAIN Backup[s].file : ent[f] = whole[f]

\* Every restore comes to an end: no file is left in a queue no worker looks at.
Ends == pc # "idle" ~> pc = "idle"
=============================================================================
