# pgBackRest in TLA+

A specification of pgBackRest (`src/pgbackrest/src`, C, version 2.55dev): modules that model
its concurrent and crash-prone parts, TLC configurations that check them on
small instances, and TLAPS proofs of the properties that matter most. Paths
below are relative to `src/pgbackrest/src/`.

Everything else in the repository is notes and scripts about installing
PostgreSQL and is not modelled.

## The system

pgBackRest is a set of commands, not a server. A command runs, changes files
and ends. Whatever outlives it is in the repositories (backups and the WAL
archive of a stanza), in the spool directory of the PostgreSQL host (queues and
status files of the asynchronous archive commands), in the lock directory and
in PostgreSQL's own files. Commands meet only in these files, so what is hard is:
two commands, or a command and its asynchronous child, between each other's file
operations; commands killed between two of their own; repositories that fail
and come back; and files that say something about a state that has changed since.

| Part | State it keeps | Operations | What makes it correct | Module |
| --- | --- | --- | --- | --- |
| Advisory locks (`common/lock.c`, `command/lock.c`) | lock files, flocks, list of the process | acquire, write, read, release, `stop --force` | one holder of a lock; a process that ends leaves no lock | `Lock` |
| archive-push (`command/archive/push`) | spool `out/`: ok and error files; repositories | foreground, async process, workers | PostgreSQL recycles only what is archived; every segment is acknowledged | `ArchivePush`, `WalArchive` |
| archive-get (`command/archive/get`) | spool `in/`: segments, ok and error files | foreground, async process, workers | recovery ends only when a segment is really missing; never gets half a segment | `ArchiveGet` |
| backup and expire (`command/backup`, `command/expire`, `info/infoBackup.c`) | backup.info, manifests and their copies, directories, history, WAL | full, diff, incr, resume; retention, `--set` | what is listed can be restored; retention keeps its promises | `Retention`, `BackupExpire` |
| start and stop (`command/control`) | stop file | start, stop | commands refuse to run | in `Lock` and `ArchivePush` |
| stanza commands (`command/stanza`) | archive.info, backup.info | create, upgrade, delete | the two files agree on the clusters | `Stanza`; upgrade also in `BackupExpire` |
| info files (`info/info*.c`, `common/ini.c`) | a file and its copy, the backup list | load, save, reconstruct | one of the two is always whole; what is listed is there | `Stanza` |
| check, annotate (`command/check`, `command/annotate`) | - | report, archive and backup of the present cluster; change of annotations | it is content only with what the other commands need | `Stanza` |
| restore (`command/restore`) | data directory and tablespaces | clean, copy, pg_control last | an interrupted restore does not start; what is finished is the backup | `Restore`, `RestorePlan` |
| parallel executor and protocol (`protocol/`) | jobs, clients, sessions | process, result, open, request, close | every job ends once, with its own result | `Protocol` |
| manifest (`info/manifest.c`) | files, links, paths, targets, references | build, increment, resume, save, load | the whole cluster is in it; nothing refers to what is not stored | `Manifest`, `ManifestBuild`, `Convert` |
| backup workers (`command/backup/backup.c`, `file.c`) | queues, bundles, results | job callback, copy, result | each file is copied once, and found where the manifest says | `BackupPlan` |
| block incremental, page checksums (`blockMap.c`, `blockIncr.c`, `blockDelta.c`, `pageChecksum.c`) | blocks, super blocks, map | store, restore, verify | a chain of backups gives back the file | `Blocks` |
| verify (`command/verify`) | job lists, WAL ranges, status of backups | job callback, result | the report does not depend on the order of results | `Verify` |
| object storage and HTTP (`storage/s3`, `azure`, `gcs`, `common/io/http`) | connections, uploads, credentials | request, list, remove, write | an object is all or nothing; a list is complete | `ObjectStore` |
| configuration (`config/`) | options of a command | parse, load, exec | one rule decides each value; a child process sees the same | `Config` |
| memory contexts, errors, stack trace, exit (`common/memContext.c`, `error/error.c`, `stackTrace.c`, `exit.c`) | contexts, open tries | new, switch, free, throw, catch | an error frees what it leaves and loses nothing else | `Memory` |
| streams, filters, compression, encryption (`common/io`, `compress`, `crypto`) | buffers of a filter group | read, write, flush, close | what comes out does not depend on the sizes of buffers | `Streams` |
| info, repo and server commands | - | format or hand over | - | no |
| storage layer, sftp, sockets, TLS | - | wrappers of system calls and libraries | - | no |
| common types, exec, log, postgres, db, build, help | - | sequential or generated | - | no |

Interactions: every command first takes its locks (`Lock`); archive-push fills
the archive that archive-get, backup (which waits for its segments) and expire
(which removes them) use; backup runs expire in the same process under the same
lock; stanza-upgrade takes all locks and changes the database id that new
archives and backups are made under.

PROJECT.json lists the components with their sources and, under `hazards`, each
place where the code could go wrong in a way that tests hardly reach.

## Modules

`Lock` - each system call of `lockAcquire()`, `lockRead()` and `lockRelease()` is a
step of a process. A name refers to an inode, an inode has an flock and
contents, an unlinked inode stays open. Crash and exit drop flocks but not
names. `Exec` gives processes their exec-id, so that a child which finds a file
locked under its own exec-id takes it as held.

`ArchivePush` - the foreground (`fpc`), a supply of async processes (`apc`), the jobs of
workers (`job`), the status files (`okFile`, `errFile`), repositories, the archive lock,
the stop file, PostgreSQL (`ready`, `done`). Both modes are in it and
`ArchiveAsync` says which ones a run may switch between. One file operation or one
repository operation is one step. `fresh` is a history variable: the error files
written since the foreground forked. The lock is taken as one
variable here, with what `Lock` shows about two contenders.

`WalArchive` is the promise in three variables: what is acknowledged, stored and
given up. `ArchivePush` implements it (`ImplementsPromise`).

`ArchiveGet` - the same structure for recovery. A file in the queue is the set of
writers whose parts are in it, so that half a segment can be told from a whole one.
`absent` is a history variable: whether the segment the foreground was asked
for was missing from the archive at some moment of that command.

`Retention` has the decisions of expire and backup as operators without state:
what a retention rule expires, which WAL stays, what depends on what, what
`infoBackupLoadFileReconstruct()` makes of backup.info and the manifests, which
backup a new one builds on.

`BackupExpire` - one command at a time (they share the backup lock) that goes from one
storage operation to the next; `pc` names the next one. It may be killed before each.
PostgreSQL switches segments and archive-push stores them meanwhile. A label is
the time of its full backup, its own time and its kind, ordered as the strings are.

`Restore` - the data directory and its tablespaces are one function `ent` from entries to
contents. The command finds out what is there, removes what is not in the manifest, hands files to
workers and gives pg_control its name last. Every change of an entry is a step, and the command may
be killed before each. `disk` is what of the entries is sure to survive a crash of the host: an entry that
was made or removed since its directory was synced may be back as it was (`AfterCrash`). `Ordered` says of the file system
that what was done in one directory lasts in the order it was done in: without it a crash may keep the rename of pg_control
and lose another new file of global, which restore syncs after the rename only. PostgreSQL may be started at any time
that pg_control is there, which is what `NeverHalfRestored` is about. `Backup` and `Options`
say what is restored and how (`--delta`, `--force`, the type of recovery, databases that are left out).
`Orders` are the orders in which `ProcessQueues` may sort the files of a target: the larger one
first, and any order of files of one size, which `sortZ` leaves open. `Queues` are the orders of one target, `AllQueues` the
ways to choose one for each; `Targets` are the tablespaces and the rest; `QueueScan` is the order in which a client looks at them. The assumptions on the constants say where the files are that restore
knows by name (`DirAssumption`; a directory in the data directory stands for all that is below it), that a backup has PG_VERSION and every path of its files, and none of the files
restore makes itself (`BackupAssumption`: `info/manifest.c:1029` and the lines that follow leave out
postmaster.pid and the signal files; backup.manifest and the temporary name of pg_control are only in a directory
without pg_control, which cannot be backed up),
that a cluster with pg_control or postmaster.pid has PG_VERSION (`ClusterAssumption`), and that a file with
the time and the size of the backup has its contents, which `--delta --force` relies on (`TimeAssumption`).

The modules that follow are of code that runs in one process and meets others only through its
arguments or through answers. They share `Calls`: an action takes a call and its
arguments, the variable `call` keeps both and the result, and an invariant says what the
result must be. Code that works on an object over several calls (a session, a stream, a
memory context, a stanza in a repository) has the object in `call` (`Objects`), an action for each of its
operations, and the invariant holds after each of them, in every order.

`RestorePlan` - the decisions of restore before it changes anything. `SetReachesTarget`: recovery
never has to go past its target. `TimelineReachable`: a restore is let through exactly when
PostgreSQL can follow the timelines. `MapConsistent`: links lead to where their targets
are restored. `SelectiveSafe`: databases that are asked for, and system databases, keep their files.
`OneTarget`: one recovery target, whatever an earlier restore has left. `ReadFromOffset`: each file of
a bundle is read from its own place.

`Protocol` - client and server with their sessions, requests that are answered out of turn, errors
and blocks of a file in between (`OwnAnswers`, `SessionsReleased`); the parallel executor on top of
it (`AllJobsReturned`); retries of a job, parameters of remote processes, authorization (`ServerAnswers`).

`Manifest` - the packed form of a file in memory and the sections of the saved file with their defaults
(`MemoryKept`, `SavedKept`). `ManifestBuild` - the walk over the cluster (`WholeDisk`), the rules for
links (`LinksApart`), and what an incremental backup takes from the one before (`ChangesCopied`,
`ReferencesWhole`), and the annotations it keeps (`EmptyLeftOut`). `Convert` has the zigzag numbers that `Manifest` and `Blocks` use.

`BackupPlan` - queues and bundles (`JobsWhole`), the copy of each file by a worker on a disk that changes
meanwhile and what the results make of the manifest (`CopiesFound`), resume (`ResumeWorks`) and
what is settled at the start (`StartRight`). One backup follows another on the same
repository, with other options.

`Blocks` - a chain of backups of one file: stored map (`MapKept`), blocks that are stored
(`StoresChanges`), restore over any file that may be there (`DeltaRestores`), and page checksums
whatever the buffers (`PagesFound`).

`Verify` - jobs that end in any order: errors of the command (`ErrorsTrue`), WAL ranges (`RangesTrue`),
status of every backup (`StatusTrue`).

`Stanza` - the two info files with their copies, over sequences of create, upgrade, delete and backup that
may be killed between two files, with files that get lost or damaged (`StanzaKept`); loading one
of two files (`InfoErrorTrue`), the ini format (`InfoReadBack`), the backup list against the
manifests, annotate (`ListRestorable`), check (`CheckTells`).

`ObjectStore` - the HTTP client with sessions that are used again after errors (`OwnReplies`), content
and multipart content (`ContentWhole`), lists over several pages and at a time (`ListedAsOf`),
removal in batches (`AllRemoved`), uploads in parts with answers that get lost (`UploadsWhole`),
credentials that run out (`CredentialsGood`), what is signed (`RequestsSigned`). `RequestsSound` is what
is proved of it (`OwnReplies`, `UploadsWhole`, `CredentialsGood`), `ObjectStoreSound` the rest.

`Config` - names (`NamesFound`), numbers (`NumbersFit`), files (`FilesAsked`), the source of
every value, dependencies and indexes (`ValuesRight`), values that follow from others (`UpdateKeeps`),
and the parameters of processes that are started (`ChildSame`).

`Memory` - a program is any nesting of memory context blocks and of try, catch and finally. An
error leaves them: `ProgramSound` says which contexts are left and which one is current, that each
callback ran once and that the error is the one that was thrown. Also allocation lists, the layout of a
context, parameters of the stack trace in their buffer and the code of the process at its end.

`Streams` - readers and writers with filter groups, where each call may find any number of items in
any buffer (`ReadSound`, `WriteSound`, `CopySound`, `DrainSound`), filters that are moved to the remote
side (`RemoteSound`), waiting for a descriptor (`FdReadySound`).

`MCPlan` puts these together for TLC. Its variable `part` is the module whose calls are made: there is one
initial state for each, and the parts do not meet. Each module has one invariant, named after it
(`StreamsSound`), which is the conjunction of the named parts above; only `StanzaKept` is checked on its own, as it is proved.

`MCLock`, `MCArchivePush` and the other modules that begin with MC have the model values and
the definitions that the `.cfg` files use. A definition whose comment starts with
"Faulty variant" is used by no specification: it is a defect that the code could
have, and PROJECT.json names the property that finds it.

## Runs

| Run | Checks | Shows |
| --- | --- | --- |
| `lock` | TypeOK, MutualExclusion, NoResidue, FlockOwned | with two contenders for a file exclusion holds, nothing is left behind, a listed lock is really held |
| `lock_three` | MutualExclusion fails | finding: with three contenders it does not |
| `push` | TypeOK, AckedIsArchived, OkKeptUntilAcked, ErrorIsFresh, ImplementsPromise | safety of archive-push in both modes |
| `push_live` | EveryReadyIsAcked | every ready segment is acknowledged |
| `get` | TypeOK, MissingIsMissing, ErrorIsFresh | a segment that is archived is not reported missing |
| `get_live` | EveryArchivedIsReplayed, MovedIsWhole | recovery goes on, with whole segments |
| `get_warn` | MissingIsMissing fails | finding: an ok file with warnings that comes before its segment is read as missing |
| `backup` | TypeOK, Restorable, Consistent, RetentionKept, LastFullKept, PitrKept | safety of backup and expire under one fault |
| `backup_stale` | Consistent fails | finding: with two faults backup.info has the WAL range of another backup |
| `restore` | TypeOK, NeverHalfRestored, RestoredAsAsked, CanContinue, OnlyOwnDirectory, Ends | safety of restore under one kill or one crash of the host, after each of which PostgreSQL may start; every restore ends |
| `restore_zombie` | NeverHalfRestored fails | finding: a kill and then a crash of the host bring pg_control back |
| `plan` | RestorePlanSound, ProtocolSound, VerifySound, BlocksSound, ManifestSound, BackupPlanSound, RequestsSound, ObjectStoreSound, StanzaKept, StanzaSound, ConfigSound, MemorySound, StreamsSound | what each decision returns and each object does is what its callers rely on |

Every run is an exhaustive search of its instance.

## Bounds

- `lock`: three processes, one reader, three files, four inodes. Two processes
  contend for each file, one of them twice over the exec-id of a third. Every
  process runs one command. Inodes are reused when free; a process that has to create a file while all four are
  in use waits until one is free. The theorems of `LockProof` are about any number of inodes.
- `push`: two segments, two repositories, two async processes with one worker each, a
  queue limit of one segment, one fault (kill, outage, stop file or I/O error). Two async
  processes are what the release of the lock before the fork makes possible; a
  second fault adds states but no new step. `push_live` has one segment, one repository, two async processes, two
  faults and no limit, and every command runs in the asynchronous mode.
- `get`: three segments and a queue of two, so that the queue wraps past what
  PostgreSQL asks for. Two of the segments are archived, and every command runs in the asynchronous mode. `get_live` has two
  segments, two repositories, both modes and an archive that has nothing at first and gets one segment; `get_warn` has two
  repositories one of which fails.
- `backup`: four seconds and four segments in directories of two, two clusters, one
  step of the clock backwards, one fault. Each backup takes a second and a segment, so there
  are three complete backups and expire in between. `Busy` names the steps before which the
  clock and PostgreSQL may go on: between two commands, between the start and the stop of a backup,
  and while backup waits for WAL. The other steps of a command either do not look at the clock, `pos`
  and the archive or follow such a step with nothing of theirs in between. `Configs` has two settings: retention by
  count, with archive retention by incr backups, and retention by time, with archive retention by full backups.
  `backup_stale` has a longer clock and two faults because its history
  needs them, and fewer settings.
- `restore`: two backups, the first offline, with its postgresql.auto.conf and a bundle of three files one of which is in blocks, the
  second online with a tablespace, a bundle and a file of the first; four sets of options, so that each restore may follow one with other options;
  a data directory that is empty, a cluster or something else; a file in global, one in the tablespace and a directory
  no backup has; two workers; one fault; `Ordered`.
  `restore_zombie` has one worker and both kinds of fault.
- `plan`: the arguments are small sets in the MC modules, chosen so that each branch of the code is
  taken: up to three repositories, four timelines, four files of a bundle, two clients with three jobs and three
  sessions, three backups in a chain with files of at most ten units, three requests on
  an HTTP client, three clusters of a stanza with two kills and one damaged file.
  Some constants of the code are smaller there because what matters is on which side of them a value
  is: a block has two units (`BlockSize`), a part of an upload two (`PartSize`),
  a block of the cipher two (`CipherUnit`, 16 bytes), a number at most three digits (`MaxDigits`, 10), a
  list of children begins with one place (`InitialSize`, 4), two tries may be open (`TryMax`, 64), the
  buffer of the stack trace has 40 characters, and in `MCConfig` a kilobyte is 4 and the largest number 200.
  Buffers of streams have one to four items.

The runs of `Lock`, `ArchivePush`, `ArchiveGet`, `BackupExpire` and `MCPlan` switch deadlock checking off: commands end, and
the bounded clock and WAL run out. Those of `Restore` do not.

## Fairness

`push_live` and `get_live` assume some (`FairSpec`). The operating system runs
every process that can run (weak fairness of the foreground, of each async process, of
each job). PostgreSQL repeats its archive command and asks again for a segment it did not
get. Outages end and the administrator starts what was stopped (weak fairness of `RepoUp`,
`CmdStart`). The foreground's timeout is strongly fair: it is enabled whenever the
foreground waits, it is not continuously enabled because the foreground also looks at
the status files, and `waitMore()` does end. That an async process loads at some time when the
lock is free is strongly fair too, for the foreground takes the lock for a moment
only. Nothing is assumed of kills, outages and timeouts of repositories: they are bounded
in number.

`restore` assumes that a command which was started goes on (weak fairness of `Step`), so that `Ends` says
that its queues and its steps come to an end. Neither the start of a restore nor a fault is fair.

## Proofs

TLC looks at a few segments, backups, files and processes. TLAPS proves for any number of them what
is listed here. Each proof module EXTENDS the module it is about; lemmas named after an action
say what that action does to one part of the invariant. An invariant was first checked by TLC on the instance of its run.

| Module | Theorem | Says | Hypotheses |
| --- | --- | --- | --- |
| `LockProof` | TypeCorrect, ListedIsOwned, NothingLeft | TypeOK, FlockOwned, NoResidue | - |
| | Excluded | MutualExclusion | `TwoContenders` |
| `ArchivePushProof` | TypeCorrect, AckedSafe, PromiseImplemented, OkKept, FreshErrors | TypeOK, AckedIsArchived, ImplementsPromise, OkKeptUntilAcked, ErrorIsFresh | - |
| `ArchiveGetProof` | TypeCorrect, FreshErrors | TypeOK, ErrorIsFresh | - |
| | WholeMoved | MovedIsWhole | `NoOverlap` |
| | MissingNotArchived | MissingIsMissing | `NoWarnings`, `SteadyArchive` |
| `BackupExpireProof` | TypeCorrect, FilesKept | TypeOK, half of Restorable | - |
| | Recoverable | Restorable | while `shifts = 0` |
| | WalKept | Consistent | `Trusted`, while `shifts = 0` |
| | RetentionHeld, LastFullHeld, PitrHeld | RetentionKept, LastFullKept, PitrKept | `Trusted`, `MaxShift = 0` |
| `RestoreProof` | TypeCorrect, Restored, RemovesOnlyOwn, CanBeContinued | TypeOK, RestoredAsAsked, OnlyOwnDirectory, CanContinue | - |
| | NotHalfRestored | NeverHalfRestored | only kills, or only crashes of the host and `Ordered` |
| | RestorePlanAlways | RestorePlanSound | - |
| `StanzaProof` | StanzaAlways | StanzaKept | - |
| `ProtocolProof` | ProtocolAlways | ProtocolSound | `~FreeEarly` |
| `ObjectStoreProof` | ObjectStoreAlways | RequestsSound | - |

The assumptions are the named `ASSUME`s of the modules, which TLC evaluates in the runs, and
the hypotheses above. No proof rests on the bounds: they are any natural numbers.

### Locks

`IInv` adds to the types that a process lists an inode once (`Distinct`), or releasing one entry
would drop the flock of another, and that an opened inode is only open between the steps that use
it (`Shape`). `ListedIsOwned` follows whatever names are removed, whoever crashes, and however many contend.

`NamesInv` is about names. While somebody has an inode open no two names refer to it (`OneName`), because
only a free inode gets a new name. Each name has somebody who will remove it (`Attended`): its
owner, or one that is between its open and its flock; a name is only left alone
by a crash or an error, or found by a reader that has the flock, which `NoResidue` excepts. From this comes `NothingLeft`. The name of a lock a process holds refers to the inode it has locked
until another one that wants the same name is releasing it or has ended, or `stop --force` has removed it (`Linked`): only an
owner removes a name, and who removes it has had its turn. With two contenders both of which hold a lock
neither has, so the name refers to the inodes of both, which are the same. That is `Excluded`. `TwoContenders` is needed: run `lock_three` has three and exclusion fails.

### archive-push

`AckedIsArchived` is not inductive: a segment becomes acknowledged because of an ok file, an ok
file is written because a job ended without an error, and the job knows only what it has done itself. `IInv` follows
this chain: what is acknowledged, has an ok file or was just pushed is safe (`StatusSound`); a job without an error
has left behind only repositories that have its segment (`JobSound`); the foreground's job is for its own segment
(`FgJob`). With it every step of archive-push is a step of `WalArchive` or a stutter.

`OkKept`: an async process lists the ok files first and what is ready later, and removes an ok file whose
segment is not among the latter. Nothing is lost because what archive-push works on was ready once and only PostgreSQL takes it
from there, when it acknowledges it (`KnownInv`). `FreshErrors`: the error files that
the foreground may read after it has forked are younger than the fork, because it has removed older ones under the archive
lock (`ErrorsFresh`).

### archive-get

`FreshErrors`: the foreground empties the queue of errors before it forks, under the archive lock.

`WholeInv` for `WholeMoved`: no two workers of a process have the same segment (`JobsApart`), only the process that has the lock has jobs
(`Holders`, `Attended`), so the temporary file of a job that writes has nothing of another in it and is whole when the job is done
(`TmpWhole`); what was found in the queue stays there until it is moved (`FoundQueued`). The workers of a killed async process may live
on next to those of another one; `NoOverlap` says that there are no kills, or that an async process is begun
after the workers of the last one are done. The code does not see to it: it is among the findings.

`MissingInv` for `MissingNotArchived`: an ok file in the queue, and a foreground that reads one, are for a segment that is not archived
(`MissingNoted`), because who notes it as missing has asked all repositories. `NoWarnings` (no
repository fails, or there is one) is needed: without it an ok file carries a warning and says nothing about the segment, which is
what run `get_warn` shows. With `SteadyArchive` the archive does not grow under an old ok file.

### backup and expire

`BackupInv` for `Recoverable`: labels come after every label that is known, so that a label is made
once and has the same prior wherever it is listed (`OnePrior`, `Ordered`, `Past`, `Fresh`); what a backup in the making is built on
is there (`BuiltOn`); expire lists every complete backup before it removes one (`Listed`) and what it removes
last has no dependents (`Kept`). If the clock goes back a label may be older than what is known, which is why `Good` is only
claimed while it has not. That files do not go before their manifest (`FilesKept`) holds even then.

`RetentionInv` adds what a removal needs to be right about: that backup.info says of every backup what its manifest
says (`Agreed`, `Same`), that every backup depends on the full backup of its label and of its cluster (`Rooted`),
that later labels do not start earlier in the WAL (`Positions`), that full backups are removed oldest first and
those that were counted are spared (`Expiring`), and that WAL which is about to be removed is neither needed by nor replayed from
any backup (`Archived`). The heart of it is the lemma `ArchiveKeeps` about `ArchiveExpired`: whatever kind of backup retention
counts, the ranges that are removed leave out what `MadeConsistent` lists and what comes after the first backup that is counted.

`Trusted` says that no backup is resumed, or at most one fault happens. It is needed for `Consistent`: run `backup_stale` has
two faults and a resume, after which backup.info is about another backup of the same label, and `Agreed` fails. That retention by count
and `--set` would fail with it too was not seen by TLC; the proof of theirs does not hold without `Agreed`.
The three action properties are proved for a clock that is never set back, as their text does not mention `shifts`.

### restore

`NotHalfRestored`, for kills: pg_control is removed before anything else and no entry changes while it has its
name, except by PostgreSQL (`ControlAway`, `Untouched`). For crashes of the host, however many: as long as pg_control has its
name, what is on disk is what is seen, but for entries of directories that are gone (`Steady`). From its removal until that is
synced a crash may bring back pg_control and nothing else; from then on it cannot be brought back (`Guarded`) until it is renamed. By then
every directory of the backup but global is synced (`InSync`), and a crash either loses the rename or, where
the order of changes is kept, loses nothing of global. All this is `CrashSafe`, which TLC has checked with two crashes.
Both kinds of fault together break it: run `restore_zombie`.

`RestoreInv` for the other three has the command's work in it. After the clean-up the directory has nothing but
entries of the manifest, and each path (`Clear`). While jobs run each file is done or still in a queue or a job (`Pending`); `Done` includes a file that
is there with the time and size of the backup, which has its contents (`Timely`). When the queues are empty all are done
(`FilesDone`), and what follows changes only the files of recovery (`Settled`), until pg_control is renamed. For `RemovesOnlyOwn`
and `CanBeContinued`: as long as neither PG_VERSION nor backup.manifest is in the directory none of the backup's files has
been touched (`NotBegun`), a restore which goes on was allowed to (`Allowed`), and PG_VERSION is not lost
by a crash of the host wherever pg_control may be (`Lasting`, `OfPostgres`): restore syncs its directory before it renames pg_control.

`RestorePlanAlways` is about `RestorePlanSpec`, any sequence of decisions. `Answered` says that what a call returned is what the function gives for its
arguments; then there is a lemma for each function, for arguments of any size, under the assumptions of `RestorePlan` on its arguments: a later
cluster has a greater database id (`SetAssumption`), a history file has where each timeline of the line began (`TimelineAssumption`), the manifest has a link for each target
and it leads there (`MapAssumption`), recovery targets are not given with `--recovery-option`, which its help forbids (`RecoveryAssumption`).

- `TimelineRight`: PostgreSQL's rule is recursive, the code looks for one line of a history file. `Way` says that a history
  file has it, and is shown to be the one solution of the recursive rule (`WayStep`, `ReachableIs`), from what the descent of a timeline is made of (`DescentStep`).
- `ReadRight`: `ReadInv` says that what an open read has left begins with the next file, which is copied, and is as long as a read that would begin there (`ReadGoesOn`).
  With it each file is read from its own place, however many are preserved in between.
- `RecoveryRight`: the settings that restore writes have at most one recovery target (`OwnNames`, `TargetWritten`), and nothing of the old file or of `--recovery-option` adds one.

### stanza

`StanzaAlways` is about `StanzaNext`, the steps of the commands and what else may happen to the files of a stanza, for any clusters, upgrades,
faults and kills. What it claims, `StanzaKept`, is for the most part about a command that has ended, and is not inductive: while a command is at work
the files differ. `StanzaInv` therefore speaks of the files as they will be when what is still to do (`todo`) is done or is cut
off anywhere. `Alive` are all the contents a file may still have, `Final` those it has when nobody kills the command.

- A command writes archive.info before backup.info and each before its copy, or removes them in that order (`Orderly`). So
  at any moment a copy that can be read is its main file or an older one (`CopyBehind`; the same one when
  a command has ended and none was killed, `CopyEqual`), and backup.info has seen at most one cluster less than archive.info and never more (`BackupBehind`). The latter is
  claimed while no command was killed, or while no file was damaged and both main files are there: a copy that is used in place of its main file may be
  any number of upgrades old. While there is an archive.info, backup.info goes before its copy only by damage (`MainLast`, `RemoveOrder`).
- All histories are parts of one (`OneHistory`, `HistoriesNumbered`), because an upgrade only ever adds to what it has loaded and the two files
  are compared before one is written.
- All that is stored has the one passphrase of its info file (`OnePass`): a new passphrase is only made when there is nothing stored.
- `Decided` says what the list of steps a command has begun with comes to: create leaves none of the four files missing and the present cluster in both, delete
  leaves nothing. From this comes the part of `StanzaKept` about commands that have ended.

### protocol

`ProtocolAlways` has three parts, one for each kind of call.

The client: `ClientInv` says where the answer of every request is. A session that has asked once more than it was answered is queued, any other one is
not (`InTurn`); the answer of a queued one is stored with it or is the only one of its own in the stream, and has the number of its next answer (`Waits`, `OneEach`,
`Streamed`). An answer that says the server has closed the file comes when the server has. `Known` is about what nobody is working on:
a session whose answer is in the stream, or whose owner still has it, is listed, and a file the server has open belongs to a listed session that
knows it is open. A call breaks `Known` for its own session only, so
the lemmas about requests, answers and the end of a session keep `Turns(o)` and `Known(o, {id})`, and each action ends with a session that is settled again
(`Lively`) or gone. The heart is `ResponseRead`: what was read from the stream on the way to the answer belongs to other sessions, each of which is listed and has
nothing stored yet, so that the assertion of `protocolClientSessionFindIdx()` never fails and no answer is overwritten.
`~FreeEarly` is the exception that is listed among the findings: a session is freed only when it is not open or nothing is stored for it.

The executor: `ExecutorInv` says that each job is left, is in the list or was returned, and never two of these; that a client's job is running and in the
list; and that a client is freed only when no job is left that it may run. Since the callback gives a job to the first client that may run it, when one client is
freed the other one has a job or is freed too, and when the list is empty every job that a client may run was returned. The executor has two clients and any
number of jobs, with any lists of clients that may run them.

The other end: retries, authorization and options are functions of their arguments, and their part of the theorem is a lemma about each.

### object stores

`ObjectStoreAlways` is about sequences of calls on an HTTP client, on an object that two writers upload, and on credentials. `CallInv` has a part for each.

- `HttpInv`: a request that waits for its reply, or reads its content, has a session that is open, is nobody else's and has in its stream the reply to this request
  and no other one; what is left to be read of it is its own. A session that may be used again is open at both ends and has nothing left to be read. An error frees the
  session, and a request that is sent again gets another one, so each try begins where the first did (`RunStays` carries the invariant over the tries, however many). `OwnReplies` follows.
- `UploadInv`: `WriterInv` says what a writer that is open has sent. For S3 and Azure there is for each part that was sent a mark (`Marked`): what was written until then. A part
  that the service has is the difference of two marks, so the parts in the order of the list are all that was written, and a commit of which a part is missing fails. A part has
  the key of its writer (`PartsSent`), for another writer of the same object may send parts meanwhile, and its commit drops the uncommitted ones in Azure (`Apart`).
  For GCS there is one upload that grows (`PartGrown`). A writer whose part got a bad answer makes no promise: it finds the answer before it
  sends anything else, and then it fails. The answers to a part and to a commit may be lost, or come after the call was sent twice.
- `CredentialInv`: the signing key of S3 is made of the present credentials and the day it is kept with, or there is no such day (`date = -1`); hence
  a request is signed with the key of its own credentials and its own day.

### What stays with TLC

- Liveness (`EveryReadyIsAcked`, `EveryArchivedIsReplayed`, `Ends`): fairness and ENABLED are out of the
  prover's reach.
- The properties above where their hypothesis does not hold: backup
  and expire after the clock was set back by one step.
- What is in `plan` but `RestorePlanSound`, `StanzaKept`, `ProtocolSound` and `RequestsSound`. What the other modules compute they compute by folds or recursion over lists of any length (filters,
  blocks, the ini format), so that each claim is an induction over data, which
  the prover cannot instantiate. `ManifestBuild` (and with it `BackupPlan`), `Memory` and `Streams` declare RECURSIVE
  operators, with which the prover does not work at all.

`Retention` is written without recursion so that it can be used in proofs: the dependents of a backup are the least
closed set, and that a first and a last label exist is derived from the well-foundedness of the numbers
(`LeastNumber`, `NewestThere`).

## Findings

Four runs show a disagreement between the code and what it, its comments or its
documentation say; PROJECT.json quotes the lines. In the modules, but without a
run of their own:

- `lockReadFile()` of `stop --force` may read the pid a crashed process has left in a
  file its next holder has locked and not yet written (`command/control/stop.c:81`).
- `queueNeed()` keeps an ok file beside a segment of the queue, and the ok file is taken
  for a missing segment after the segment is gone (`command/archive/get/get.c:589`).
- A worker that outlives its killed async process may truncate a temporary file another
  has finished (`command/archive/get/file.c:45`).
- `removeExpiredHistory()` lists the history of the default repository and removes from
  the one that is expired (`command/expire/expire.c:903`).
- `expire --set` in a repository without any backup reads the first element of an empty
  list (`command/expire/expire.c:823`).
- restore syncs global only after it has renamed pg_control, and with it the other new files of global, though the rename is "done
  last to prevent a partially restored (or unsynced) cluster from being started" (`command/restore/restore.c:2527`). Where
  the file system does not keep the order of changes in a directory, a crash of the host may leave pg_control without
  one of them: with `Ordered = FALSE` run `restore` ends in such a state.
- archive-push with two repositories meets its own lock; the history of backups that are not expired goes with
  its year; a backup may end with ClockError though the clock never went back. Each was
  seen as a counterexample of `Lock` and `BackupExpire`.

Where the invariants of `plan` make an exception it is because of the following. The
definition that makes it says so.

- restore: super blocks are read from the default repository (`restore/file.c:323`). Paths are made before
  backup.manifest is saved, so a restore that is killed in between cannot be continued with
  `--delta`. Files zeroed by `--db-include` stay zeroed after `--delta --force`. A worker of a killed
  restore may outlive it.
- manifest: a file of an unlogged relation is recognised by its number only, one answer is kept for the next
  name (`manifest.c:1476`). A third link to the second file of a directory is not seen
  (`manifest.c:649`). A file with a time in the future is not copied when its size is the same.
- backup: a file that is in the resumed backup by itself and is now bundled, or was in blocks and is not now,
  is looked for where it is not (`backup.c:2127`). A file that was truncated to nothing while it was copied
  may have a map of one byte.
- verify: an empty file that refers to a bundled backup (`verify.c:919`), and two kinds of broken
  files, are missed (`verify.c:949`, `verify.c:1681`).
- protocol: an answer that was freed with its session stays in the list of stored answers (`client.c:444`);
  an error in a queued answer leaves its session listed (`client.c:458`).
- stanza: a copy that a killed save has left behind is not renewed by stanza-create, and is what
  a stanza-delete shows for a moment. When the cluster is upgraded again before a killed stanza-upgrade is repeated,
  the two files never agree again.
- annotate writes to the default repository what it has read from another (`annotate.c:76`).
- object stores: a list at a time has the time of the version it has skipped (`s3/storage.c:801`,
  `azure/storage.c:487`, `gcs/storage.c:806`). The S3 credentials are freed before new ones are there
  (`s3/storage.c:515`). When the answer to the commit of an upload is lost the retry fails though the object
  is stored. A GCS object that fails its verification stays.
- configuration: `keep[0]` instead of the remaining index (`parse.c:2727`); key 0 (`parse.c:625`); the
  map of indexes when only pg2 is set (`parse.c:2244`); a negated option whose dependency is not met is passed
  to remote processes (`exec.c:71`); `--reset-repo2-path` is not passed on; a comment on dependencies
  differs from the code (`parse.c:1364`).
- memory: a callback that fails leaves its context in the stack, and it is freed again
  (`memContext.c`, memContextDiscard and memContextClean lower the stack after the free); a try inside of a catch
  clears the error of the outer one (`common/error/error.c:355`); exit ends with 124 where its
  comment says that errors are ignored (`exit.c:168`); at the deepest try a free that has to clean up does not end.
- streams: a limited read counts what it wanted (`limitRead.c:56`); `ioReadFlush()` misses data in the internal
  buffer; short writes are not noticed (`fdWrite.c:80`); what follows the end of a gz or bz2 stream in the
  same buffer is ignored, and refused by bz2 in the next; `ioReadEof()` may be true with lines left when the last
  filter has much to give at its end. No caller uses readers in the ways that would meet the last.

## Not modelled

In the modules: several repositories of one expire, offline backups in `BackupExpire` (only their effect
on archive retention), dry runs, the wording of messages, duplicates of a
segment with another checksum, timeline history files in the archive commands. A storage
operation either happens or fails: partial writes are the driver's temporary file
(modelled in `ArchiveGet`, where two of them meet, and in `ObjectStore`, where an upload has parts).
Checksums are the data itself: that two files have the same one is outside. zlib, lz4, zst, bz2 and openssl
are modelled by what their callers may rely on, the services of S3, Azure and GCS by what their
answers mean.

Components that no module models: the info, manifest and repo commands read and print; the
local, remote and server commands start what `Protocol` models and hand over; the storage layer and
the sftp driver wrap system calls and a library one by one; sockets and TLS likewise; the common
types (strings, lists, variants, JSON, packs, XML) are data structures without any other actor,
whose results the modules above use as values; processes and logging, the wire format of
PostgreSQL's control file and the queries of `db/`, and code generation and help.

## Plan

1. Proofs: `VerifySound`, with closed forms of what the results of the jobs add to the ranges of WAL.
2. Proofs: `Restorable` when the clock was set back: which labels can then be made twice, and what the resume of one does.
3. The storage layer: temporary files, syncs and renames of the posix driver as the promise
   the other modules take them for.
4. Multiple repositories in one expire, with what `removeExpiredHistory()` does to the wrong one.
