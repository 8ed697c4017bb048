---------------------------- MODULE ManifestBuild ----------------------------
(***************************************************************************)
(* How a backup fills its manifest (info/manifest.c): what is taken from   *)
(* the disk and what is left out, which links are allowed, which files     *)
(* need not be copied since the prior backup has them.                     *)
(*                                                                         *)
(* A path is a sequence of names, absolute when the first one is "/".  The *)
(* disk is a function of absolute paths.  Kind says what a name matches,   *)
(* with the number that the name of a relation begins with.                *)
(***************************************************************************)
EXTENDS Manifest, FiniteSetsExt

CONSTANTS
    NameOrder,      \* the names there are, in the order of strings
    Oids,           \* the names that are numbers
    Kind,           \* name |-> [is, id] for names that match an expression of the walk
    TablespaceId,   \* the path of this version below a tablespace
    BuildCalls,     \* see BuildManifest
    LinkCalls,      \* [targets, pgPath]
    IncrCalls       \* see Increment

KindOf(n) == IF n \in DOMAIN Kind THEN Kind[n] ELSE [is |-> "other", id |-> ""]

PgData == << "pg_data" >>
PgTblspc == << "pg_data", "pg_tblspc" >>
PgWal == << "pg_data", "pg_wal" >>

\* The base path and what is below it, by its name in the manifest.
PathPg(name) == IF Head(name) = "pg_data" THEN Tail(name) ELSE name

\* strPathAbsolute(); Nowhere when the path goes back too far.
Nowhere == << >>
Absolute(path, base) ==
    LET Step(p, n) ==
            CASE p = Nowhere \/ (n = ".." /\ Len(p) = 1) -> Nowhere
              [] n = ".." -> SubSeq(p, 1, Len(p) - 1)
              [] n = "." -> p
              [] OTHER -> Append(p, n)
    IN  IF Head(path) = "/" THEN path ELSE FoldLeft(Step, base, path)

\* The path without links in it.
Real(disk, path) ==
    LET Step(p, n) ==
            LET q == Append(p, n)
            IN  IF q \in DOMAIN disk /\ disk[q].type = "link" THEN Absolute(disk[q].to, p) ELSE q
    IN  FoldLeft(Step, << "/" >>, Tail(path))

Position(n) == IndexIn(NameOrder, n)
Earlier(p, q) ==
    LET differ == {i \in DOMAIN p \cap DOMAIN q : p[i] # q[i]}
    IN  IF differ = {} THEN Len(p) < Len(q) ELSE Position(p[Min(differ)]) < Position(q[Min(differ)])
Listing(disk, path) ==
    LET real == Real(disk, path)
    IN  SelectSeq(NameOrder, LAMBDA n : Append(real, n) \in DOMAIN disk)
EntryAt(disk, path, name) == [disk[path] EXCEPT !.name = name]
-----------------------------------------------------------------------------
(* Links: an item per destination path, in order.                           *)

TargetPath(t, pgPath) ==
    LET parent == SubSeq(PathPg(t.name), 1, Len(PathPg(t.name)) - 1)
    IN  IF Head(t.path) = "/" THEN t.path ELSE Absolute(parent \o t.path, pgPath)

\* manifestLinkCheckOne(): the item of the target, or the error.
LinkError(links, path, t, pgPath) ==
    LET same == {i \in DOMAIN links : links[i].path = path}
        other == {i \in DOMAIN links : links[i].file = None}
        prior == {i \in other : Earlier(links[i].path, path)}
        next == {i \in other : Earlier(path, links[i].path)}
    IN  \/ IsPrefix(pgPath, path)
        \/ /\ same # {}
           /\ \A i \in same : t.file = None \/ links[i].file = None \/ links[i].file = t.file
        \/ /\ same = {} /\ t.file = None
           /\ \/ prior # {} /\ IsPrefix(links[Max(prior)].path, path)
              \/ next # {} /\ IsPrefix(path, links[Min(next)].path)
LinkCheckOne(o, t, pgPath) ==
    LET path == TargetPath(t, pgPath)
        item == [path |-> path, file |-> t.file]
        place == Cardinality({i \in DOMAIN o.links : Earlier(o.links[i].path, path)})
    IN  CASE t.type # "link" -> o
          [] LinkError(o.links, path, t, pgPath) -> [o EXCEPT !.error = "destination"]
          [] \E i \in DOMAIN o.links : o.links[i].path = path -> o
          [] OTHER -> [o EXCEPT !.links = InsertAt(@, place + 1, item)]

\* manifestLinkCheck()
LinkCheck(targets, pgPath) ==
    FoldLeft(LAMBDA o, t : IF o.error # None THEN o ELSE LinkCheckOne(o, t, pgPath),
             [error |-> None, links |-> << >>], targets)
-----------------------------------------------------------------------------
(* The walk over the disk.                                                  *)

\* The first entry of a map [from, value], greatest first, that the number reaches.
MapValue(map, n, default) ==
    LET reached == {i \in DOMAIN map : n >= map[i].from}
    IN  IF reached = {} THEN default ELSE map[Min(reached)].value
BlockIncrMap(pairs) == SetToSortSeq(pairs, LAMBDA x, y : x.from > y.from)
BlockIncrSize(a, size, time) ==
    LET block == MapValue(BlockIncrMap(a.sizeMap), size, 0)
    IN  block * (IF block = 0 THEN 1 ELSE MapValue(BlockIncrMap(a.ageMap), a.start - time, 1))
BlockIncrChecksumSize(a, block) == MapValue(BlockIncrMap(a.checksumMap), block, ChecksumSizeMin)

\* DB_PATH_EXP
DbPath(name) ==
    \/ name = << "pg_data", "global" >>
    \/ Len(name) = 3 /\ name[1] = "pg_data" /\ name[2] = "base" /\ name[3] \in Oids
    \/ /\ Len(name) = 4 /\ name[1] = "pg_tblspc" /\ name[3] = TablespaceId
       /\ name[2] \in Oids /\ name[4] \in Oids

NotReused == {"pg_dynshmem", "pg_notify", "pg_replslot", "pg_serial", "pg_snapshots", "pg_stat_tmp", "pg_subtrans"}
SkipContent(a, parent, name) ==
    \/ name \in a.excludeContent
    \/ parent = PgData /\ Last(name) \in NotReused
    \/ a.online /\ parent = PgWal /\ Last(name) = "archive_status"

SkippedRoot(version) ==
    {"postgresql.auto.conf.tmp", "backup_label.old", "postmaster.opts", "postmaster.pid"}
    \cup (IF version >= 120 THEN {"recovery.signal", "standby.signal"} ELSE {"recovery.conf", "recovery.done"})
    \cup (IF version >= 96 THEN {"backup_label"} ELSE {})
    \cup (IF version >= 130 THEN {"backup_manifest", "backup_manifest.tmp"} ELSE {})
SkipFile(a, parent, dbPath, info) ==
    \/ dbPath /\ KindOf(info.name).is \in {"pg_internal.init", "temp"}
    \/ parent = PgData /\ info.name \in SkippedRoot(a.version)
    \/ a.online /\ parent = PgWal

NewFile(a, name, dbPath, info) ==
    LET zero == info.size = 0 /\ a.bundle
        block == IF info.size # 0 /\ a.blockIncr THEN BlockIncrSize(a, info.size, info.time) ELSE 0
    IN  [NoFile EXCEPT
            !.name = name, !.copy = ~zero, !.mode = info.mode, !.user = info.user, !.group = info.group,
            !.size = info.size, !.sizeOriginal = info.size, !.sizeRepo = info.size, !.timestamp = info.time,
            !.checksum = IF zero THEN ZeroChecksum ELSE None,
            !.blockIncrSize = block,
            !.blockIncrChecksumSize = IF block = 0 THEN 0 ELSE BlockIncrChecksumSize(a, block),
            !.checksumPage = /\ dbPath /\ a.checksumPage
                             /\ Last(name) \notin {"pg_filenode.map", "PG_VERSION"}
                             /\ name # << "pg_data", "global", "pg_control" >>]

PathOf(name, info) == [name |-> name, mode |-> info.mode, user |-> info.user, group |-> info.group]
FindPath(o, name) == CHOOSE p \in Range(o.path) : p.name = name
HasPath(o, name) == \E p \in Range(o.path) : p.name = name

\* What a tablespace adds: paths that stand for the ones above its data.
AddTablespacePaths(o, name) ==
    LET dummy == IF HasPath(o, << "pg_tblspc" >>) THEN << >>
                 ELSE << [FindPath(o, PgData) EXCEPT !.name = << "pg_tblspc" >>] >>
    IN  [o EXCEPT !.path = @ \o dummy \o << [FindPath(o, PgTblspc) EXCEPT !.name = name] >>]

RECURSIVE BuildInfo(_, _, _, _, _, _)

BuildPath(a, o, parent, pgPath, name, info) ==
    LET added == [o EXCEPT !.path = Append(@, PathOf(name, info))]
        sub == Append(pgPath, info.name)
    IN  CASE parent = PgTblspc -> [o EXCEPT !.error = "link expected"]
          [] SkipContent(a, parent, name) -> added
          [] OTHER ->
                FoldLeft(LAMBDA x, n : BuildInfo(a, x, name, sub, DbPath(name), EntryAt(a.disk, Append(Real(a.disk, sub), n), n)),
                         added, Listing(a.disk, sub))

BuildFile(a, o, parent, dbPath, name, info) ==
    CASE parent = PgTblspc -> [o EXCEPT !.error = "link expected"]
      [] SkipFile(a, parent, dbPath, info) -> o
      [] OTHER -> [o EXCEPT !.file = Append(@, NewFile(a, name, dbPath, info))]

BuildLink(a, o, parent, pgPath, dbPath, name, info) ==
    LET destination == Absolute(info.to, pgPath)
        tablespace == parent = PgTblspc
        known == a.tablespaces # << >>
        listed == info.name \in DOMAIN a.tablespaces
        below == IF tablespace THEN Tail(name) ELSE parent
        path == IF tablespace THEN Append(pgPath, info.name) ELSE pgPath
        last == IF tablespace THEN TablespaceId ELSE info.name
        linked == Real(a.disk, Append(path, last))
        exists == linked \in DOMAIN a.disk
        isFile == exists /\ a.disk[linked].type # "path"
        target == [name |-> IF tablespace THEN below ELSE name, type |-> "link",
                   path |-> IF isFile THEN SubSeq(info.to, 1, Len(info.to) - 1) ELSE info.to,
                   file |-> IF isFile THEN Last(info.to) ELSE None,
                   tablespaceId |-> IF tablespace THEN info.name ELSE None,
                   tablespaceName |-> CASE ~tablespace -> None
                                        [] listed -> a.tablespaces[info.name]
                                        [] OTHER -> "ts" \o info.name]
        link == [name |-> name, destination |-> info.to, user |-> info.user, group |-> info.group]
        prepared == IF tablespace THEN AddTablespacePaths(o, below) ELSE o
        added == [prepared EXCEPT !.target = Append(@, target), !.link = Append(@, link)]
        checked == LinkCheckOne(added, target, a.pgPath)
    IN  CASE destination \in DOMAIN a.disk /\ a.disk[destination].type = "link" -> [o EXCEPT !.error = "link to link"]
          [] tablespace /\ known /\ ~listed -> [o EXCEPT !.error = "tablespace"]
          [] tablespace /\ isFile -> [o EXCEPT !.error = "tablespace file"]
          [] checked.error # None -> checked
          [] ~exists -> [o EXCEPT !.error = "missing"]
          [] OTHER -> BuildInfo(a, checked, below, path, dbPath, EntryAt(a.disk, linked, last))

BuildInfo(a, o, parent, pgPath, dbPath, info) ==
    LET name == Append(parent, info.name)
    IN  CASE o.error # None \/ KindOf(info.name).is = "pgsql_tmp" \/ name \in a.excludeSingle -> o
          [] info.type = "path" -> BuildPath(a, o, parent, pgPath, name, info)
          [] info.type = "file" -> BuildFile(a, o, parent, dbPath, name, info)
          [] info.type = "link" -> BuildLink(a, o, parent, pgPath, dbPath, name, info)
          [] OTHER -> o

\* Faulty variant of RemoveUnlogged: the number that the answer is about is not kept.
RemoveUnloggedOnce(files) ==
    LET Names == {f.name : f \in Range(files)}
        Step(x, f) ==
            LET k == KindOf(Last(f.name))
                init == Append(SubSeq(f.name, 1, Len(f.name) - 1), k.id \o "_init") \in Names
                unlogged == IF x.id # "" THEN x.unlogged ELSE init
            IN  IF k.is # "relation" \/ ~DbPath(SubSeq(f.name, 1, Len(f.name) - 1))
                THEN [x EXCEPT !.kept = Append(@, f)]
                ELSE [id |-> k.id, unlogged |-> unlogged, kept |-> IF unlogged THEN x.kept ELSE Append(x.kept, f)]
    IN  FoldLeft(Step, [id |-> "", unlogged |-> FALSE, kept |-> << >>], files).kept

\* The main fork and its like lose their files when there is an init fork of the same relation.  The answer is kept
\* for the files that follow with the same number.
RemoveUnlogged(files) ==
    LET Names == {f.name : f \in Range(files)}
        Step(x, f) ==
            LET k == KindOf(Last(f.name))
                init == Append(SubSeq(f.name, 1, Len(f.name) - 1), k.id \o "_init") \in Names
                unlogged == IF k.id = x.id THEN x.unlogged ELSE init
            IN  IF k.is # "relation" \/ ~DbPath(SubSeq(f.name, 1, Len(f.name) - 1))
                THEN [x EXCEPT !.kept = Append(@, f)]
                ELSE [id |-> k.id, unlogged |-> unlogged, kept |-> IF unlogged THEN x.kept ELSE Append(x.kept, f)]
    IN  FoldLeft(Step, [id |-> "", unlogged |-> FALSE, kept |-> << >>], files).kept

\* manifestNewBuild()
NewBuild(a) ==
    LET base == EntryAt(a.disk, a.pgPath, "pg_data")
        begun == [error |-> None, path |-> << PathOf(PgData, base) >>, file |-> << >>, link |-> << >>, links |-> << >>,
                  target |-> << [name |-> PgData, type |-> "path", path |-> a.pgPath, file |-> None,
                                 tablespaceId |-> None, tablespaceName |-> None] >>]
        Logged(walked) ==
            [walked EXCEPT !.file = IF walked.error # None THEN << >>
                                    ELSE RemoveUnlogged(SortSeq(@, LAMBDA f, g : Earlier(f.name, g.name)))]
    IN  Logged(FoldLeft(LAMBDA x, n : BuildInfo(a, x, PgData, a.pgPath, FALSE, EntryAt(a.disk, Append(a.pgPath, n), n)),
                        begun, Listing(a.disk, a.pgPath)))

\* A call [disk, pgPath, online, checksumPage, bundle, blockIncr, maps, exclusions, version, start, tablespaces].
BuildManifest == NoCall /\ \E a \in BuildCalls : call' = Called("build", a, NewBuild(a))
CheckLinks == NoCall /\ \E a \in LinkCalls : call' = Called("links", a, LinkCheck(a.targets, a.pgPath).error)
-----------------------------------------------------------------------------
(* What the prior backup has.  A manifest is [copyStart, online, delta,     *)
(* stop, label, references, bundle, files].                                 *)

\* Faulty variant of BuildValidate: the copy starts in the second of the listing.
BuildValidateSecond(m, delta, copyStart) ==
    [m EXCEPT !.delta = delta \/ \E f \in Range(m.files) : f.timestamp > copyStart,
              !.copyStart = copyStart]

\* manifestBuildValidate()
BuildValidate(m, delta, copyStart) ==
    [m EXCEPT !.delta = delta \/ \E f \in Range(m.files) : f.timestamp > copyStart,
              !.copyStart = copyStart + IF m.online THEN 1 ELSE 0]

\* manifestDeltaCheck()
Prior(prior, f) == CHOOSE g \in Range(prior.files) : g.name = f.name
InPrior(prior, f) == \E g \in Range(prior.files) : g.name = f.name
DeltaCheck(m, prior) ==
    [m EXCEPT !.delta = @ \/ \E f \in Range(m.files) :
        /\ InPrior(prior, f)
        /\ LET g == Prior(prior, f)
           IN  \/ f.timestamp < g.timestamp
               \/ f.sizeOriginal # g.sizeOriginal /\ f.timestamp = g.timestamp]

Timeline8(segment) == segment[1]
SwitchedTimeline(prior, start) ==
    /\ start # << >> /\ prior.stop # << >>
    /\ Timeline8(start) # Timeline8(prior.stop)

\* A file that will be copied, with what the prior backup knows of it.
IncrFile(f, g, prior, delta) ==
    LET equal == f.size = g.size
        preserve == equal \/ (g.blockIncrMapSize > 0 /\ f.size >= g.blockIncrSize)
        check == delta /\ equal /\ f.size # 0
        skip == (f.size = 0 /\ g.size = 0) \/ (~check /\ equal /\ f.timestamp = g.timestamp)
        Kept(x) == [x EXCEPT
            !.size = g.size, !.sizeRepo = g.sizeRepo, !.checksum = g.checksum, !.checksumRepo = g.checksumRepo,
            !.reference = IF g.reference # None THEN g.reference ELSE prior.label,
            !.checksumPage = g.checksumPage, !.checksumPageError = g.checksumPageError,
            !.checksumPageErrorList = g.checksumPageErrorList, !.bundleId = g.bundleId, !.bundleOffset = g.bundleOffset,
            !.blockIncrSize = g.blockIncrSize, !.blockIncrChecksumSize = g.blockIncrChecksumSize,
            !.blockIncrMapSize = g.blockIncrMapSize]
        marked == [f EXCEPT !.delta = check, !.copy = ~skip]
    IN  IF preserve THEN Kept(marked) ELSE marked

\* manifestBuildIncr()
BuildIncr(m, prior, start) ==
    LET changed == SwitchedTimeline(prior, start) \/ prior.online # m.online
        checked == DeltaCheck([m EXCEPT !.delta = @ \/ changed], prior)
        File(f) == IF f.copy /\ InPrior(prior, f) THEN IncrFile(f, Prior(prior, f), prior, checked.delta) ELSE f
    IN  [checked EXCEPT !.references = prior.references, !.bundleRaw = prior.bundleRaw,
                        !.files = [i \in DOMAIN @ |-> File(@[i])]]

\* manifestBuildFullIncr()
BuildFullIncr(m, limit, bundleLimit) ==
    [m EXCEPT !.files = SelectSeq(@, LAMBDA f : f.timestamp <= limit /\ (~m.bundle \/ f.size > bundleLimit))]

\* manifestBuildComplete(): an annotation without a value is left out.
Annotations(given) ==
    LET kept == {k \in DOMAIN given : given[k] # ""}
    IN  IF kept = {} THEN << >> ELSE [k \in kept |-> given[k]]

\* A call [prior, now, second, delta, start]: the prior backup was validated in the given second as well.
Increment ==
    NoCall /\ \E a \in IncrCalls :
        LET prior == BuildValidate(a.prior, a.prior.delta, a.prior.copyStart)
            now == BuildValidate(a.now, a.now.delta, a.now.copyStart)
        IN  call' = Called("incr", a, [prior |-> prior, now |-> BuildIncr(now, prior, a.start)])
Annotate == NoCall /\ \E given \in [{"a", "b"} -> {"", "x"}] : call' = Called("annotate", given, Annotations(given))

ManifestBuildNext == ManifestNext \/ BuildManifest \/ CheckLinks \/ Increment \/ Annotate
-----------------------------------------------------------------------------
(* The files of the manifest are those of the disk, wherever links have put*)
(* them, but for what an exclusion or PostgreSQL's own rules leave out on  *)
(* the way to them.  The files of unlogged relations go, and no others;    *)
(* a relation is not told from one with the same number in the directory   *)
(* before it, so those are left out of the statement.                      *)
DiskNames(a) ==
    LET under == {p \in DOMAIN a.disk : IsPrefix(a.pgPath, p) /\ p # a.pgPath}
        direct == {SubSeq(p, Len(a.pgPath) + 1, Len(p)) : p \in under}
        Linked(N) ==
            N \cup UNION {LET real == Real(a.disk, a.pgPath \o l)
                         IN  {l \o SubSeq(p, Len(real) + 1, Len(p)) : p \in {q \in DOMAIN a.disk : IsPrefix(real, q)}}
                         : l \in {n \in N : Real(a.disk, a.pgPath \o SubSeq(n, 1, Len(n) - 1)) \o << Last(n) >> \in DOMAIN a.disk
                                        /\ a.disk[Real(a.disk, a.pgPath \o SubSeq(n, 1, Len(n) - 1)) \o << Last(n) >>].type = "link"}}
    IN  Linked(Linked(direct))
NameOf(q) == IF Len(q) > 2 /\ q[1] = "pg_tblspc" THEN q ELSE PgData \o q
LeftOut(a, q) ==
    \/ \E i \in DOMAIN q :
          LET name == NameOf(SubSeq(q, 1, i))
          IN  \/ KindOf(q[i]).is = "pgsql_tmp"
              \/ PgData \o SubSeq(q, 1, i) \in a.excludeSingle
              \/ i < Len(q) /\ (name \in a.excludeContent \/ (i = 1 /\ q[1] \in NotReused))
    \/ a.online /\ q[1] = "pg_wal" /\ (Len(q) = 2 \/ q[2] = "archive_status")
    \/ Len(q) = 1 /\ q[1] \in SkippedRoot(a.version)
    \/ DbPath(NameOf(SubSeq(q, 1, Len(q) - 1))) /\ KindOf(Last(q)).is \in {"pg_internal.init", "temp"}
WholeDisk ==
    Returns("build") =>
        LET a == call.arg
            stored == {f.name : f \in Range(call.result.file)}
            files == {q \in DiskNames(a) : a.disk[Real(a.disk, a.pgPath \o q)].type = "file" /\ ~LeftOut(a, q)}
            Sibling(q, n) == SubSeq(q, 1, Len(q) - 1) \o << n >>
            Init(q) == DbPath(NameOf(SubSeq(q, 1, Len(q) - 1))) /\ KindOf(Last(q)).is = "relation"
                           /\ Sibling(q, KindOf(Last(q)).id \o "_init") \in files
        IN  call.result.error = None => stored = {NameOf(q) : q \in {p \in files : ~Init(p)}}

(* The destinations of links are apart: none is in the data directory, no  *)
(* directory is inside of another or the same as a file's, two files are   *)
(* different.  A third link to the second file of a directory is not seen. *)
LinksApart ==
    Returns("links") /\ call.result = None =>
        LET a == call.arg
            links == {i \in DOMAIN a.targets : a.targets[i].type = "link"}
            Path(i) == TargetPath(a.targets[i], a.pgPath)
            File(i) == a.targets[i].file
        IN  /\ \A i \in links : ~IsPrefix(a.pgPath, Path(i))
            /\ \A i, j \in links : i # j =>
                  /\ File(i) = None /\ File(j) = None => ~IsPrefix(Path(i), Path(j))
                  /\ Path(i) = Path(j) =>
                        /\ File(i) # None /\ File(j) # None
                        /\ File(i) = File(j) => Min({k \in links : Path(k) = Path(i)}) \notin {i, j}

(* What was changed after the prior backup began to copy is not taken from *)
(* it unread, as long as its time is when it was changed: that is why the  *)
(* copy starts in the second after the one the files were listed in.  A    *)
(* file whose time says nothing is read when there is any sign of that.    *)
Changed(a, f) == f.name \in a.changed
ChangesCopied ==
    Returns("incr") =>
        LET a == call.arg
            r == call.result
            Honest(f) == /\ a.prior.online
                         /\ f.timestamp >= r.prior.copyStart
                         /\ Prior(r.prior, f).timestamp <= a.prior.copyStart
            sign == \/ a.now.delta \/ a.prior.online # a.now.online
                    \/ a.start # << >> /\ a.prior.stop # << >> /\ a.start[1] # a.prior.stop[1]
                    \/ \E f \in Range(a.now.files) :
                          \/ f.timestamp > a.now.copyStart
                          \/ InPrior(a.prior, f) /\ f.timestamp < Prior(a.prior, f).timestamp
        IN  \A i \in DOMAIN a.now.files :
                LET f == a.now.files[i]
                    g == r.now.files[i]
                IN  (Changed(a, f) /\ InPrior(r.prior, f) /\ ~g.copy /\ g.size # 0) => ~Honest(f) /\ ~sign

(* What is not copied, or may turn out to be the same, can be found: every *)
(* place of it is the prior backup's, and a block map is never changed to  *)
(* another size of blocks.                                                 *)
ReferencesWhole ==
    Returns("incr") =>
        LET r == call.result
        IN  \A i \in DOMAIN r.now.files :
                LET f == r.now.files[i]
                IN  InPrior(r.prior, f) /\ (f.reference # None \/ f.delta \/ (~f.copy /\ ~r.now.bundle)) =>
                        LET g == Prior(r.prior, f)
                        IN  /\ f.reference = (IF g.reference = None THEN r.prior.label ELSE g.reference)
                            /\ f.reference \in Range(r.now.references)
                            /\ f.sizeOriginal = g.size \/ (g.blockIncrMapSize > 0 /\ f.sizeOriginal >= g.blockIncrSize)
                            /\ \A x \in {"size", "sizeRepo", "checksum", "checksumRepo", "bundleId", "bundleOffset",
                                        "blockIncrSize", "blockIncrChecksumSize", "blockIncrMapSize"} : f[x] = g[x]

EmptyLeftOut == Returns("annotate") => \A k \in DOMAIN call.arg : (call.arg[k] = "") = (k \notin DOMAIN call.result)

(* The manifest is what is on the disk and what the prior backup holds.    *)
ManifestSound ==
    MemoryKept /\ SavedKept /\ WholeDisk /\ LinksApart /\ ChangesCopied /\ ReferencesWhole /\ EmptyLeftOut
=============================================================================
