------------------------------ MODULE Manifest ------------------------------
(***************************************************************************)
(* The backup manifest as an object (info/manifest.c): the packed form     *)
(* that every file has in memory, the sections it is saved as, with what   *)
(* equals a default left out, and the validation before the last save.     *)
(*                                                                         *)
(* A file is a record, packed into flags and a sequence of numbers.  An    *)
(* owner that has no name, and a checksum that is not known, is None.      *)
(***************************************************************************)
EXTENDS Calls, Convert, SequencesExt, Functions, TLC

CONSTANTS
    SizeFactor,         \* BLOCK_INCR_SIZE_FACTOR
    ChecksumSizeMin,    \* BLOCK_INCR_CHECKSUM_SIZE_MIN
    ZeroChecksum,       \* of a file without data
    SaveCalls           \* manifests that are saved and loaded

ASSUME ManifestAssumption == SizeFactor \in Nat \ {0} /\ ChecksumSizeMin \in Nat \ {0}

NoFile == [name |-> None, copy |-> FALSE, delta |-> FALSE, resume |-> FALSE, checksum |-> None, checksumRepo |-> None,
           reference |-> None, size |-> 0, sizeOriginal |-> 0, sizeRepo |-> 0, timestamp |-> 0,
           mode |-> 0, user |-> None, group |-> None, bundleId |-> 0, bundleOffset |-> 0,
           blockIncrSize |-> 0, blockIncrChecksumSize |-> 0, blockIncrMapSize |-> 0,
           checksumPage |-> FALSE, checksumPageError |-> FALSE, checksumPageErrorList |-> None]

When(b, s) == IF b THEN s ELSE << >>
Get(entry, key, default) == IF key \in DOMAIN entry THEN entry[key] ELSE default
IndexIn(list, x) == CHOOSE i \in DOMAIN list : list[i] = x
-----------------------------------------------------------------------------
(* The packed form of a file, relative to the defaults of the manifest, its *)
(* list of references and the first timestamp that was packed.              *)

PackFlags(m, f) ==
    {x \in {"copy", "delta", "resume", "checksumPage", "checksumPageError"} : f[x]}
    \cup {x \in {"checksum", "checksumRepo", "reference", "checksumPageErrorList"} : f[x] # None}
    \cup {x \in {"bundleId", "blockIncrSize"} : f[x] # 0}
    \cup {x \in {"sizeOriginal"} : f[x] # f.size}
    \cup {x \in {"mode"} : f[x] # m.default.mode}
    \cup {x \in {"user", "group"} : f[x] # None /\ f[x] # m.default[x]}
    \cup (IF f.user = None THEN {"userNull"} ELSE {})
    \cup (IF f.group = None THEN {"groupNull"} ELSE {})

\* The values that follow the flags.
Follows(flags, x) ==
    CASE x \in {"size", "timestamp", "sizeRepo"} -> TRUE
      [] x = "bundleOffset" -> "bundleId" \in flags
      [] x \in {"blockIncrChecksumSize", "blockIncrMapSize"} -> "blockIncrSize" \in flags
      [] OTHER -> x \in flags
PackOrder == << "size", "sizeOriginal", "timestamp", "checksum", "checksumRepo", "reference", "mode", "user", "group",
                "sizeRepo", "bundleId", "bundleOffset", "blockIncrSize", "blockIncrChecksumSize", "blockIncrMapSize",
                "checksumPageErrorList" >>

FilePack(m, f) ==
    LET flags == PackFlags(m, f)
        Value(x) == CASE x = "timestamp" -> ZigZag(m.base - f.timestamp)
                      [] x = "reference" -> IndexIn(m.references, f.reference)
                      [] x = "blockIncrSize" -> f.blockIncrSize \div SizeFactor
                      [] OTHER -> f[x]
        order == SelectSeq(PackOrder, LAMBDA x : Follows(flags, x))
    IN  [name |-> f.name, flags |-> flags, values |-> [i \in DOMAIN order |-> Value(order[i])]]

\* Faulty variant of FileUnpack: the flag is not asked whether the owner is unknown.
FileUnpackOwner(m, p) ==
    LET order == SelectSeq(PackOrder, LAMBDA x : Follows(p.flags, x))
        Next1(x) == p.values[IndexIn(order, x)]
        Value(x) == CASE x = "timestamp" -> m.base - FromZigZag(Next1(x))
                      [] x = "blockIncrSize" /\ x \in p.flags -> Next1(x) * SizeFactor
                      [] x = "reference" /\ x \in p.flags -> m.references[Next1(x)]
                      [] x \in {"copy", "delta", "resume", "checksumPage", "checksumPageError"} -> x \in p.flags
                      [] Follows(p.flags, x) -> Next1(x)
                      [] x = "sizeOriginal" -> Next1("size")
                      [] x \in {"mode", "user", "group"} -> m.default[x]
                      [] OTHER -> NoFile[x]
    IN  [x \in DOMAIN NoFile |-> IF x = "name" THEN p.name ELSE Value(x)]
FileUnpack(m, p) ==
    LET order == SelectSeq(PackOrder, LAMBDA x : Follows(p.flags, x))
        Next1(x) == p.values[IndexIn(order, x)]
        Value(x) == CASE x = "timestamp" -> m.base - FromZigZag(Next1(x))
                      [] x = "blockIncrSize" /\ x \in p.flags -> Next1(x) * SizeFactor
                      [] x = "reference" /\ x \in p.flags -> m.references[Next1(x)]
                      [] x \in {"copy", "delta", "resume", "checksumPage", "checksumPageError"} -> x \in p.flags
                      [] Follows(p.flags, x) -> Next1(x)
                      [] x = "sizeOriginal" -> Next1("size")
                      [] x = "mode" -> m.default.mode
                      [] x = "user" /\ "userNull" \notin p.flags -> m.default.user
                      [] x = "group" /\ "groupNull" \notin p.flags -> m.default.group
                      [] OTHER -> NoFile[x]
    IN  [x \in DOMAIN NoFile |-> IF x = "name" THEN p.name ELSE Value(x)]

\* manifestFileAdd(): the base of the timestamps is set by the first file.
FileAdd(m, f) ==
    LET based == IF m.base = -1 THEN [m EXCEPT !.base = f.timestamp] ELSE m
    IN  [based EXCEPT !.file = Append(@, FilePack(based, f))]
ManifestFiles(m) == [i \in DOMAIN m.file |-> FileUnpack(m, m.file[i])]
FileUpdate(m, f) ==
    [m EXCEPT !.file[CHOOSE i \in DOMAIN m.file : m.file[i].name = f.name] = FilePack(m, f)]
-----------------------------------------------------------------------------
(* manifestSave()                                                           *)

OwnerVar(o) == IF o = None THEN "false" ELSE o
OwnerGet(v) == IF v = "false" THEN None ELSE v

\* The mode of a file without what only a path needs.
FileMode(mode) == mode % 8
DefaultOf(path) == [user |-> OwnerVar(path.user), group |-> OwnerVar(path.group), mode |-> path.mode]

SaveOwner(d, x) ==
    When(OwnerVar(x.group) # d.group, "group" :> OwnerVar(x.group))
    @@ When(OwnerVar(x.user) # d.user, "user" :> OwnerVar(x.user))
SaveFile(d, f) ==
    When(f.blockIncrSize # 0, "bi" :> f.blockIncrSize \div SizeFactor)
    @@ When(f.blockIncrSize # 0 /\ f.blockIncrChecksumSize # ChecksumSizeMin, "bic" :> f.blockIncrChecksumSize)
    @@ When(f.blockIncrSize # 0 /\ f.blockIncrMapSize # 0, "bim" :> f.blockIncrMapSize)
    @@ When(f.bundleId # 0, "bni" :> f.bundleId)
    @@ When(f.bundleId # 0 /\ f.bundleOffset # 0, "bno" :> f.bundleOffset)
    @@ When(f.size # 0 /\ f.checksum # None, "checksum" :> f.checksum)
    @@ When(f.checksumPage, "checksum-page" :> ~f.checksumPageError)
    @@ When(f.checksumPage /\ f.checksumPageErrorList # None, "checksum-page-error" :> f.checksumPageErrorList)
    @@ SaveOwner(d, f)
    @@ When(f.mode # FileMode(d.mode), "mode" :> f.mode)
    @@ When(f.checksumRepo # None, "rck" :> f.checksumRepo)
    @@ When(f.reference # None, "reference" :> f.reference)
    @@ When(f.sizeRepo # f.size, "repo-size" :> f.sizeRepo)
    @@ ("size" :> f.size)
    @@ When(f.sizeOriginal # f.size, "szo" :> f.sizeOriginal)
    @@ ("timestamp" :> f.timestamp)
SavePath(d, p) == SaveOwner(d, p) @@ When(p.mode # d.mode, "mode" :> p.mode) @@ ("name" :> p.name)
SaveLink(d, k) == SaveOwner(d, k) @@ ("destination" :> k.destination) @@ ("name" :> k.name)
SaveTarget(t) ==
    When(t.file # None, "file" :> t.file)
    @@ ("path" :> t.path)
    @@ When(t.tablespaceId # 0, "tablespace-id" :> t.tablespaceId)
    @@ When(t.tablespaceName # None, "tablespace-name" :> t.tablespaceName)
    @@ ("type" :> t.type) @@ ("name" :> t.name)
SaveDb(db) == ("db-id" :> db.id) @@ ("db-last-system-id" :> db.lastSystemId) @@ ("name" :> db.name)

Present(record, keys) == [k \in {x \in keys : record[x] # None} |-> record[k]]
IfTrue(record, keys) == [k \in {x \in keys : record[x]} |-> TRUE]
Always(record, keys) == [k \in keys |-> record[k]]

SaveBackup(m) ==
    Present(m.data, {"archiveStart", "archiveStop", "lsnStart", "lsnStop", "backupLabelPrior"})
    @@ IfTrue(m.data, {"blockIncr", "bundle", "bundleRaw"})
    @@ Always(m.data, {"backupLabel", "copyStart", "start", "stop", "type"})
    @@ ("reference" :> m.references)
SaveBackupDb(m) == Always(m.data, {"pgId", "pgSystemId", "pgCatalogVersion", "pgVersion"})
SaveOption(m) ==
    Always(m.data, {"archiveCheck", "archiveCopy", "hardLink", "online", "compressType"})
    @@ Present(m.data, {"standby", "bufferSize", "checksumPages", "compressLevel", "compressLevelNetwork", "delta", "processMax"})
    @@ ("compress" :> (m.data.compressType # "none"))

ManifestSave(m) ==
    LET base == CHOOSE p \in Range(m.path) : p.name = << "pg_data" >>
        d == DefaultOf(base)
        files == ManifestFiles(m)
    IN  [backup |-> SaveBackup(m), db |-> SaveBackupDb(m), option |-> SaveOption(m),
         target |-> [i \in DOMAIN m.target |-> SaveTarget(m.target[i])],
         dbList |-> [i \in DOMAIN m.db |-> SaveDb(m.db[i])],
         annotation |-> m.data.annotation,
         file |-> [i \in DOMAIN files |-> << files[i].name, SaveFile(d, files[i]) >>],
         fileDefault |-> [d EXCEPT !.mode = FileMode(@)],
         link |-> [i \in DOMAIN m.link |-> SaveLink(d, m.link[i])],
         linkDefault |-> When(m.link # << >>, ("group" :> d.group) @@ ("user" :> d.user)),
         path |-> [i \in DOMAIN m.path |-> SavePath(d, m.path[i])],
         pathDefault |-> d]
-----------------------------------------------------------------------------
(* manifestNewLoad(): the sections in the order they are saved in, so that  *)
(* the files are packed before their defaults are known.                    *)

LoadFile(m, name, e) ==
    LET size == e["size"]
        block == "bi" \in DOMAIN e
        page == "checksum-page" \in DOMAIN e
    IN  [NoFile EXCEPT
            !.name = name,
            !.blockIncrSize = Get(e, "bi", 0) * SizeFactor,
            !.blockIncrChecksumSize = IF block THEN Get(e, "bic", ChecksumSizeMin) ELSE 0,
            !.blockIncrMapSize = Get(e, "bim", 0),
            !.bundleId = Get(e, "bni", 0),
            !.bundleOffset = Get(e, "bno", 0),
            !.checksum = IF size = 0 THEN ZeroChecksum ELSE Get(e, "checksum", None),
            !.checksumPage = page,
            !.checksumPageError = page /\ ~e["checksum-page"],
            !.checksumPageErrorList = Get(e, "checksum-page-error", None),
            !.group = OwnerGet(Get(e, "group", OwnerVar(m.default.group))),
            !.mode = Get(e, "mode", m.default.mode),
            !.checksumRepo = Get(e, "rck", None),
            !.reference = Get(e, "reference", None),
            !.sizeRepo = Get(e, "repo-size", size),
            !.size = size,
            !.sizeOriginal = Get(e, "szo", size),
            !.timestamp = e["timestamp"],
            !.user = OwnerGet(Get(e, "user", OwnerVar(m.default.user)))]
AddFile(m, name, e, listed) ==
    LET f == LoadFile(m, name, e)
        missing == ~listed /\ f.reference # None /\ f.reference \notin Range(m.references)
    IN  FileAdd(IF missing THEN [m EXCEPT !.references = Append(@, f.reference)] ELSE m, f)
LoadOwner(e, d, x) == OwnerGet(IF x \in DOMAIN e THEN e[x] ELSE d[x])
LoadPath(e, d) ==
    [name |-> e["name"], mode |-> Get(e, "mode", d.mode), user |-> LoadOwner(e, d, "user"), group |-> LoadOwner(e, d, "group")]
LoadLink(e, d) ==
    [name |-> e["name"], destination |-> e["destination"], user |-> LoadOwner(e, d, "user"), group |-> LoadOwner(e, d, "group")]
LoadDefault(e) == [user |-> OwnerGet(e.user), group |-> OwnerGet(e.group), mode |-> e.mode]
LoadTarget(e) ==
    [name |-> e["name"], type |-> e["type"], path |-> e["path"], file |-> Get(e, "file", None),
     tablespaceId |-> Get(e, "tablespace-id", 0),
     tablespaceName |-> IF "tablespace-id" \in DOMAIN e THEN e["tablespace-name"] ELSE None]
LoadDb(e) == [name |-> e["name"], id |-> e["db-id"], lastSystemId |-> e["db-last-system-id"]]

LoadBackup(e) ==
    [k \in {"archiveStart", "archiveStop", "lsnStart", "lsnStop", "backupLabelPrior"} |-> Get(e, k, None)]
    @@ [k \in {"blockIncr", "bundle", "bundleRaw"} |-> Get(e, k, FALSE)]
    @@ Always(e, {"backupLabel", "copyStart", "start", "stop", "type"})
LoadBackupDb(e) == e
LoadOption(e) ==
    [k \in {"standby", "bufferSize", "checksumPages", "compressLevel", "compressLevelNetwork", "delta", "processMax"} |->
        Get(e, k, None)]
    @@ Always(e, {"archiveCheck", "archiveCopy", "hardLink", "online"})
    @@ ("compressType" :> Get(e, "compressType", IF e["compress"] THEN "gz" ELSE "none"))

ManifestLoad(s) ==
    LET data == LoadBackup(s.backup) @@ LoadBackupDb(s.db) @@ LoadOption(s.option) @@ ("annotation" :> s.annotation)
        listed == "reference" \in DOMAIN s.backup
        begun == [default |-> [user |-> "@", group |-> "@", mode |-> -1], references |-> Get(s.backup, "reference", << >>),
                  base |-> -1, data |-> data, db |-> [i \in DOMAIN s.dbList |-> LoadDb(s.dbList[i])], file |-> << >>,
                  path |-> [i \in DOMAIN s.path |-> LoadPath(s.path[i], s.pathDefault)],
                  link |-> [i \in DOMAIN s.link |-> LoadLink(s.link[i], s.linkDefault)],
                  target |-> [i \in DOMAIN s.target |-> LoadTarget(s.target[i])]]
        loaded == FoldLeft(LAMBDA m, x : AddFile(m, x[1], x[2], listed), begun, s.file)
    IN  [loaded EXCEPT
            !.default = LoadDefault(s.fileDefault),
            !.references = IF listed \/ data.backupLabel \in Range(@) THEN @ ELSE Append(@, data.backupLabel)]

\* The files that manifestValidate() names in its error.
InvalidFiles(files, strict) ==
    {f.name : f \in {x \in Range(files) :
        \/ x.checksum = None
        \/ strict /\ x.size = 0 /\ x.checksum # ZeroChecksum
        \/ strict /\ x.sizeRepo = 0 /\ x.size # 0}}

\* A call [manifest, listed]: a manifest of before 2.42 has no list of references.
WithoutList(file) == [file EXCEPT !.backup = [k \in DOMAIN @ \ {"reference"} |-> @[k]]]
SavedLoaded(a, filled) ==
    LET file == ManifestSave(filled)
        Result(loaded) ==
            [memory |-> ManifestFiles(filled), loaded |-> loaded, files |-> ManifestFiles(loaded),
             invalid |-> InvalidFiles(ManifestFiles(loaded), TRUE)]
    IN  Result(ManifestLoad(IF a.listed THEN file ELSE WithoutList(file)))
SaveLoad ==
    NoCall /\ \E a \in SaveCalls :
        call' = Called("saveLoad", a, SavedLoaded(a, FoldLeft(FileAdd, a.manifest, a.files)))

ManifestNext == SaveLoad
-----------------------------------------------------------------------------
(* A file comes out of memory as it was put in.                            *)
MemoryKept == Returns("saveLoad") => call.result.memory = call.arg.files

(* What is loaded is what was saved: whatever was left out since it is the *)
(* default, in whichever section the default comes, is found again.  What  *)
(* only a running backup needs is not saved.                               *)
SavedKept ==
    Returns("saveLoad") =>
        LET r == call.result
            m == call.arg.manifest
            Saved(f) == [f EXCEPT !.copy = FALSE, !.delta = FALSE, !.resume = FALSE]
        IN  /\ r.files = [i \in DOMAIN call.arg.files |-> Saved(call.arg.files[i])]
            /\ r.loaded.data = m.data
            /\ r.loaded.default = m.default
            /\ \A x \in {"path", "link", "target", "db"} : r.loaded[x] = m[x]
            /\ call.arg.listed => r.loaded.references = m.references
            /\ {f.reference : f \in Range(call.arg.files)} \ {None} \subseteq Range(r.loaded.references)
=============================================================================
