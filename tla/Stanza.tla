------------------------------- MODULE Stanza -------------------------------
(***************************************************************************)
(* archive.info and backup.info (info/info.c, infoPg.c, infoArchive.c,     *)
(* infoBackup.c, common/ini.c), the commands that make, upgrade and delete *)
(* a stanza (command/stanza) and check (command/check).                    *)
(***************************************************************************)
EXTENDS Objects, SequencesExt, FiniteSetsExt, Functions

CONSTANTS
    Clusters,       \* clusters the stanza may be for: a version and a system id
    MaxHistory,     \* bound on the clusters that the stanza has seen
    MaxFault,       \* bound on info files that get lost or damaged
    MaxKill,        \* bound on commands that are killed
    MaxPass,        \* bound on the passphrases that are made
    MaxList,        \* bound on the backups that are listed
    InfoCalls, LoadFileCalls, IniCalls, RowCalls, ReconstructCalls, SizeCalls,
    AnnotationCalls, AnnotateCalls, CheckCalls, ReportCalls, ArchiveIdCalls

ASSUME StanzaAssumption ==
    {MaxHistory, MaxFault, MaxKill, MaxPass, MaxList} \subseteq Nat
-----------------------------------------------------------------------------
(* The ini format.  A line is a sequence of symbols; a value is JSON.       *)

PlainSymbols(s) == \A i \in DOMAIN s : s[i] \notin {"'", "{", "}", "[", "]", ":", "="}
JsonString(s) == Len(s) > 1 /\ s[1] = "'" /\ Last(s) = "'" /\ \A i \in 2..(Len(s) - 1) : s[i] # "'"
JsonScalar(s) == JsonString(s) \/ (s # << >> /\ PlainSymbols(s))
JsonObject(s) ==
    /\ Len(s) > 1 /\ s[1] = "{" /\ Last(s) = "}"
    /\ Len(s) = 2 \/ \E i \in 3..(Len(s) - 2) : s[i] = ":" /\ JsonString(SubSeq(s, 2, i - 1)) /\ JsonScalar(SubSeq(s, i + 1, Len(s) - 1))
JsonValid(s) == JsonScalar(s) \/ JsonObject(s)

\* infoSaveValue()
SectionLine(section) == << "[" >> \o section \o << "]" >>
ValueLine(key, value) == key \o << "=" >> \o value

\* Faulty variant of IniSplit: the first = ends the key whatever follows.
IniSplitFirst(line, strict) ==
    LET at == {i \in DOMAIN line : line[i] = "="}
    IN  IF at = {} THEN 0 ELSE Min(at)

\* The = that ends the key: in a file of ours what follows must be JSON.
IniSplit(line, strict) ==
    LET at == {i \in DOMAIN line : line[i] = "=" /\ (strict => JsonValid(SubSeq(line, i + 1, Len(line))))}
    IN  IF at = {} THEN 0 ELSE Min(at)

IniEnd == [section |-> << >>, values |-> << >>, error |-> FALSE]
IniNext(o, line, strict) ==
    LET n == IniSplit(line, strict)
        section == line # << >> /\ line[1] = "[" /\ (strict => Last(line) = "]")
        name == IF Len(line) > 2 THEN SubSeq(line, 2, Len(line) - 1) ELSE << >>
    IN  IF o.error \/ line = << >> \/ (~strict /\ line[1] = "#") THEN o
        ELSE IF section
             THEN IF Last(line) # "]" \/ name = << >> THEN [o EXCEPT !.error = TRUE]
                  ELSE [o EXCEPT !.section = name]
        ELSE IF o.section = << >> \/ n < 2 THEN [o EXCEPT !.error = TRUE]
        ELSE [o EXCEPT !.values = Append(@, << o.section, SubSeq(line, 1, n - 1), SubSeq(line, n + 1, Len(line)) >>)]

IniRead(lines, strict) == FoldLeft(LAMBDA o, line : IniNext(o, line, strict), IniEnd, lines)
IniWritten(values) ==
    FlattenSeq([i \in DOMAIN values |->
        (IF i > 1 /\ values[i - 1][1] = values[i][1] THEN << >> ELSE << SectionLine(values[i][1]) >>)
        \o << ValueLine(values[i][2], values[i][3]) >>])

\* iniNewP() with a store: the values of a key in the order of the file.
IniStore(values) ==
    [p \in {<< v[1], v[2] >> : v \in Range(values)} |->
        LET own == SelectSeq(values, LAMBDA v : << v[1], v[2] >> = p) IN [i \in DOMAIN own |-> own[i][3]]]
IniGet(values, section, key) ==
    IF << section, key >> \in DOMAIN IniStore(values) THEN IniStore(values)[<< section, key >>] ELSE << >>

IniCall ==
    NoCall /\ \E a \in IniCalls :
        LET Got(o) == [read |-> o, got |-> IF o.error THEN << >> ELSE IniGet(o.values, << "s" >>, << "k" >>)]
        IN  call' = Called("ini", a, Got(IniRead(IF a.written THEN IniWritten(a.values) ELSE a.lines, a.strict)))
-----------------------------------------------------------------------------
(* An info file: the sections in the order of their names, and a checksum   *)
(* of all that comes before it.                                             *)

SectionOrder == << "backrest", "backup:current", "cipher", "db", "db:history" >>
Rank(section) == IF section = None THEN Len(SectionOrder) + 1 ELSE SelectInSeq(SectionOrder, LAMBDA s : s = section)

\* infoSaveSection()
SaveSection(lines, section, next) ==
    /\ lines # << >> => Rank(Last(lines).section) < Rank(section)
    /\ Rank(next) > Rank(section)
Line(section, key, n) == [section |-> section, key |-> key, n |-> n]

\* Faulty variant of BackupSections: whatever comes next.
BackupSectionsLate(info, next, lines) ==
    IF info.kind = "backup" /\ next = None
    THEN lines \o [i \in DOMAIN info.listed |-> Line("backup:current", i, info.listed[i])]
    ELSE lines

\* infoBackupSaveCallback()
BackupSections(info, next, lines) ==
    IF info.kind = "backup" /\ SaveSection(lines, "backup:current", next)
    THEN lines \o [i \in DOMAIN info.listed |-> Line("backup:current", i, info.listed[i])]
    ELSE lines

\* infoPgSaveCallback(): the history is written from the oldest to the newest.
PgSections(info, next, lines) ==
    LET db == IF SaveSection(lines, "db", next)
              THEN BackupSections(info, "db", lines) \o << Line("db", 0, info.history[1].id) >> ELSE lines
        before == IF SaveSection(db, "db:history", next) THEN BackupSections(info, "db:history", db) ELSE db
        history == Reverse(info.history)
        all == IF SaveSection(db, "db:history", next)
               THEN before \o [i \in DOMAIN history |-> Line("db:history", history[i].id, history[i].pg)] ELSE db
    IN  BackupSections(info, next, all)

WithCipher(info, lines) ==
    IF info.pass = 0 THEN lines ELSE PgSections(info, "cipher", lines) \o << Line("cipher", 0, info.pass) >>

\* infoSave()
InfoSave(info) ==
    LET first == PgSections(info, "backrest", << >>) \o << Line("backrest", 0, 5) >>
        File(lines) == [lines |-> lines, sum |-> lines]
    IN  File(PgSections(info, None, WithCipher(info, first)))

\* Faulty variant of PgAdded: entries are kept in the order of the file.
PgAddedLast(history, entry) == Append(history, entry)

\* infoPgLoadCallback(), infoPgAdd()
PgAdded(history, entry) == << entry >> \o history

NoInfoFile == [kind |-> None, pass |-> 0, history |-> << >>, listed |-> << >>]

\* infoNewLoad(), infoPgNewLoad(), infoBackupNewLoad()
InfoNewLoad(kind, file) ==
    LET In(section) == SelectSeq(file.lines, LAMBDA x : x.section = section)
        history == FoldLeft(LAMBDA h, x : PgAdded(h, [id |-> x.key, pg |-> x.n]), << >>, In("db:history"))
        pass == In("cipher")
        listed == In("backup:current")
        current == In("db")
    IN  IF \/ file.sum = << >> \/ file.sum # file.lines \/ history = << >> \/ current = << >>
           \/ \E x \in Range(In("backrest")) : x.key = 0 /\ x.n # 5
           \/ \A x \in Range(history) : x.id # current[1].n
        THEN NoInfoFile
        ELSE [kind |-> kind, pass |-> IF pass = << >> THEN 0 ELSE pass[1].n, history |-> history,
              listed |-> [i \in DOMAIN listed |-> listed[i].n]]

\* A write that ends early leaves the lines before, and no checksum.
Torn(file, n) == [lines |-> SubSeq(file.lines, 1, n), sum |-> << >>]
InfoSavedLoaded(a, file) ==
    [sections |-> [i \in DOMAIN file.lines |-> Rank(file.lines[i].section)],
     load |-> InfoNewLoad(a.info.kind, IF a.cut < Len(file.lines) THEN Torn(file, a.cut) ELSE file)]
InfoFileCall ==
    NoCall /\ \E a \in InfoCalls : call' = Called("infofile", a, InfoSavedLoaded(a, InfoSave(a.info)))

\* Faulty variant of LoadErrorType: the error of the first file.
LoadErrorTypeFirst(old, new) == IF old = None THEN new ELSE old

\* infoLoad(): what it says when no file could be loaded.
LoadErrorType(old, new) ==
    IF old = None \/ (old # new /\ old = "missing") THEN new
    ELSE IF old # new /\ new # "missing" THEN "open"
    ELSE old

\* infoLoad(): the file, then the copy.  Each is ok or an error.
InfoLoad(files) ==
    LET Try(o, is) == IF o.loaded > 0 THEN o
                      ELSE IF is = "ok" THEN [o EXCEPT !.loaded = o.try + 1]
                      ELSE [o EXCEPT !.error = LoadErrorType(@, is), !.try = @ + 1]
    IN  Try(Try([loaded |-> 0, error |-> None, try |-> 0], files[1]), files[2])
InfoLoadCall == NoCall /\ \E a \in LoadFileCalls : call' = Called("infoload", a, InfoLoad(a))
-----------------------------------------------------------------------------
(* A row of backup:current.  Keys are read in their order only: a key that  *)
(* is not the next one is passed over or is not there.                      *)

SaveRow == << "backrest-format", "backrest-version", "backup-annotation", "backup-archive-start", "backup-archive-stop",
    "backup-error", "backup-info-repo-size", "backup-info-repo-size-delta", "backup-info-repo-size-map",
    "backup-info-repo-size-map-delta", "backup-info-size", "backup-info-size-delta", "backup-lsn-start", "backup-lsn-stop",
    "backup-prior", "backup-reference", "backup-timestamp-start", "backup-timestamp-stop", "backup-type", "db-id",
    "option-archive-check", "option-archive-copy", "option-backup-standby", "option-checksum-page", "option-compress",
    "option-hardlink", "option-online" >>
OptionalKeys == {"backup-annotation", "backup-archive-start", "backup-archive-stop", "backup-error", "backup-info-repo-size-map",
             "backup-info-repo-size-map-delta", "backup-lsn-start", "backup-lsn-stop", "backup-prior", "backup-reference"}

\* Faulty variant of LoadRow: prior and reference the other way round.
LoadRowSwapped == [i \in DOMAIN SaveRow |-> CASE SaveRow[i] = "backup-prior" -> "backup-reference"
                                              [] SaveRow[i] = "backup-reference" -> "backup-prior" [] OTHER -> SaveRow[i]]

\* infoBackupLoadCallback(): the order in which the keys are looked for.
LoadRow == << "backrest-format", "backrest-version", "backup-annotation", "backup-archive-start", "backup-archive-stop",
    "backup-error", "backup-info-repo-size", "backup-info-repo-size-delta", "backup-info-repo-size-map",
    "backup-info-repo-size-map-delta", "backup-info-size", "backup-info-size-delta", "backup-lsn-start", "backup-lsn-stop",
    "backup-prior", "backup-reference", "backup-timestamp-start", "backup-timestamp-stop", "backup-type", "db-id",
    "option-archive-check", "option-archive-copy", "option-backup-standby", "option-checksum-page", "option-compress",
    "option-hardlink", "option-online" >>
KeyRank(key) == SelectInSeq(SaveRow, LAMBDA k : k = key)

\* infoBackupSaveCallback(): sizes of maps are there for both or for neither.
RowSaved(with) == SelectSeq(SaveRow, LAMBDA k : k \notin OptionalKeys \/ k \in with)
RowLoaded(keys) ==
    LET At(o, key) ==
            LET rest == SelectSeq(o.rest, LAMBDA k : KeyRank(k) >= KeyRank(key))
                found == rest # << >> /\ Head(rest) = key
            IN  IF o.error THEN o
                ELSE IF found THEN [o EXCEPT !.rest = Tail(rest), !.got = @ \cup {key}]
                ELSE [o EXCEPT !.rest = rest, !.error = key \notin OptionalKeys]
    IN  FoldLeft(At, [rest |-> keys, got |-> {}, error |-> FALSE], LoadRow)
RowCall == NoCall /\ \E a \in RowCalls : call' = Called("row", a, RowLoaded(RowSaved(a)))
-----------------------------------------------------------------------------
(* The list of backups.                                                     *)

Labels(listed) == {listed[i].label : i \in DOMAIN listed}

\* infoBackupDataDependentList(): the list is in the order of the labels.
DependentList(listed, label) ==
    FoldLeft(LAMBDA S, b : IF b.prior \in S THEN S \cup {b.label} ELSE S, {label}, listed)

\* Faulty variant of ListWithout: those that depend on it stay.
ListWithoutOne(listed, label) == SelectSeq(listed, LAMBDA b : b.label # label)

\* A backup without its manifest goes, with all that depend on it.
ListWithout(listed, label) ==
    LET gone == DependentList(listed, label) IN SelectSeq(listed, LAMBDA b : b.label \notin gone)

\* infoBackupDataAdd() ends with a sort.
ListWith(listed, b) == SetToSortSeq(Range(listed) \cup {b}, LAMBDA x, y : x.label < y.label)

\* infoBackupLoadFileReconstruct().  disk: the directories, with what their
\* backup.manifest says, if they have one.
Reconstruct(a) ==
    LET Has(label) == \E m \in Range(a.disk) : m.label = label /\ m.manifest
        left == FoldLeft(LAMBDA l, b : IF ~Has(b.label) /\ b.label \in Labels(l) THEN ListWithout(l, b.label) ELSE l,
                         a.listed, a.listed)
        Fits(l, m) == m.pg \in a.history /\ (m.prior = 0 \/ m.prior \in Labels(l))
    IN  FoldLeft(LAMBDA l, m : IF m.label \notin Labels(left) /\ m.manifest /\ Fits(l, m)
                               THEN ListWith(l, [label |-> m.label, prior |-> m.prior]) ELSE l,
                 left, a.disk)
ReconstructCall == NoCall /\ \E a \in ReconstructCalls : call' = Called("reconstruct", a, Reconstruct(a))

\* A file that is stored as it is has no size of its own in the repository.
StoredSize(f) == IF f.repo > 0 THEN f.repo ELSE f.size

\* infoBackupDataAdd(): sizes of a backup, and of what is new in it.
SizesOf(files) ==
    LET Add(s, f) ==
            LET new == IF f.reference THEN 0 ELSE 1
            IN  [size |-> s.size + f.size, repo |-> s.repo + StoredSize(f), map |-> s.map + f.map,
                 newSize |-> s.newSize + new * f.size, newRepo |-> s.newRepo + new * StoredSize(f),
                 newMap |-> s.newMap + new * f.map, error |-> s.error \/ f.pageError]
    IN  FoldLeft(Add, [size |-> 0, repo |-> 0, map |-> 0, newSize |-> 0, newRepo |-> 0, newMap |-> 0, error |-> FALSE], files)

\* A full backup, and a next one that refers to the files that did not change.
SizeCall ==
    NoCall /\ \E a \in SizeCalls :
        LET next == [i \in DOMAIN a.files |-> IF i \in a.changed THEN a.files[i] ELSE [a.files[i] EXCEPT !.reference = TRUE]]
        IN  call' = Called("sizes", a, [full |-> SizesOf(a.files), next |-> SizesOf(next)])

\* infoBackupDataAnnotationSet(): an empty value removes the key.
Annotated(old, new) ==
    [k \in {x \in DOMAIN old \cup DOMAIN new : x \in DOMAIN new => new[x] # ""} |-> IF k \in DOMAIN new THEN new[k] ELSE old[k]]

\* cmdAnnotate(): every repository, or the one that is given, is read; what is
\* changed is written to the default repository, whichever it was read from.
\* repos: the annotation of each backup that is listed.
AnnotateRepos(a) ==
    LET default == IF a.repo = 0 THEN 1 ELSE a.repo
        At(repos, i) == IF a.label \in DOMAIN a.repos[i]
                        THEN [repos EXCEPT ![default] = [a.repos[i] EXCEPT ![a.label] = a.value]] ELSE repos
    IN  FoldLeft(At, a.repos, IF a.repo = 0 THEN [i \in DOMAIN a.repos |-> i] ELSE << a.repo >>)
AnnotateCall == NoCall /\ \E a \in AnnotateCalls : call' = Called("annotaterepos", a, AnnotateRepos(a))
AnnotationCall == NoCall /\ \E a \in AnnotationCalls : call' = Called("annotation", a, Annotated(a.old, a.new))

\* infoArchiveIdHistoryMatch(): the entry of the backup, or the newest one for
\* the same cluster.  history: from the newest to the oldest.
ArchiveIdMatch(history, id, pg) ==
    LET exact == SelectSeq(history, LAMBDA h : h.id = id /\ h.pg = pg)
        same == SelectSeq(history, LAMBDA h : h.pg = pg)
    IN  IF exact # << >> THEN exact[1].id ELSE IF same # << >> THEN same[1].id ELSE 0
ArchiveIdCall == NoCall /\ \E a \in ArchiveIdCalls : call' = Called("archiveid", a, ArchiveIdMatch(a.history, a.id, a.pg))
-----------------------------------------------------------------------------
(* The stanza in one repository.  A file is missing, bad or holds a history *)
(* from the newest to the oldest cluster and the passphrase of what is      *)
(* stored with it.  A command decides first and writes file by file (todo); *)
(* the lock keeps the others away, but archive-push does not take it.       *)

Missing == [is |-> "missing", pass |-> 0, history |-> << >>, n |-> 0]
Of(info) == [is |-> "ok", pass |-> info.pass, history |-> info.history, n |-> info.n]
Places == {<< "archive", "main" >>, << "archive", "copy" >>, << "backup", "main" >>, << "backup", "copy" >>}

NewRepository(pg) ==
    [file |-> [p \in Places |-> Missing], stored |-> [archive |-> {}, backup |-> {}], stop |-> FALSE, pg |-> pg,
     todo |-> << >>, passes |-> 0, faults |-> 0, kills |-> 0, did |-> "new"]

\* infoArchiveLoadFile(), infoBackupLoadFile()
LoadPair(o, kind) ==
    LET files == << o.file[<< kind, "main" >>], o.file[<< kind, "copy" >>] >>
        n == InfoLoad([i \in 1..2 |-> files[i].is]).loaded
    IN  IF n = 0 THEN Missing ELSE files[n]
Loads(o, kind) == LoadPair(o, kind).is = "ok"
CurrentPg(o, kind) == LoadPair(o, kind).history[1]
InfoExists(o, kind, part) == o.file[<< kind, part >>].is # "missing"

Write(kind, part, file) == [op |-> "write", place |-> << kind, part >>, file |-> file]
RemoveInfo(kind, part) == [op |-> "remove", place |-> << kind, part >>, file |-> Missing]
RemovePath(kind) == [op |-> "path", place |-> << kind, "main" >>, file |-> Missing]
RemoveStop == [op |-> "stop", place |-> << "archive", "main" >>, file |-> Missing]

\* Faulty variant of ArchiveSaveFile: the copy first.
ArchiveSaveFileCopyFirst(file) == << Write("archive", "copy", file), Write("archive", "main", file) >>

\* infoArchiveSaveFile()
ArchiveSaveFile(file) == << Write("archive", "main", file), Write("archive", "copy", file) >>

\* infoBackupSaveFile()
BackupSaveFile(file) == << Write("backup", "main", file), Write("backup", "copy", file) >>

\* checkStanzaInfo(), checkStanzaInfoPg()
InfoAgree(archive, backup) == archive = backup
InfoFitsPg(o, pg) ==
    /\ Loads(o, "archive") /\ Loads(o, "backup")
    /\ InfoAgree(CurrentPg(o, "archive"), CurrentPg(o, "backup"))
    /\ CurrentPg(o, "archive").pg = pg

\* infoPgSet(): the next id, of the cluster there is now.
PgSet(file, pg) == [file EXCEPT !.history = << [id |-> file.history[1].id + 1, pg |-> pg] >> \o @]
BeginStanza(o, did, todo) == [o EXCEPT !.todo = todo, !.did = did]

\* Faulty variant of NothingStored: only the directory of the archive is looked at.
NothingStoredArchive(o) == o.stored.archive = {}

\* What is in the directories when there is no info file.
NothingStored(o) == o.stored.archive = {} /\ o.stored.backup = {}

NewInfo(o, n) == [is |-> "ok", pass |-> o.passes + n, history |-> << [id |-> 1, pg |-> o.pg] >>, n |-> 0]
CopyOf(o, kind) ==
    LET from == IF InfoExists(o, kind, "main") THEN "main" ELSE "copy"
        to == IF InfoExists(o, kind, "main") THEN "copy" ELSE "main"
    IN  IF InfoExists(o, kind, "main") /\ InfoExists(o, kind, "copy") THEN << >> ELSE << Write(kind, to, o.file[<< kind, from >>]) >>

\* cmdStanzaCreate(): one repository.  None: it fails.
Create(o) ==
    LET There(kind) == InfoExists(o, kind, "main") \/ InfoExists(o, kind, "copy")
    IN  IF o.stop THEN {}
        ELSE IF ~There("archive") /\ ~There("backup")
             THEN IF NothingStored(o)
                  THEN {[BeginStanza(o, "create", ArchiveSaveFile(NewInfo(o, 1)) \o BackupSaveFile(NewInfo(o, 2))) EXCEPT !.passes = @ + 2]}
                  ELSE {}
        ELSE IF There("archive") /\ There("backup") /\ InfoFitsPg(o, o.pg)
             THEN {BeginStanza(o, "create", CopyOf(o, "archive") \o CopyOf(o, "backup"))}
        ELSE {}

\* Faulty variant of Upgraded: what is written is not compared.
UpgradedUnchecked(archive, backup) == TRUE

\* The files need not have been upgraded together, but must be the same then.
Upgraded(archive, backup) == InfoAgree(archive.history[1], backup.history[1])

\* cmdStanzaUpgrade(): one repository.
UpgradeStanza(o) ==
    LET Next(kind) == IF CurrentPg(o, kind).pg = o.pg THEN LoadPair(o, kind) ELSE PgSet(LoadPair(o, kind), o.pg)
        Writes(kind, S) == IF CurrentPg(o, kind).pg = o.pg THEN << >> ELSE S
    IN  IF o.stop \/ ~Loads(o, "archive") \/ ~Loads(o, "backup") THEN {}
        ELSE IF ~Upgraded(Next("archive"), Next("backup")) THEN {}
        ELSE {BeginStanza(o, "upgrade", Writes("archive", ArchiveSaveFile(Next("archive"))) \o Writes("backup", BackupSaveFile(Next("backup"))))}

\* Faulty variant of DeleteInfo: the info files go with the directory.
DeleteInfoNone(o, kind) == << >>

\* The info files go first, so that nothing else can be stored.
DeleteInfo(o, kind) ==
    IF o.stored[kind] # {} \/ InfoExists(o, kind, "main") \/ InfoExists(o, kind, "copy")
    THEN << RemoveInfo(kind, "main"), RemoveInfo(kind, "copy") >> ELSE << >>

\* cmdStanzaDelete(): PostgreSQL is down or --force is given.  Directories with
\* nothing in them may be there or not.
DeleteStanza(o) ==
    LET Filled(kind) == DeleteInfo(o, kind) # << >> \/ o.stored[kind] # {}
    IN  IF (Filled("archive") \/ Filled("backup")) /\ ~o.stop THEN {}
        ELSE IF ~Filled("archive") /\ ~Filled("backup") THEN {BeginStanza(o, "delete", S) : S \in {<< >>, << RemoveStop >>}}
        ELSE {BeginStanza(o, "delete", DeleteInfo(o, "archive") \o DeleteInfo(o, "backup")
                                 \o << RemovePath("archive"), RemovePath("backup"), RemoveStop >>)}

\* A backup ends with backup.info; it is stored with the passphrase it read.
BackupStanza(o) ==
    LET info == LoadPair(o, "backup")
        next == [info EXCEPT !.n = @ + 1]
    IN  IF o.stop \/ ~Loads(o, "backup") \/ ~Loads(o, "archive") \/ CurrentPg(o, "backup").pg # o.pg \/ info.n >= MaxList THEN {}
        ELSE {[BeginStanza(o, "backup", BackupSaveFile(next)) EXCEPT !.stored.backup = @ \cup {info.pass}]}

\* archive-push reads archive.info and stores.
PushStanza(o) ==
    LET info == LoadPair(o, "archive")
    IN  IF o.stop \/ ~Loads(o, "archive") \/ CurrentPg(o, "archive").pg # o.pg THEN {}
        ELSE {[o EXCEPT !.stored.archive = @ \cup {info.pass}]}

\* The next write of the command.
StanzaStep(o) ==
    LET next == Head(o.todo)
        p == next.place
        done == [o EXCEPT !.todo = Tail(@)]
    IN  IF next.op = "stop" THEN [done EXCEPT !.stop = FALSE]
        ELSE IF next.op = "path"
             THEN [done EXCEPT !.stored[p[1]] = {}, !.file[<< p[1], "main" >>] = Missing, !.file[<< p[1], "copy" >>] = Missing]
        ELSE [done EXCEPT !.file[p] = next.file]

\* A path that is removed when the command is killed keeps some of its files.
StanzaKilled(o) ==
    LET p == Head(o.todo).place[1]
        killed == [o EXCEPT !.todo = << >>, !.did = "killed", !.kills = @ + 1]
    IN  IF Head(o.todo).op = "path" THEN {[killed EXCEPT !.stored[p] = S] : S \in SUBSET o.stored[p]} ELSE {killed}

\* A file is lost or cannot be read any more.
FileFault(o, p, is) == [o EXCEPT !.file[p].is = is, !.faults = @ + 1, !.did = "fault"]
StanzaFault(o) == {FileFault(o, p, is) : p \in {q \in Places : o.file[q].is = "ok"}, is \in {"missing", "bad"}}

StanzaNew == NoCall /\ \E pg \in Clusters : call' = Made("stanza", NewRepository(pg))
Idle == Returns("stanza") /\ call.obj.todo = << >>
Becomes(S) == \E o \in S : Become(o)
StanzaCreate == Idle /\ call.obj.passes + 2 <= MaxPass /\ Becomes(Create(call.obj))
StanzaUpgrade == Idle /\ (Loads(call.obj, "archive") => Len(LoadPair(call.obj, "archive").history) < MaxHistory) /\ Becomes(UpgradeStanza(call.obj))
StanzaDelete == Idle /\ Becomes(DeleteStanza(call.obj))
StanzaBackup == Idle /\ Becomes(BackupStanza(call.obj))
StanzaStop == Idle /\ \E stop \in BOOLEAN : Become([call.obj EXCEPT !.stop = stop])
StanzaCluster == Idle /\ \E pg \in Clusters : Become([call.obj EXCEPT !.pg = pg, !.did = "cluster"])
StanzaPush == Returns("stanza") /\ Becomes(PushStanza(call.obj))
StanzaWrite == Returns("stanza") /\ call.obj.todo # << >> /\ Become(StanzaStep(call.obj))
StanzaKill == Returns("stanza") /\ call.obj.todo # << >> /\ call.obj.kills < MaxKill /\ Becomes(StanzaKilled(call.obj))
StanzaDamage == Returns("stanza") /\ call.obj.faults < MaxFault /\ Becomes(StanzaFault(call.obj))
-----------------------------------------------------------------------------
(* The clusters and what check finds.                                       *)

\* dbGet(): the primary and a standby among those that answer.
DbGet(a) ==
    LET See(o, i) ==
            IF o.error # None \/ a.pg[i].is = "down" THEN o
            ELSE IF a.pg[i].is = "standby" THEN IF o.standby = 0 /\ ~a.primaryOnly THEN [o EXCEPT !.standby = i] ELSE o
            ELSE IF o.primary # 0 THEN [o EXCEPT !.error = "two primaries"]
            ELSE [o EXCEPT !.primary = i]
        all == FoldLeft(See, [primary |-> 0, standby |-> 0, error |-> None], [i \in DOMAIN a.pg |-> i])
    IN  IF all.error = None /\ all.primary = 0 /\ a.primaryRequired THEN [all EXCEPT !.error = "no primary"]
        ELSE IF all.error = None /\ all.standby = 0 /\ a.standby = "y" THEN [all EXCEPT !.error = "no standby"]
        ELSE all

\* checkDbConfig(), checkArchiveCommand()
DbConfigError(a, pg, standby) ==
    IF ~pg.matches THEN "mismatch"
    ELSE IF standby \/ ~a.archiveCheck THEN None
    ELSE IF a.mode = "off" THEN "disabled"
    ELSE IF a.modeCheck /\ a.mode = "always" THEN "unsupported"
    ELSE IF ~a.command THEN "command" ELSE None

\* checkStanzaInfoPg() for each repository.
ReposError(a, pg) ==
    IF \E r \in Range(a.repos) : r.archive = 0 \/ r.backup = 0 \/ ~InfoAgree(r.archive, r.backup) \/ r.archive # pg.cluster
    THEN "info" ELSE None

FirstError(errors) == LET e == SelectSeq(errors, LAMBDA x : x # None) IN IF e = << >> THEN None ELSE e[1]

\* checkStandby()
CheckStandby(a, db) ==
    IF db.standby = 0 THEN None
    ELSE FirstError(<< IF db.primary = 0 /\ (Len(a.pg) > 1 \/ \E r \in Range(a.repos) : r.local) THEN "no primary" ELSE None,
                       DbConfigError(a, a.pg[db.standby], TRUE), ReposError(a, a.pg[db.standby]) >>)

\* Faulty variant of WaitForWal: the first repository is enough.
WaitForWalFirst(repos) == IF repos # << >> /\ ~repos[1].arrives THEN "timeout" ELSE None

\* A segment is switched and must arrive in each repository.
WaitForWal(repos) == IF \E r \in Range(repos) : ~r.arrives THEN "timeout" ELSE None

\* checkPrimary()
CheckPrimary(a, db) ==
    IF db.primary = 0 THEN None
    ELSE FirstError(<< DbConfigError(a, a.pg[db.primary], FALSE), ReposError(a, a.pg[db.primary]), WaitForWal(a.repos) >>)

\* cmdCheck() for one stanza: neither of them has to be there, but one has.
Check(a) ==
    LET db == DbGet([pg |-> a.pg, primaryOnly |-> FALSE, primaryRequired |-> FALSE, standby |-> "n"])
    IN  [db |-> db, error |-> FirstError(<< db.error, IF db.primary = 0 /\ db.standby = 0 THEN "no database" ELSE None,
                                            CheckStandby(a, db), CheckPrimary(a, db) >>)]
CheckCall == NoCall /\ \E a \in CheckCalls : call' = Called("check", a, Check(a))

\* pgValidate(): stanza-create and stanza-upgrade ask the primary, or read pg1.
PgValidate(a) ==
    IF ~a.online THEN [error |-> None, from |-> 1]
    ELSE LET db == DbGet([pg |-> a.pg, primaryOnly |-> FALSE, primaryRequired |-> TRUE, standby |-> "n"])
             error == IF db.error # None THEN db.error ELSE DbConfigError(a, a.pg[db.primary], FALSE)
         IN  [error |-> error, from |-> db.primary]
PgValidateCall == NoCall /\ \E a \in CheckCalls, online \in BOOLEAN :
    call' = Called("pgvalidate", [online |-> online] @@ a, PgValidate([online |-> online] @@ a))

\* Faulty variant of ReportSingle: values are shown whatever they are.
ReportSingleShown(option, values) == values[1]

\* A single value; a secret is shown by its name.
ReportSingle(option, values) == IF option.secure THEN "<secret>" ELSE values[1]

\* checkReportConfigVal()
ReportValue(option, values, env) ==
    [values |-> IF ~option.found THEN << >>
                ELSE IF option.multi THEN (IF env THEN FlattenSeq(values) ELSE [i \in DOMAIN values |-> values[i][1]])
                ELSE << ReportSingle(option, values[1]) >>,
     warn |-> IF ~option.found THEN "option" ELSE IF option.negate THEN "negate" ELSE IF option.reset THEN "reset" ELSE None]

\* checkReportConfigEnv(), checkReportConfigFile(): variables of ours, and every
\* key of the file.
ReportEnv(a) == {[key |-> e.key, value |-> ReportValue(a.option[e.key], << e.value >>, TRUE)] : e \in {x \in a.env : x.ours}}
ReportFile(a) == {[key |-> e.key, value |-> ReportValue(a.option[e.key], << e.value >>, FALSE)] : e \in a.file}
ReportCall == NoCall /\ \E a \in ReportCalls : call' = Called("report", a, ReportEnv(a) \cup ReportFile(a))

StanzaNext ==
    \/ IniCall \/ InfoFileCall \/ InfoLoadCall \/ RowCall \/ ReconstructCall \/ SizeCall \/ AnnotationCall \/ AnnotateCall \/ ArchiveIdCall
    \/ StanzaNew \/ StanzaCreate \/ StanzaUpgrade \/ StanzaDelete \/ StanzaBackup \/ StanzaStop \/ StanzaCluster
    \/ StanzaPush \/ StanzaWrite \/ StanzaKill \/ StanzaDamage \/ CheckCall \/ PgValidateCall \/ ReportCall
-----------------------------------------------------------------------------
(* What is written is read again, whatever the names of files are, and a    *)
(* file that was not written to its end is refused.                         *)
InfoReadBack ==
    /\ Returns("ini") /\ call.arg.written => ~call.result.read.error /\ call.result.read.values = call.arg.values
    /\ Returns("infofile") =>
          IF call.arg.cut < Len(call.result.sections) THEN call.result.load = NoInfoFile
          ELSE /\ call.result.load = call.arg.info
               /\ \A i, j \in DOMAIN call.result.sections : i < j => call.result.sections[i] <= call.result.sections[j]
    /\ Returns("row") => ~call.result.error /\ call.result.got = Range(RowSaved(call.arg))

(* The error of a load says that a file is missing only when both are.      *)
InfoErrorTrue ==
    Returns("infoload") =>
        IF \E i \in 1..2 : call.arg[i] = "ok" THEN call.arg[call.result.loaded] = "ok"
        ELSE /\ call.result.loaded = 0
             /\ call.result.error = "missing" <=> call.arg = << "missing", "missing" >>
             /\ call.result.error = "crypto" => "crypto" \in Range(call.arg)

(* The list of backups: each has its manifest and all that it depends on,   *)
(* and each that could be restored is listed.  A backup's size is what is   *)
(* new in it and what it refers to.  annotate keeps each repository's list, *)
(* when the default repository is the only one that has the backup.         *)
ListRestorable ==
    /\ Returns("reconstruct") =>
          LET l == call.result
              a == call.arg
              Complete(m) == m.manifest /\ m.pg \in a.history
          IN  /\ \A i \in DOMAIN l : /\ \E m \in Range(a.disk) : m.label = l[i].label /\ m.manifest /\ m.prior = l[i].prior
                                     /\ l[i].prior # 0 => l[i].prior \in Labels(l)
                                     /\ i > 1 => l[i - 1].label < l[i].label
              /\ \A m \in Range(a.disk) :
                    Complete(m) /\ (m.prior = 0 \/ m.prior \in Labels(l)) /\ m.label \notin Labels(a.listed) => m.label \in Labels(l)
    /\ Returns("sizes") =>
          LET kept == {i \in DOMAIN call.arg.files : i \notin call.arg.changed}
              Kept(F(_)) == FoldLeft(LAMBDA n, i : n + F(call.arg.files[i]), 0, SetToSeq(kept))
          IN  /\ call.result.next.repo = call.result.next.newRepo + Kept(LAMBDA f : StoredSize(f))
              /\ call.result.full.repo = call.result.full.newRepo /\ call.result.next.size = call.result.full.size
    /\ Returns("archiveid") /\ call.result # 0 =>
          \E h \in Range(call.arg.history) : h.id = call.result /\ h.pg = call.arg.pg
    /\ Returns("annotaterepos") /\ (call.arg.repo # 0 \/ \A i \in 2..Len(call.arg.repos) : call.arg.label \notin DOMAIN call.arg.repos[i]) =>
          /\ \A i \in DOMAIN call.arg.repos : DOMAIN call.result[i] = DOMAIN call.arg.repos[i]
          /\ \A i \in DOMAIN call.arg.repos, l \in {"A", "B"} :
                l \in DOMAIN call.arg.repos[i] /\ call.result[i][l] # call.arg.repos[i][l] => l = call.arg.label
    /\ Returns("annotation") => \A k \in DOMAIN call.result : call.result[k] # ""

Mains(o) == \A kind \in {"archive", "backup"} : o.file[<< kind, "main" >>].is = "ok"

(* A stanza in a repository, whatever is killed, lost or damaged: archive   *)
(* and backup have seen the same clusters but for the last one, a command   *)
(* that ends well leaves what it promises, the copy is never ahead of the   *)
(* file, and the passphrase of all that is stored is kept.                  *)
StanzaKept ==
    Returns("stanza") =>
        LET o == call.obj
            ended == o.todo = << >>
            archive == LoadPair(o, "archive")
            backup == LoadPair(o, "backup")
        IN  /\ Loads(o, "archive") /\ Loads(o, "backup") /\ (o.kills = 0 \/ (o.faults = 0 /\ Mains(o))) =>
                  IsSuffix(backup.history, archive.history) /\ Len(archive.history) <= Len(backup.history) + 1
            /\ ended /\ o.did \in {"create", "upgrade"} => InfoFitsPg(o, o.pg)
            /\ ended /\ o.did = "create" => \A p \in Places : o.file[p].is # "missing"
            /\ ended /\ o.did = "delete" => ~Loads(o, "archive") /\ ~Loads(o, "backup") /\ NothingStored(o)
            /\ \A kind \in {"archive", "backup"} :
                  LET main == o.file[<< kind, "main" >>]
                      copy == o.file[<< kind, "copy" >>]
                  IN  /\ main.is = "ok" /\ copy.is = "ok" => IsSuffix(copy.history, main.history) /\ main.pass = copy.pass /\ copy.n <= main.n
                      /\ ended /\ o.kills = 0 /\ main.is = "ok" /\ copy.is = "ok" => main = copy
                      /\ Loads(o, kind) => o.stored[kind] \subseteq {LoadPair(o, kind).pass}

(* check is content only with what archive-push and backup need, in each    *)
(* repository, and its report shows no secrets.                             *)
CheckTells ==
    /\ Returns("check") /\ call.result.error = None =>
          LET db == call.result.db
              pg == call.arg.pg[IF db.primary # 0 THEN db.primary ELSE db.standby]
          IN  /\ \A r \in Range(call.arg.repos) : r.archive = pg.cluster /\ r.backup = pg.cluster /\ (db.primary # 0 => r.arrives)
              /\ Cardinality({i \in DOMAIN call.arg.pg : call.arg.pg[i].is = "primary"}) <= 1
              /\ pg.is # "down" /\ pg.matches
    /\ Returns("pgvalidate") /\ call.result.error = None /\ call.arg.online => call.arg.pg[call.result.from].is = "primary"
    /\ Returns("report") => \A e \in call.result : call.arg.option[e.key].secure => "pw" \notin Range(e.value.values)

(* What is read and written in the info files, and what check says.        *)
StanzaSound == InfoReadBack /\ InfoErrorTrue /\ ListRestorable /\ CheckTells
=============================================================================
