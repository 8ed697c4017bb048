------------------------------- MODULE MCPlan -------------------------------
(* The decisions that are functions of their arguments, with the arguments  *)
(* they are called with.                                                    *)
EXTENDS RestorePlan, Protocol, Verify, Blocks, MCManifest, MCBackupPlan, MCObjectStore, MCStanza, MCConfig, MCMemory, MCStreams
-----------------------------------------------------------------------------
(* RestorePlan                                                              *)

BackupOf(l, p, s, n) == [label |-> l, pg |-> p, stop |-> s, lsn |-> n]
BackupLists == {<< >>, << BackupOf(1, 1, 1, 1) >>, << BackupOf(1, 1, 1, 0), BackupOf(2, 1, 3, 2) >>,
                << BackupOf(1, 1, 1, 1), BackupOf(2, 1, 2, 0), BackupOf(3, 2, 4, 4) >>,
                << BackupOf(2, 2, 2, 2), BackupOf(3, 2, 3, 3) >>}
RepoLists == {<< r >> : r \in [load : BOOLEAN, pg : 1..2, backups : BackupLists]}
    \cup ([load : BOOLEAN, pg : {2}, backups : BackupLists]
            \X [load : {TRUE}, pg : 1..2, backups : BackupLists])
MCSetCalls == {c \in [repos : RepoLists,
                    option : [type : {"default", "time", "lsn"}, target : 1..4, set : {0, 2}, repo : 0..2]] :
                /\ c.option.repo <= Len(c.repos)
                /\ \A i \in DOMAIN c.repos : \A j \in DOMAIN c.repos[i].backups :
                      c.repos[i].backups[j].pg <= c.repos[i].pg}

Trees == {t \in {[x \in 2..4 |-> [timeline |-> p[x], lsn |-> n[x]]] :
                    p \in {<< 0, 1, b, c >> : b \in 1..2, c \in 1..3},
                    n \in {<< 0, a, b, c >> : a, b, c \in 1..3}} :
            \A x \in 3..4 : t[x].timeline # 1 => t[x].lsn >= t[t[x].timeline].lsn}
Items(t, x) ==
    LET Way[y \in 1..4] == IF y = 1 THEN << >> ELSE Append(Way[t[y].timeline], t[y])
    IN  Way[x]
MCTimelineCalls ==
    {c \in {[tree |-> t, backup |-> b, lsn |-> n, target |-> g[1], number |-> g[2], guc |-> g[3],
             type |-> g[4], history |-> [x \in h |-> Items(t, x)]] :
                t \in Trees, b \in 1..4, n \in 1..3, h \in {2..4, {2, 4}, {}},
                g \in ({"none", "current", "latest"} \X {0} \X BOOLEAN \X {"default", "immediate"})
                        \cup ({"number"} \X (2..4) \X {TRUE} \X {"default"})} :
        c.backup # 1 => c.tree[c.backup].lsn <= c.lsn}

Place(p, f, t, n) == [path |-> p, file |-> f, tblspc |-> t, name |-> n]
MCMapCalls ==
    [target : {("ts" :> Place(<< "v" >>, "none", "16400", "space"))
                 @@ ("wal" :> Place(<< "w" >>, "none", "none", "none"))
                 @@ ("conf" :> Place(<< "etc" >>, "conf", "none", "none"))},
     link : {("ts" :> << "v" >>) @@ ("wal" :> << "w" >>) @@ ("conf" :> << "etc", "conf" >>)},
     files : {{"auto"}}, paths : {{"base", "wal"}}, linkAll : BOOLEAN,
     mapAll : {<< >>, << "all" >>},
     tblspcMap : {<< >>, "16400" :> << "x" >>, "space" :> << "y" >>, "other" :> << "x" >>,
                  ("16400" :> << "x" >>) @@ ("space" :> << "y" >>),
                  ("16400" :> << "x" >>) @@ ("space" :> << "x" >>)},
     linkMap : UNION {[D -> {<< "m" >>, << "m", "n" >>}] :
                        D \in {d \in SUBSET {"wal", "conf", "auto", "base", "ts", "other"} : Cardinality(d) <= 2}}]

Db(i, n) == [id |-> i, name |-> n]
Dbs == {Db(1, "template1"), Db(4, "template0"), Db(5, "postgres"), Db(16390, "app"), Db(16391, "16390")}
Idents == {Db(16390, "16390"), Db(16391, "16391"), Db(-1, "app"), Db(5, "5"), Db(-1, "postgres"), Db(-1, "gone")}
MCSelectCalls ==
    [db : {Dbs, (Dbs \ {Db(5, "postgres")}) \cup {Db(16392, "postgres")}},
     base : {{1, 4, 5, 16390, 16391}, {1, 4, 16390, 16391, 16392}, {1, 4, 5, 16390}, {1, 2, 16391}},
     exclude : {S \in SUBSET Idents : Cardinality(S) <= 2},
     include : {S \in SUBSET Idents : Cardinality(S) <= 2}]

MCRecoveryCalls ==
    [type : {"none", "default", "immediate", "standby", "lsn", "time", "name", "xid"}, guc : BOOLEAN,
     target : {"here"}, exclusive : BOOLEAN, action : {"none", "pause", "promote"},
     timeline : {"none", "current", "latest"}, archiveOff : BOOLEAN,
     option : {<< >>, "restore_command" :> "cp", "standby_mode" :> "off", "primary_conninfo" :> "new"},
     old : {<< >>, ("recovery_target" :> "immediate") @@ ("primary_conninfo" :> "old"),
            ("recovery_target_xid" :> "1") @@ ("recovery_target_timeline" :> "5")}]

Packed(n, copies, gaps) ==
    LET At[i \in 1..n] == IF i = 1 THEN 0 ELSE At[i - 1] + i - 1 + gaps[i]
    IN  [i \in 1..n |-> [offset |-> At[i], limit |-> i, copy |-> copies[i]]]
MCReadCalls == {Packed(4, c, g) : c \in [1..4 -> BOOLEAN], g \in [1..4 -> {0, 3}]}

-----------------------------------------------------------------------------
(* Protocol                                                                 *)

MCAffinity == {<< {1, 2}, {1, 2}, {1, 2} >>, << {1}, {2}, {2} >>, << {1}, {1} >>, << >>}
MCRetryCalls == [outcomes : [1..4 -> {None, "one", "two"}], retries : 0..3]
Opts == [group : {"pg", "repo"}, index : 1..2, value : {"v"}, needed : BOOLEAN]
MCRemoteCalls ==
    [local : BOOLEAN, type : {"pg", "repo"}, host : 1..2, repo : 0..1, options : {Opts, {}, {x \in Opts : x.index = 2}},
     process : 0..1, lockRemote : BOOLEAN]
MCAuthorizeCalls ==
    [certificate : BOOLEAN, command : {"noop", "config"}, list : SUBSET {"*", "a", "b"}, stanza : {None, "a"}]
-----------------------------------------------------------------------------
(* Verify                                                                   *)

Wal(tl, n, is) == [tl |-> tl, n |-> n, is |-> is]
WalPaths == {<< >>, << << Wal(1,1,"ok"), Wal(1,2,"missing") >>, << Wal(1,3,"checksum"), Wal(1,5,"ok") >> >>,
          << << Wal(1,1,"ok"), Wal(1,1,"size"), Wal(1,2,"error") >>, << Wal(2,3,"ok"), Wal(2,4,"missing") >> >>,
          << << Wal(1,1,"ok"), Wal(1,1,"ok") >>, << Wal(1,2,"size") >> >>}
VFile(n, ref, kind, is) == [name |-> n, ref |-> ref, kind |-> kind, is |-> is]
InfoStates == [main : {"ok", "bad", "missing"}, copy : {"ok", "bad", "missing"}]
InfoGood == [main |-> "ok", copy |-> "ok"]
FullFiles(i, k) == << VFile("a", 0, "plain", i[1]), VFile("b", 0, k, i[2]), VFile("c", 0, "zero", "ok") >>
DiffFiles(i, k) == << VFile("b", 1, k, i[2]), VFile("a", 1, "plain", i[1]), VFile("d", 0, "plain", i[3]) >>
VBackup(listed, known, m, file) == [listed |-> listed, known |-> known, main |-> m.main, copy |-> m.copy, file |-> file]
VerifyBackups ==
    {<< >>, << VBackup(TRUE, TRUE, InfoGood, << >>) >>}
    \cup {<< VBackup(TRUE, kn, m, FullFiles(i, k)), VBackup(l, TRUE, m2, DiffFiles(i, k)) >> :
            kn \in BOOLEAN, m \in {InfoGood, [main |-> "missing", copy |-> "missing"], [main |-> "bad", copy |-> "ok"]}, l \in BOOLEAN,
            m2 \in {InfoGood, [main |-> "missing", copy |-> "ok"], [main |-> "bad", copy |-> "missing"]},
            i \in {<<"ok","ok","ok">>, <<"ok","size","ok">>, <<"missing","ok","ok">>, <<"ok","ok","error">>}, k \in {"plain", "bundle", "block"}}
VRepo(ai, bi, h, a, b) == [archiveInfo |-> ai, backupInfo |-> bi, historyEqual |-> h, archive |-> a, backup |-> b]
MCVerifyRepos ==
    {VRepo(InfoGood, InfoGood, TRUE, << >>, b) : b \in VerifyBackups}
    \cup {VRepo(InfoGood, InfoGood, TRUE, << [known |-> k, path |-> p] >>, b) : k \in BOOLEAN, p \in WalPaths,
            b \in {<< >>, << VBackup(TRUE, TRUE, InfoGood, FullFiles(<<"ok","size">>, "plain")) >>}}
    \cup {VRepo(InfoGood, InfoGood, TRUE, << [known |-> TRUE, path |-> p], [known |-> TRUE, path |-> q] >>, << >>) : p, q \in WalPaths}
    \cup {VRepo(ai, bi, h, << [known |-> TRUE, path |-> << << Wal(1,1,"ok") >> >>] >>, << >>) : ai, bi \in InfoStates, h \in BOOLEAN}
-----------------------------------------------------------------------------
(* Blocks                                                                   *)

OfSize(n, S) == {[i \in 1..n |-> s[Up(i, BlockSize)]] : s \in [1..Up(n, BlockSize) -> S]}
OfSizes(sizes, S) == UNION {OfSize(n, S) : n \in sizes}
BlockCall(super, input, room, bundle, s1, s2, s3) ==
    [super |-> super, input |-> input, room |-> room, bundle |-> bundle,
     restored |-> {<< >>, << 1, 1, 3, 3, 3, 3, 2, 2, 1, 1 >>, << 2 >>},
     chain |-> << OfSizes(s1, {1}), OfSizes(s2, {1, 2}), OfSizes(s3, {1, 2, 3}) >>]
MCBlockCalls == {BlockCall(4, 3, 5, 0, {7}, {5, 8}, {7}), BlockCall(2, 9, 2, 3, {3, 6}, {6}, {4, 6}),
                 BlockCall(5, 1, 2, 1, {6}, {6}, {4, 5}), BlockCall(6, 4, 9, 0, {10}, {10}, {})}
MCPageCalls == [pages : UNION {[1..n -> {"good", "bad", "zero", "changed"}] : n \in 0..3}, last : {None, "short", "long"}, buffer : 1..2, segment : 0..1, segmentPages : {4}]
-----------------------------------------------------------------------------
VARIABLE part       \* the module whose calls are made

Init == NoCall /\ part \in {"RestorePlan", "Protocol", "Verify", "Blocks", "ManifestBuild", "BackupPlan", "ObjectStore", "Stanza", "Config", "Exec", "Memory", "Library", "Streams"}
Next ==
    /\ UNCHANGED part
    /\ \/ part = "RestorePlan" /\ RestorePlanNext
       \/ part = "Protocol" /\ ProtocolNext
       \/ part = "Verify" /\ VerifyNext
       \/ part = "Blocks" /\ BlocksNext
       \/ part = "ManifestBuild" /\ ManifestBuildNext
       \/ part = "BackupPlan" /\ BackupPlanNext
       \/ part = "ObjectStore" /\ ObjectStoreNext
       \/ part = "Stanza" /\ StanzaNext
       \/ part = "Config" /\ ConfigNext
       \/ part = "Exec" /\ ExecNext
       \/ part = "Memory" /\ MemoryNext
       \/ part = "Library" /\ LibraryNext
       \/ part = "Streams" /\ StreamsNext
Spec == Init /\ [][Next]_<< call, part >>
=============================================================================
