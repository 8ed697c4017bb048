----------------------------- MODULE MCManifest -----------------------------
(* The disks, links, manifests and prior backups that Manifest and          *)
(* ManifestBuild are checked with.                                          *)
EXTENDS ManifestBuild

MCNameOrder ==
    << "/", ".", "..", "1", "16384", "16401", "16401.1", "16401_fsm", "16401_init", "16402", "16500", "5", "PG_16",
       "PG_VERSION", "a", "archive_status", "b", "backup_label", "base", "conf", "d", "extra", "f", "g", "global",
       "pg_control", "pg_data", "pg_internal.init", "pg_notify", "pg_tblspc", "pg_wal", "pgsql_tmp1", "postmaster.pid",
       "recovery.signal", "seg", "t3_16401", "ts", "w", "x" >>
MCOids == {"1", "5", "16384", "16500"}
Matches(is, id) == [is |-> is, id |-> id]
MCKind ==
    [n \in {"16401", "16401.1", "16401_fsm"} |-> Matches("relation", "16401")]
    @@ ("16402" :> Matches("relation", "16402"))
    @@ ("1" :> Matches("relation", "1")) @@ ("5" :> Matches("relation", "5"))
    @@ ("pgsql_tmp1" :> Matches("pgsql_tmp", "")) @@ ("t3_16401" :> Matches("temp", ""))
    @@ ("pg_internal.init" :> Matches("pg_internal.init", ""))

DirNode == [type |-> "path", name |-> None, mode |-> 15, user |-> "pg", group |-> "pg", size |-> 0, time |-> 0, to |-> << >>]
FileNode(size, time) == [DirNode EXCEPT !.type = "file", !.mode = 7, !.size = size, !.time = time]
LinkNode(to) == [DirNode EXCEPT !.type = "link", !.to = to]
In(path, nodes) == [p \in {path \o << n >> : n \in DOMAIN nodes} |-> nodes[Last(p)]]
FilesOf(names, size, time) == [n \in names |-> FileNode(size, time)]

Pg == << "/", "d" >>
Core ==
    (Pg :> DirNode) @@ (<< "/" >> :> DirNode)
    @@ In(Pg, ("base" :> DirNode) @@ ("global" :> DirNode) @@ ("pg_notify" :> DirNode)
              @@ FilesOf({"PG_VERSION", "postmaster.pid", "recovery.signal", "backup_label"}, 1, 5))
    @@ In(Pg \o << "base" >>, ("1" :> DirNode) @@ ("5" :> DirNode) @@ ("pgsql_tmp1" :> DirNode))
    @@ In(Pg \o << "global" >>, FilesOf({"1", "pg_control", "pg_internal.init"}, 2, 3))
    @@ In(Pg \o << "pg_notify" >>, FilesOf({"f"}, 1, 1))
    @@ In(Pg \o << "base", "pgsql_tmp1" >>, FilesOf({"f"}, 1, 1))
Relations(db, names) == In(Pg \o << "base", db >>, FilesOf(names, 3, 2))
Databases ==
    {Relations("1", {"16401", "16401.1", "16401_fsm", "16401_init", "16402", "t3_16401"}) @@ Relations("5", {"5", "16401"}),
     Relations("1", {"16401", "16402", "PG_VERSION"}) @@ Relations("5", {"16401", "16401_init", "16402"}) @@ In(Pg \o << "base", "5" >>, FilesOf({"f"}, 0, 1))}
WalHere == In(Pg, "pg_wal" :> DirNode) @@ In(Pg \o << "pg_wal" >>, ("archive_status" :> DirNode) @@ FilesOf({"seg"}, 1, 1))
              @@ In(Pg \o << "pg_wal", "archive_status" >>, FilesOf({"f"}, 1, 1))
WalThere == In(Pg, "pg_wal" :> LinkNode(<< "/", "w" >>)) @@ In(<< "/" >>, "w" :> DirNode)
              @@ In(<< "/", "w" >>, ("archive_status" :> DirNode) @@ FilesOf({"seg"}, 1, 1))
              @@ In(<< "/", "w", "archive_status" >>, FilesOf({"f"}, 1, 1))
Space == In(Pg, "pg_tblspc" :> DirNode) @@ In(Pg \o << "pg_tblspc" >>, "16500" :> LinkNode(<< "/", "ts" >>))
Spaces ==
    {In(Pg, "pg_tblspc" :> DirNode),
     Space @@ In(<< "/" >>, "ts" :> DirNode) @@ In(<< "/", "ts" >>, "PG_16" :> DirNode) @@ In(<< "/", "ts", "PG_16" >>, "5" :> DirNode)
           @@ In(<< "/", "ts", "PG_16", "5" >>, FilesOf({"16401", "16401_init", "16402"}, 1, 9)),
     Space @@ In(<< "/" >>, "ts" :> DirNode) @@ In(<< "/", "ts" >>, "PG_16" :> FileNode(1, 1)),
     Space,
     In(Pg, "pg_tblspc" :> DirNode) @@ In(Pg \o << "pg_tblspc" >>, "16500" :> FileNode(1, 1))}
Links ==
    {<< >>,
     In(Pg, "conf" :> LinkNode(<< "..", "x", "f" >>)) @@ In(<< "/" >>, "x" :> DirNode) @@ In(<< "/", "x" >>, FilesOf({"f"}, 4, 4)),
     In(Pg, ("a" :> LinkNode(<< "..", "x" >>)) @@ ("b" :> LinkNode(<< "/", "x", "g" >>))) @@ In(<< "/" >>, "x" :> DirNode)
        @@ In(<< "/", "x" >>, ("g" :> DirNode) @@ FilesOf({"f"}, 4, 4)) @@ In(<< "/", "x", "g" >>, FilesOf({"f"}, 1, 1)),
     In(Pg, "extra" :> LinkNode(<< "/", "x" >>)) @@ In(<< "/" >>, "x" :> LinkNode(<< "/", "w" >>)),
     In(Pg, "extra" :> LinkNode(<< "base" >>)),
     In(Pg, "extra" :> [DirNode EXCEPT !.type = "special"])}
Exclusions ==
    {[single |-> {}, content |-> {}],
     [single |-> {<< "pg_data", "base", "5" >>, << "pg_data", "conf" >>}, content |-> {<< "pg_data", "base", "1" >>, << "pg_data", "a" >>}]}
MCBuildCalls ==
    {[disk |-> Core @@ db @@ wal @@ space @@ link, pgPath |-> Pg, online |-> o, checksumPage |-> o, bundle |-> o, blockIncr |-> v = 120,
      version |-> v, start |-> 10, tablespaces |-> IF o THEN "16500" :> "space" ELSE << >>,
      excludeSingle |-> x.single, excludeContent |-> x.content,
      sizeMap |-> {[from |-> 2, value |-> 1], [from |-> 4, value |-> 2]}, ageMap |-> {[from |-> 6, value |-> 2], [from |-> 8, value |-> 0]},
      checksumMap |-> {[from |-> 2, value |-> 8]}] :
        db \in Databases, wal \in {WalHere, WalThere}, space \in Spaces, link \in Links, o \in BOOLEAN, v \in {95, 120, 130}, x \in Exclusions}

LinkTarget1(n, path, file) ==
    [name |-> << "pg_data", n >>, type |-> IF n = "base" THEN "path" ELSE "link", path |-> path, file |-> file,
     tablespaceId |-> None, tablespaceName |-> None]
Destinations == {<< << "/", "x" >>, None >>, << << "/", "x", "g" >>, None >>, << << "..", "x", "g", "a" >>, None >>,
                 << << "/", "w" >>, None >>, << << "/", "d", "g" >>, None >>, << << "..", "x", "g" >>, "f" >>,
                 << << "/", "x", "g" >>, "a" >>, << << "/", "x", "g", "a" >>, "f" >>, << << "/", "x", "f" >>, None >>}
MCLinkCalls ==
    [pgPath : {Pg}, targets : {<< LinkTarget1("a", d[1], d[2]), LinkTarget1("b", e[1], e[2]), LinkTarget1("conf", f[1], f[2]), LinkTarget1("base", << "/", "d" >>, None) >> :
                                d, e, f \in Destinations}]

PriorFiles ==
    {[NoFile EXCEPT !.name = << "pg_data", "f" >>, !.size = s, !.sizeOriginal = s, !.timestamp = t, !.checksum = IF s = 0 THEN ZeroChecksum ELSE "old",
                    !.checksumRepo = "oldRepo", !.sizeRepo = s + 1, !.reference = r, !.bundleId = 3, !.bundleOffset = 2,
                    !.blockIncrSize = b, !.blockIncrChecksumSize = IF b = 0 THEN 0 ELSE 6, !.blockIncrMapSize = b] :
        s \in {0, 3}, t \in 4..5, r \in {None, "F"}, b \in {0, 2}}
NowFile(n, s, t) == [NoFile EXCEPT !.name = << "pg_data", n >>, !.copy = TRUE, !.size = s, !.sizeOriginal = s, !.timestamp = t, !.sizeRepo = s, !.blockIncrSize = 1, !.blockIncrChecksumSize = 6]
Manifested(second, o, delta, stop, label, files) ==
    [copyStart |-> second, online |-> o, delta |-> delta, stop |-> stop, label |-> label, references |-> << "F", "D" >>, bundle |-> FALSE,
     bundleRaw |-> FALSE, files |-> files]
MCIncrCalls ==
    {[prior |-> Manifested(5, o, FALSE, stop, "D", << p, [NowFile("g", 2, 4) EXCEPT !.checksum = "g", !.reference = "F"] >>),
      now |-> Manifested(7, o2, FALSE, << >>, None, << NowFile("f", s, t), g, NowFile("x", 1, 7) >>),
      start |-> start, changed |-> c] :
        p \in PriorFiles, o \in BOOLEAN, o2 \in BOOLEAN, stop \in {<< >>, << 1, 9 >>}, start \in {<< >>, << 1, 9 >>, << 2, 9 >>},
        s \in {0, 1, 3}, t \in 4..5, g \in {NowFile("g", 2, 4), NowFile("g", 2, 3), NowFile("g", 2, 9), NowFile("g", 1, 4)},
        c \in {{}, {<< "pg_data", "f" >>}}}

DataOf(a, b) ==
    [archiveStart |-> a, archiveStop |-> None, lsnStart |-> a, lsnStop |-> None, backupLabelPrior |-> a, blockIncr |-> b, bundle |-> b, bundleRaw |-> ~b,
     backupLabel |-> "D", copyStart |-> 6, start |-> 5, stop |-> 8, type |-> "diff", pgId |-> 1, pgSystemId |-> 2, pgCatalogVersion |-> 3, pgVersion |-> 4,
     archiveCheck |-> b, archiveCopy |-> ~b, hardLink |-> b, online |-> b, compressType |-> IF b THEN "zst" ELSE "none", standby |-> a, bufferSize |-> a,
     checksumPages |-> None, compressLevel |-> a, compressLevelNetwork |-> None, delta |-> a, processMax |-> None, annotation |-> << >>]
SaveFiles ==
    {<< [NoFile EXCEPT !.name = << "pg_data", "f" >>, !.copy = c, !.resume = ~c, !.checksum = IF s = 0 THEN ZeroChecksum ELSE sum, !.checksumRepo = sum, !.reference = r,
                       !.size = s, !.sizeOriginal = 3, !.sizeRepo = z, !.timestamp = 9, !.mode = mode, !.user = u, !.group = g, !.bundleId = b, !.bundleOffset = IF b = 0 THEN 0 ELSE o,
                       !.blockIncrSize = bi * SizeFactor, !.blockIncrChecksumSize = IF bi = 0 THEN 0 ELSE 5 + bi, !.blockIncrMapSize = IF bi = 0 THEN 0 ELSE o,
                       !.checksumPage = p[1], !.checksumPageError = p[2], !.checksumPageErrorList = p[3]],
        [NoFile EXCEPT !.name = << "pg_data", "g" >>, !.checksum = ZeroChecksum, !.timestamp = 12, !.mode = mode, !.user = g, !.group = u] >> :
        c \in {TRUE}, s \in {0, 3}, sum \in {None, "sum"}, r \in {None, "F"}, z \in {3}, mode \in {7, 5}, u \in {None, "pg"}, g \in {None, "root"},
        b \in {0, 2}, o \in {1}, bi \in {0, 2}, p \in {<< FALSE, FALSE, None >>, << TRUE, FALSE, None >>, << TRUE, TRUE, "0-3" >>}}
    \cup {<< >>}
OwnedBy(u, n, more) == [name |-> n, user |-> u, group |-> "pg"] @@ more
MCSaveCalls ==
    {[listed |-> l, files |-> f,
      manifest |-> [default |-> [user |-> u, group |-> "pg", mode |-> 7], references |-> << "F", "D" >>, base |-> -1, file |-> << >>,
                    data |-> DataOf(IF l THEN "x" ELSE None, l), db |-> IF l THEN << [name |-> "app", id |-> 16384, lastSystemId |-> 9] >> ELSE << >>,
                    path |-> << OwnedBy(u, << "pg_data" >>, "mode" :> 15), OwnedBy("root", << "pg_data", "a" >>, "mode" :> 7) >>,
                    link |-> IF l THEN << OwnedBy("root", << "pg_data", "b" >>, "destination" :> << "/", "x" >>) >> ELSE << >>,
                    target |-> << [name |-> PgData, type |-> "path", path |-> Pg, file |-> None, tablespaceId |-> 0, tablespaceName |-> None],
                                  [name |-> << "pg_tblspc", "16500" >>, type |-> "link", path |-> << "/", "ts" >>, file |-> None, tablespaceId |-> 16500, tablespaceName |-> "ts"] >>]] :
        l \in BOOLEAN, f \in SaveFiles, u \in {None, "pg"}}
=============================================================================
