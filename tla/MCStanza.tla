------------------------------ MODULE MCStanza ------------------------------
(* Stanzas, with the arguments the calls are made with.                     *)
EXTENDS Stanza

IniKeys == {<< "k" >>, << "k", "=" >>, << "k", "=", "1" >>, << "=", "'" >>, << "[", "k" >>, << "k", "=", "{", "}" >>, << "{", "=", "'" >>,
            << "k", "=", "'", "1" >>}
IniValues == {<< "{", "}" >>, << "{", "'", "s", "'", ":", "1", "}" >>, << "'", "s", "'" >>, << "1" >>}
IniLines == {<< "[", "s", "]" >>, << "[", "]" >>, << "[", "s" >>, << "k", "=", "1" >>, << "k", "=" >>, << "=", "1" >>, << "k" >>, << "#", "k" >>, << >>}
MCIniCalls == {[written |-> TRUE, strict |-> TRUE, lines |-> << >>, values |-> v] :
                  v \in {<< << << "s" >>, k, x >> >> : k \in IniKeys, x \in IniValues}
                       \cup {<< << << "s" >>, k, << "{", "}" >> >>, << << "s", ":", "t" >>, << "k" >>, x >> >> : k \in IniKeys, x \in IniValues}}
              \cup {[written |-> FALSE, strict |-> FALSE, lines |-> l, values |-> << >>] : l \in UNION {[1..n -> IniLines] : n \in 0..3}}

Entry(i, p) == [id |-> i, pg |-> p]
MCInfoCalls == [info : [kind : {"archive", "backup"}, pass : 0..1, history : {<< Entry(1, 7) >>, << Entry(2, 8), Entry(1, 7) >>, << Entry(3, 7), Entry(2, 8), Entry(1, 7) >>},
                        listed : {<< >>}], cut : 0..12]
    \cup [info : [kind : {"backup"}, pass : 0..1, history : {<< Entry(2, 8), Entry(1, 7) >>}, listed : {<< 5 >>, << 5, 6 >>}], cut : 0..12]
MCLoadFileCalls == [1..2 -> {"ok", "missing", "crypto", "checksum", "format"}]
MCRowCalls == {{}, OptionalKeys} \cup {OptionalKeys \ {k} : k \in OptionalKeys \ {"backup-info-repo-size-map", "backup-info-repo-size-map-delta"}}
    \cup {{k, l} : k, l \in OptionalKeys \ {"backup-info-repo-size-map", "backup-info-repo-size-map-delta"}}

B3(l, p) == [label |-> l, prior |-> p]
Disk(p) == {[i \in 1..3 |-> [label |-> i, prior |-> p[i], manifest |-> m[i], pg |-> g[i]]] : m \in [1..3 -> BOOLEAN], g \in [1..3 -> 1..2]}
Chains == {<< 0, 1, 2 >>, << 0, 1, 1 >>, << 0, 0, 1 >>, << 0, 0, 2 >>}
MCReconstructCalls == UNION {[listed : {SelectSeq([i \in 1..3 |-> B3(i, p[i])], LAMBDA b : b.label \in S) : S \in {{}, {1}, {1, 2}, {1, 2, 3}}},
                             disk : Disk(p), history : {{1}, {1, 2}}] : p \in {c \in Chains : c[3] # 2 \/ c[2] = 1 \/ c = << 0, 0, 2 >>}}
StoredFile(s, r) == [size |-> s, repo |-> r, map |-> 1, reference |-> FALSE, pageError |-> FALSE]
MCSizeCalls == [files : [1..3 -> {StoredFile(5, 3), StoredFile(5, 0), StoredFile(0, 0)}], changed : SUBSET (1..3)]
MCAnnotationCalls == [old : {<< >>, "a" :> "1", ("a" :> "1") @@ ("b" :> "2")}, new : {"a" :> "", "a" :> "3", ("b" :> "") @@ ("c" :> "4")}]
RepoAnnotations == {"A" :> "", "B" :> "x", ("A" :> "x") @@ ("B" :> ""), << >>}
MCAnnotateCalls == {a \in [repos : UNION {[1..n -> RepoAnnotations] : n \in 1..2}, repo : 0..2, label : {"A", "B"}, value : {"y"}] : a.repo <= Len(a.repos)}
MCArchiveIdCalls == [history : {<< Entry(1, 7) >>, << Entry(2, 8), Entry(1, 7) >>, << Entry(3, 7), Entry(2, 8), Entry(1, 7) >>}, id : 1..4, pg : 7..9]
Cluster(is, c, m) == [is |-> is, cluster |-> c, matches |-> m]
Clusters2 == {Cluster("down", 7, TRUE), Cluster("primary", 7, TRUE), Cluster("primary", 8, TRUE), Cluster("primary", 7, FALSE),
              Cluster("standby", 7, TRUE), Cluster("standby", 7, FALSE)}
CheckRepo(l, a, b, w) == [local |-> l, archive |-> a, backup |-> b, arrives |-> w]
CheckRepos == {CheckRepo(TRUE, 7, 7, TRUE), CheckRepo(FALSE, 7, 7, TRUE), CheckRepo(FALSE, 7, 7, FALSE), CheckRepo(FALSE, 7, 0, TRUE),
               CheckRepo(FALSE, 8, 7, TRUE), CheckRepo(FALSE, 8, 8, TRUE)}
MCCheckCalls == [pg : UNION {[1..n -> Clusters2] : n \in 1..2}, repos : {<< r >> : r \in CheckRepos} \cup {<< CheckRepo(FALSE, 7, 7, TRUE), r >> : r \in CheckRepos},
                 archiveCheck : {TRUE}, mode : {"on"}, modeCheck : {TRUE}, command : {TRUE}]
    \cup [pg : {<< Cluster("primary", 7, TRUE) >>, << Cluster("standby", 7, TRUE) >>}, repos : {<< CheckRepo(FALSE, 7, 7, TRUE) >>},
          archiveCheck : BOOLEAN, mode : {"on", "off", "always"}, modeCheck : BOOLEAN, command : BOOLEAN]
Opt(f, m, s, n) == [found |-> f, multi |-> m, secure |-> s, negate |-> n, reset |-> n]
MCReportCalls == [option : [{"a", "b"} -> {Opt(FALSE, FALSE, FALSE, FALSE), Opt(TRUE, FALSE, TRUE, FALSE), Opt(TRUE, TRUE, FALSE, FALSE), Opt(TRUE, FALSE, FALSE, TRUE)}],
                  env : SUBSET {[key |-> "a", value |-> << "pw" >>, ours |-> TRUE], [key |-> "b", value |-> << "x", "y" >>, ours |-> FALSE]},
                  file : SUBSET {[key |-> "a", value |-> << "pw" >>], [key |-> "b", value |-> << "x" >>]}]
=============================================================================
