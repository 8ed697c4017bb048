------------------------------ MODULE MCConfig ------------------------------
(* The configuration, with the options, files and calls that are tried.     *)
EXTENDS Config

Both == {<< "backup", "main" >>, << "backup", "local" >>, << "backup", "remote" >>}
Main == {<< "backup", "main" >>}
\* As an async process, which is started with the same parameters as a local one.
LocalToo == {<< "backup", "main" >>, << "backup", "local" >>}
Children == {<< "backup", "local" >>, << "backup", "remote" >>}
RuleOf(type, group, section) ==
    [type |-> type, group |-> group, section |-> section, negate |-> FALSE, reset |-> FALSE, secure |-> FALSE, multi |-> FALSE,
     boolLike |-> FALSE, required |-> FALSE, deprecateMatch |-> FALSE, valid |-> Both, rules |-> << >>]
RepoOpt(type) == [RuleOf(type, "repo", "global") EXCEPT !.reset = TRUE]
All(rules) == << rules @@ [cmds |-> {}] >>
On(o, list) == [on |-> o, list |-> list, default |-> << >>]
MCRule ==
    [x \in {"stanza", "repo", "process"} |->
        [RuleOf(IF x = "stanza" THEN "string" ELSE "number", "none", "command line") EXCEPT
            !.required = x = "stanza", !.valid = IF x = "process" THEN Children ELSE Both]]
    @@ ("repo-type" :> [RepoOpt("string id") EXCEPT !.rules = All([allow |-> {"posix", "cifs", "s3", "azure"}, default |-> << "posix" >>])])
    @@ ("repo-path" :> [RepoOpt("path") EXCEPT !.deprecateMatch = TRUE, !.rules = All([default |-> << "/d" >>])])
    @@ ("repo-s3-bucket" :> [RepoOpt("string") EXCEPT !.required = TRUE, !.rules = All([depend |-> On("repo-type", {"s3"})])])
    @@ ("repo-s3-key" :> [RepoOpt("string") EXCEPT !.secure = TRUE, !.rules = All([depend |-> On("repo-type", {"s3"})])])
    @@ ("repo-storage-verify-tls" :> [RepoOpt("boolean") EXCEPT !.negate = TRUE,
            !.rules = All([depend |-> On("repo-type", {"s3", "azure"}), default |-> << "y" >>])])
    @@ ("repo-cipher-type" :> [RepoOpt("string id") EXCEPT !.rules = All([allow |-> {"none", "aes"}, default |-> << "none" >>])])
    @@ ("repo-cipher-pass" :> [RepoOpt("string") EXCEPT !.secure = TRUE, !.required = TRUE, !.rules = All([depend |-> On("repo-cipher-type", {"aes"})])])
    @@ ("pg-path" :> [RuleOf("path", "pg", "stanza") EXCEPT !.required = TRUE])
    @@ ("pg-user" :> [RuleOf("string", "pg", "stanza") EXCEPT !.valid = Main])
    @@ ("online" :> [RuleOf("boolean", "none", "command line") EXCEPT !.negate = TRUE, !.valid = Main, !.rules = All([default |-> << "y" >>])])
    @@ ("archive-check" :> [RuleOf("boolean", "none", "global") EXCEPT !.negate = TRUE, !.reset = TRUE, !.valid = Main,
            !.rules = All([depend |-> [on |-> "online", list |-> {"y"}, default |-> << "n" >>], default |-> << "y" >>])])
    @@ ("archive-copy" :> [RuleOf("boolean", "none", "global") EXCEPT !.negate = TRUE, !.reset = TRUE, !.valid = Main,
            !.rules = All([depend |-> On("archive-check", {"y"}), default |-> << "n" >>])])
    @@ ("exclude" :> [RuleOf("list", "none", "global") EXCEPT !.multi = TRUE, !.reset = TRUE, !.valid = LocalToo])
    @@ ("annotation" :> [RuleOf("hash", "none", "command line") EXCEPT !.multi = TRUE, !.valid = Main])
    @@ ("backup-standby" :> [RuleOf("string id", "none", "global") EXCEPT !.boolLike = TRUE, !.negate = TRUE, !.reset = TRUE,
            !.rules = All([allow |-> {"n", "y", "prefer"}, default |-> << "n" >>])])
    @@ ("compress" :> [RuleOf("boolean", "none", "global") EXCEPT !.negate = TRUE, !.reset = TRUE, !.valid = Main, !.rules = All([default |-> << "y" >>])])
    @@ ("compress-type" :> [RuleOf("string id", "none", "global") EXCEPT !.reset = TRUE, !.valid = LocalToo,
            !.rules = All([allow |-> {"none", "gz", "zst"}, default |-> << "gz" >>])])
    @@ ("compress-level" :> [RuleOf("number", "none", "global") EXCEPT !.reset = TRUE, !.valid = LocalToo, !.rules = All([range |-> -7..22])])
    @@ [x \in {"db-timeout", "protocol-timeout"} |-> [RuleOf("number", "none", "global") EXCEPT !.reset = TRUE,
            !.rules = All([range |-> 1..1000, default |-> << IF x = "db-timeout" THEN 180 ELSE 183 >>])]]
MCResolve == << "stanza", "repo", "process", "repo-type", "repo-path", "repo-s3-bucket", "repo-s3-key", "repo-storage-verify-tls",
                "repo-cipher-type", "repo-cipher-pass", "pg-path", "pg-user", "online", "archive-check", "archive-copy", "exclude", "annotation",
                "backup-standby", "compress", "compress-type", "compress-level", "db-timeout", "protocol-timeout" >>
Dash == << "-" >>
Words == [stanza |-> << "stanza" >>, repo |-> << "repo" >>, process |-> << "process" >>, online |-> << "online" >>,
          exclude |-> << "exclude" >>, annotation |-> << "annotation" >>, compress |-> << "compress" >>]
Dashed == [x \in {"repo-type", "repo-path", "repo-s3-bucket", "repo-s3-key", "repo-storage-verify-tls", "repo-cipher-type", "repo-cipher-pass",
                  "pg-path", "pg-user", "archive-check", "archive-copy", "backup-standby", "compress-type", "compress-level", "db-timeout",
                  "protocol-timeout"} |->
    CASE x = "repo-type" -> << "repo", "-", "type" >> [] x = "repo-path" -> << "repo", "-", "path" >>
      [] x = "repo-s3-bucket" -> << "repo", "-", "s3", "-", "bucket" >> [] x = "repo-s3-key" -> << "repo", "-", "s3", "-", "key" >>
      [] x = "repo-storage-verify-tls" -> << "repo", "-", "storage", "-", "verify" >>
      [] x = "repo-cipher-type" -> << "repo", "-", "cipher", "-", "type" >> [] x = "repo-cipher-pass" -> << "repo", "-", "cipher", "-", "pass" >>
      [] x = "pg-path" -> << "pg", "-", "path" >> [] x = "pg-user" -> << "pg", "-", "user" >>
      [] x = "archive-check" -> << "archive", "-", "check" >> [] x = "archive-copy" -> << "archive", "-", "copy" >>
      [] x = "backup-standby" -> << "backup", "-", "standby" >> [] x = "compress-type" -> << "compress", "-", "type" >>
      [] x = "compress-level" -> << "compress", "-", "level" >> [] x = "db-timeout" -> << "db", "-", "timeout" >>
      [] OTHER -> << "protocol", "-", "timeout" >>]
MCOptionName == Words @@ Dashed
Old(name, id, indexed, unindexed) == [name |-> name, id |-> id, indexed |-> indexed, unindexed |-> unindexed]
MCDeprecated == << Old(<< "repo", "-", "s3", "-", "verify" >>, "repo-storage-verify-tls", TRUE, FALSE), Old(<< "db", "-", "path" >>, "pg-path", TRUE, TRUE),
                   Old(<< "thread", "-", "max" >>, "process", FALSE, TRUE), Old(<< "repo", "-", "path" >>, "repo-path", FALSE, TRUE) >>
MCNumber == [x \in {"1", "2", "3", "5", "9", "12", "20", "150", "200", "-3"} |->
    CASE x = "1" -> 1 [] x = "2" -> 2 [] x = "3" -> 3 [] x = "5" -> 5 [] x = "9" -> 9 [] x = "12" -> 12 [] x = "20" -> 20 [] x = "150" -> 150
      [] x = "200" -> 200 [] OTHER -> -3]
MCTrimmed == [x \in {"/x/"} |-> "/x"]

Starts == UNION {{SubSeq(n, 1, k) : k \in 1..Len(n)} : n \in UNION {{KeyName(o, k) : k \in 1..KeyMax} : o \in OptionIds}}
          \cup UNION {{SubSeq(d.name, 1, k) : k \in 1..Len(d.name)} : d \in {MCDeprecated[i] : i \in 1..4}}
          \cup {<< "repo", "9", "-", "path" >>, << "repo", "1", "2", "-", "path" >>, << "1", "-", "path" >>, Dash, << "online", "1", "-", "x" >>}
MCNameCalls == [prefix : {<< >>, << "no", "-" >>, << "reset", "-" >>}, name : Starts, prefixMatch : BOOLEAN]

MCNumberCalls == [n : {0, 1, 3, 12, 50, 51, 100, 199, 200}, digits : BOOLEAN,
                  unit : {<< >>, << "b" >>, << "k" >>, << "k", "b" >>, << "k", "i", "b" >>, << "m" >>, << "m", "s" >>, << "g" >>, << "s" >>, << "h" >>, << "k", "k" >>}]
MCConfigFileCalls == [config : {"default", "no", "given"}, path : BOOLEAN, include : BOOLEAN,
                      files : SUBSET {"default", "given", "path", "orig"}, includes : SUBSET {"default", "given", "path"}]
MCStanzaListCalls == SUBSET [name : {"global", "a", "b"}, cmd : {None, "backup"}]

A(o, k, arg) == Arg(o, k, FALSE, FALSE, arg)
No(o, k) == Arg(o, k, TRUE, FALSE, Bare)
Re(o, k) == Arg(o, k, FALSE, TRUE, Bare)
K(o, k, list) == [id |-> o, key |-> k, negate |-> FALSE, reset |-> FALSE, list |-> list]
Nots(o, k) == [id |-> o, key |-> k, negate |-> TRUE, reset |-> FALSE, list |-> << "y" >>]

ArgsUpTo(n, S) == UNION {[1..k -> S] : k \in 0..n}
StanzaArg == A("stanza", 1, "s")
\* The sections with one entry each at most, besides the path of PostgreSQL.
Ini(sc, st, gc, gl) == [n \in {"stanza:cmd", "stanza", "global:cmd", "global"} |->
    CASE n = "stanza:cmd" -> sc [] n = "stanza" -> << K("pg-path", 1, << "/p" >>) >> \o st [] n = "global:cmd" -> gc [] OTHER -> gl]
Theme(args, env, ini) == [args |-> {<< StanzaArg >> \o a : a \in args}, env |-> env, ini |-> ini, help |-> {FALSE}, cmd |-> {"backup"}]
Opt1(x) == {<< >>, << x >>}

\* The order of the places, with one option that has any kind of value.
Order == Theme({<< >>, << A("repo-path", 2, "/x/") >>, << Re("repo-path", 2) >>}, Opt1(K("repo-path", 2, << "/e" >>)),
               {Ini(sc, st, gc, gl) : sc \in Opt1(K("repo-path", 2, << "/1" >>)), st \in Opt1(K("repo-path", 2, << "/2" >>)),
                                      gc \in {<< >>, << K("repo-path", 2, << "/3" >>), K("repo-path", 1, << "/9" >>) >>},
                                      gl \in Opt1(K("repo-path", 2, << "/4" >>))})
FlagTheme == Theme(ArgsUpTo(1, {A("archive-check", 1, Bare), No("archive-check", 1), Re("archive-check", 1), No("online", 1), A("archive-copy", 1, "n"), A("online", 1, "x")})
              \cup {<< No("online", 1), No("archive-check", 1) >>, << A("archive-check", 1, Bare), Re("archive-check", 1) >>,
                    << No("archive-check", 1), A("archive-copy", 1, "n") >>, << No("archive-check", 1), No("archive-check", 1) >>},
              {<< >>, << K("archive-copy", 1, << "n" >>) >>, << K("archive-check", 1, << "y" >>), Nots("archive-copy", 1) >>, << K("online", 1, << "n" >>) >>},
              {Ini(sc, << >>, gc, << >>) : sc \in {<< >>, << K("archive-copy", 1, << "y" >>) >>, << K("online", 1, << "n" >>) >>},
                                           gc \in {<< >>, << K("archive-check", 1, << "n" >>) >>, << Nots("archive-check", 1) >>}})
Lists == Theme(ArgsUpTo(1, {A("exclude", 1, "a"), A("exclude", 1, "b"), Re("exclude", 1), A("annotation", 1, "k=v"), A("annotation", 1, "k"),
                        A("backup-standby", 1, Bare), No("backup-standby", 1), A("backup-standby", 1, "prefer"), A("repo-s3-key", 1, "k"), A("process", 1, "1")})
               \cup {<< A("exclude", 1, "a"), A("exclude", 1, "b") >>, << A("exclude", 1, "a"), Re("exclude", 1) >>,
                     << A("backup-standby", 1, Bare), No("backup-standby", 1) >>, << A("annotation", 1, "k=v"), A("exclude", 1, "a") >>},
               {<< >>, << K("exclude", 1, << "c", "d" >>) >>, << K("backup-standby", 1, << "" >>) >>},
               {Ini(<< >>, << >>, gc, gl) :
                    gc \in {<< >>, << K("exclude", 1, << "e" >>) >>},
                    gl \in {<< K("backup-standby", 1, << "y" >>), K("pg-user", 1, << "u" >>) >>, << K("backup-standby", 1, << "y", "n" >>) >>,
                            << K("exclude", 1, << "f" >>), K("exclude", 1, << "f" >>) >>}})
\* Repositories and clusters with keys that come and go.
Keyed == Theme({<< >>, << A("repo", 1, "2") >>, << A("repo-path", 2, "/x") >>, << A("repo-path", 1, "x") >>, << Re("repo-path", 2) >>,
                 << A("repo-s3-bucket", 2, "b") >>, << A("repo-type", 2, "s3") >>, << Re("repo-type", 2), A("repo-path", 2, "/x") >>},
                {<< >>, << K("repo-cipher-type", 1, << "aes" >>), K("repo-cipher-pass", 1, << "p" >>) >>, << K("repo-type", 1, << "azure" >>) >>},
                {Ini(<< >>, st, << >>, gl) :
                    st \in {<< >>, << K("pg-path", 2, << "/q" >>) >>, << K("pg-user", 3, << "u" >>), K("pg-path", 3, << "/q" >>) >>},
                    gl \in {<< >>, << K("repo-s3-bucket", 2, << "b" >>) >>, << K("repo-path", 2, << "/b" >>) >>,
                            << K("repo-s3-bucket", 1, << "b" >>), K("repo-path", 2, << "/b" >>) >>,
                            << K("repo-path", 1, << "/b" >>), K("repo-s3-bucket", 2, << "b" >>), K("repo-path", 3, << "/c" >>) >>,
                            << K("repo-type", 2, << "s3" >>), K("repo-s3-bucket", 2, << "b" >>), K("repo-s3-key", 2, << "k" >>), K("repo-storage-verify-tls", 2, << "n" >>) >>,
                            << K("repo-storage-verify-tls", 1, << "n" >>), K("repo-path", 1, << "/b" >>) >>}})
Derived == Theme(ArgsUpTo(1, {A("db-timeout", 1, "20"), A("protocol-timeout", 1, "12"), A("protocol-timeout", 1, "150"), Re("protocol-timeout", 1), No("compress", 1),
                          A("compress-type", 1, "zst"), A("compress-level", 1, "12"), A("compress-level", 1, "-3"), Re("compress", 1), A("compress-type", 1, "x")})
                 \cup {<< A("db-timeout", 1, "20"), A("protocol-timeout", 1, t) >> : t \in {"12", "150"}}
                 \cup {<< x, A("compress-level", 1, l) >> : x \in {No("compress", 1), A("compress-type", 1, "zst"), Re("compress", 1)}, l \in {"12", "-3"}}
                 \cup {<< No("compress", 1), A("compress-type", 1, "zst") >>},
                 {<< >>},
                 {Ini(<< >>, << >>, << >>, gl) :
                    gl \in {<< >>, << K("db-timeout", 1, << "200" >>) >>, << K("compress", 1, << "n" >>) >>, << K("protocol-timeout", 1, << "20" >>) >>,
                            << K("compress-type", 1, << "zst" >>), K("compress-level", 1, << "20" >>) >>}})
WithoutTheme == [Theme({}, {<< >>}, {Ini(<< >>, << >>, << >>, << >>)}) EXCEPT
               !.args = {<< >>, << A("repo-path", 1, "/x") >>, << A("pg-path", 1, "/x") >>, << StanzaArg >>}, !.help = BOOLEAN, !.cmd = {"backup", "help"}]
MCParseCalls == {Order, FlagTheme, Lists, Keyed, Derived, WithoutTheme}
MCExecCalls == {[FlagTheme EXCEPT !.env = {<< K("archive-copy", 1, << "n" >>) >>}], [Lists EXCEPT !.env = {<< K("exclude", 1, << "c", "d" >>) >>}],
                [Keyed EXCEPT !.env = {<< K("repo-cipher-type", 1, << "aes" >>), K("repo-cipher-pass", 1, << "p" >>) >>}], Derived}

\* Configurations as they are before the update.
Set(source, v) == [Unset EXCEPT !.set = TRUE, !.value = << v >>, !.shown = << v >>, !.source = source]
Two(v, w) == << v, w >>
Conf(cmd, option) == [error |-> FALSE, cmd |-> cmd, role |-> "main", map |-> [pg |-> << 1 >>, repo |-> << 1, 2 >>], index |-> [pg |-> 1, repo |-> 1],
                      exists |-> [pg |-> TRUE, repo |-> TRUE], option |-> option]
Repos == {[t \in {"repo-type", "repo-path", "repo-host", "pg-host", "repo-host-type", "repo-host-port", "pg-host-type", "pg-host-port"} |->
            CASE t = "repo-type" -> Two(Set("default", "posix"), Set("config", t2))
              [] t = "repo-path" -> Two(Set("config", "/a"), Set("config", p2))
              [] t = "repo-host" -> Two(Unset, h)
              [] t = "pg-host" -> << g >>
              [] t = "repo-host-type" -> Two(Unset, IF h.set THEN ht ELSE Unset)
              [] t = "repo-host-port" -> Two(Unset, IF h.set THEN hp ELSE Unset)
              [] t = "pg-host-type" -> << IF g.set THEN ht ELSE Unset >>
              [] OTHER -> << IF g.set THEN hp ELSE Unset >>] :
            t2 \in {"posix", "cifs", "s3"}, p2 \in {"/a", "/b"}, h \in {Unset, Set("config", "h")}, g \in {Unset, Set("param", "g")},
            ht \in {Set("config", "tls"), Set("default", "ssh")}, hp \in {Unset, Set("config", 22)}}
Retentions == {[t \in {"repo-retention-full", "repo-retention-full-type", "repo-retention-diff", "repo-retention-archive", "repo-retention-archive-type"} |->
                 CASE t = "repo-retention-full" -> Two(f, Set("config", 7))
                   [] t = "repo-retention-full-type" -> Two(Set("config", ft), Set("default", "count"))
                   [] t = "repo-retention-diff" -> Two(d, Unset)
                   [] t = "repo-retention-archive" -> Two(a, Unset)
                   [] OTHER -> Two(Set("config", at), Set("default", "full"))] :
                 f \in {Unset, Set("config", 4)}, ft \in {"count", "time"}, d \in {Unset, Set("config", 3)}, a \in {Unset, Set("param", 2)}, at \in {"full", "diff", "incr"}}
Remotes == {[t \in {"repo", "repo-target-time", "repo-type", "repo-path", "repo-s3-bucket", "repo-storage-verify-tls", "repo-storage-upload-chunk-size",
                    "repo-sftp-host-key-check-type", "repo-sftp-host-fingerprint"} |->
              CASE t = "repo" -> << r >> [] t = "repo-target-time" -> << tt >>
                [] t = "repo-type" -> Two(Set("config", "s3"), Set("config", "sftp"))
                [] t = "repo-path" -> Two(Set("config", "/a"), Set("config", "/a"))
                [] t = "repo-s3-bucket" -> Two(Set("config", b), Unset)
                [] t = "repo-storage-verify-tls" -> Two(Set("config", y), Unset)
                [] t = "repo-storage-upload-chunk-size" -> Two(u, Unset)
                [] t = "repo-sftp-host-key-check-type" -> Two(Unset, k)
                [] OTHER -> Two(Unset, IF f = "" THEN Unset ELSE Set("config", f))] :
              r \in {Unset, Set("param", 2)}, tt \in {Unset, Set("param", "t")}, b \in {"a.b", "ab"}, y \in {"y", "n"}, u \in {Unset, Set("config", 9)},
              k \in {Set("default", "strict"), Set("config", "strict"), Set("config", "fingerprint")}, f \in {"", "ff"}}
MCUpdateCalls == {Conf("backup", o) : o \in Repos \cup Retentions} \cup {Conf(cmd, o) : cmd \in {"backup", "stanza-delete"}, o \in Remotes}
=============================================================================
