------------------------------- MODULE Config -------------------------------
(***************************************************************************)
(* The configuration (config/parse.c, load.c, exec.c, config.c): which     *)
(* option a name stands for, which of the command line, the environment    *)
(* and the sections of the configuration file decides its value, which     *)
(* keys of a group remain, what depends on what, the values that follow    *)
(* from others, and the parameters that make a process started by this one *)
(* see the same configuration.                                             *)
(*                                                                         *)
(* A value is a sequence: empty when it is not set.  A text is a string    *)
(* and NumberOf says which are numbers; a name is a sequence of tokens.    *)
(***************************************************************************)
EXTENDS Calls, Integers, FiniteSets, SequencesExt

CONSTANTS
    Rule,           \* parseRuleOption: option -> its rules
    Resolve,        \* optionResolveOrder: every option after those it depends on
    KeyMax,         \* CFG_OPTION_KEY_MAX
    OptionName,     \* option -> its name without a key
    Deprecated,     \* parseRuleOptionDeprecate
    NumberOf,         \* text -> number
    BadPaths,       \* texts that do not begin with / or hold //
    TrimmedPath,        \* path with / at its end -> path without
    Pairs,          \* texts that are a key and a value
    NameCalls, NumberCalls, ConfigFileCalls, StanzaListCalls, ParseCalls, ExecCalls, UpdateCalls

OptionIds == DOMAIN Rule
Groups == {"pg", "repo"}
InGroup(o) == Rule[o].group \in Groups
Valid(o, cmd, role) == << cmd, role >> \in Rule[o].valid

----------------------------------------------------------------------------
(* Names.                                                                  *)

Digits == << "0", "1", "2", "3", "4", "5", "6", "7", "8", "9" >>
DigitOf(token) == CHOOSE d \in 0..9 : Digits[d + 1] = token

\* The tokens before the first dash, and how many of them are not part of the key.
DashAt(name) == SelectInSeq(name, LAMBDA x : x = "-")
NameEnd(name) == LET before == {i \in 0..DashAt(name) - 1 : i = 0 \/ name[i] \notin ToSet(Digits)}
                 IN CHOOSE i \in before : \A j \in before : j <= i
KeyOf(name) == FoldLeft(LAMBDA n, d : n * 10 + DigitOf(d), 0, SubSeq(name, NameEnd(name) + 1, DashAt(name) - 1))
Unkeyed(name) == SubSeq(name, 1, NameEnd(name)) \o SubSeq(name, DashAt(name), Len(name))

\* Faulty variant of Only: of several names that begin this way the first is meant.
OnlyFirst(partial) == IF partial = {} THEN {} ELSE {CHOOSE x \in partial : TRUE}
Only(partial) == IF Cardinality(partial) = 1 THEN partial ELSE {}

\* The one name that is this name, or the only one that begins with it.
Named(names, name, prefixMatch) ==
    LET exact == {x \in DOMAIN names : names[x] = name}
    IN IF exact # {} THEN exact ELSE Only({x \in DOMAIN names : prefixMatch /\ IsPrefix(name, names[x])})

DeprecatedNames == [d \in DOMAIN Deprecated |-> Deprecated[d].name]

NoOption(is) == [is |-> is, id |-> None, key |-> 0, negate |-> FALSE, reset |-> FALSE]

\* What is found by a name n, old if only by one that is deprecated.
FoundOption(n, found, old) ==
    LET dashed == DashAt(n.name) # 0
        indexed == dashed /\ NameEnd(n.name) < DashAt(n.name) - 1
        id == CHOOSE o \in OptionIds : o \in found \/ \E d \in old : Deprecated[d].id = o
        deprecated == old # {} \/ (~indexed /\ Rule[id].deprecateMatch)
        keyless == ~indexed /\ ~n.ignoreMissingIndex
    IN CASE dashed /\ (DashAt(n.name) = 1 \/ NameEnd(n.name) = 0) -> NoOption(Error)
         [] indexed /\ KeyOf(n.name) > KeyMax -> NoOption(Error)
         [] \E d \in old : \/ indexed /\ ~Deprecated[d].indexed
                           \/ keyless /\ ~Deprecated[d].unindexed -> NoOption(Error)
         [] found \cup old = {} -> NoOption(None)
         [] (n.negate /\ ~Rule[id].negate) \/ (n.reset /\ ~Rule[id].reset) -> NoOption(Error)
         [] ~deprecated /\ ((indexed /\ ~InGroup(id)) \/ (keyless /\ InGroup(id))) -> NoOption(Error)
         [] OTHER -> [is |-> "found", id |-> id, key |-> IF indexed THEN KeyOf(n.name) ELSE 1, negate |-> n.negate, reset |-> n.reset]

\* cfgParseOption: the option with its key, or that there is none or it is refused.
ParseOption(text, prefixMatch, ignoreMissingIndex) ==
    LET negate == IsPrefix(<< "no", "-" >>, text)
        reset == IsPrefix(<< "reset", "-" >>, text)
        name == IF negate \/ reset THEN SubSeq(text, 3, Len(text)) ELSE text
        indexed == DashAt(name) # 0 /\ NameEnd(name) < DashAt(name) - 1
        base == IF indexed THEN Unkeyed(name) ELSE name
        found == Named(OptionName, base, prefixMatch)
    IN FoundOption([negate |-> negate, reset |-> reset, name |-> name, ignoreMissingIndex |-> ignoreMissingIndex],
                   found, IF found = {} THEN Named(DeprecatedNames, base, prefixMatch) ELSE {})

\* cfgParseOptionKeyIdxName: repo-path with key 2 is repo2-path.
KeyName(o, key) ==
    IF InGroup(o) THEN << Rule[o].group, Digits[key + 1] >> \o Tail(OptionName[o]) ELSE OptionName[o]

NameCall == /\ NoCall
            /\ \E a \in NameCalls :
                  call' = Called("option name", a, ParseOption(a.prefix \o a.name, a.prefixMatch, FALSE))

----------------------------------------------------------------------------
(* Numbers with a unit.                                                    *)

Kilo == 4                                   \* stands for 1024
Qualifier(q) == CASE q = "b" -> 1 [] q = "k" -> Kilo [] q = "m" -> Kilo ^ 2 [] q = "g" -> Kilo ^ 3
MaxNumber == 200                            \* stands for INT64_MAX

NoNumber == -1

\* Faulty variant of Scaled: the product is taken before it is compared, modulo the width.
ScaledWraps(n, multiplier) == (n * multiplier) % (MaxNumber + 1)
\* n times the multiplier, where that is a number.
Scaled(n, multiplier) == IF n > MaxNumber \div multiplier THEN NoNumber ELSE n * multiplier

\* cfgParseSize: the digits, and the letters after them, b or a qualifier with ib or b.
ParseSize(a) ==
    LET letter == Head(a.unit)
        wellFormed == a.unit = << >> \/ a.unit \in {<< "b" >>} \cup {<< q >> \o s : q \in {"k", "m", "g"}, s \in {<< >>, << "b" >>, << "i", "b" >>}}
    IN IF ~wellFormed \/ ~a.digits THEN NoNumber
       ELSE Scaled(a.n, IF a.unit = << >> THEN 1 ELSE Qualifier(letter))

\* cfgParseTime: milliseconds, seconds without a qualifier.
Second == 10
ParseTime(a) ==
    LET scale == CASE a.unit = << "m", "s" >> -> 1
                   [] a.unit = << >> \/ a.unit = << "s" >> -> Second
                   [] a.unit = << "m" >> -> 6 * Second
                   [] a.unit = << "h" >> -> 36 * Second
                   [] OTHER -> 0
    IN IF scale = 0 \/ ~a.digits THEN NoNumber ELSE Scaled(a.n, scale)

NumberCall == /\ NoCall
              /\ \E a \in NumberCalls : call' = Called("number", a, [size |-> ParseSize(a), time |-> ParseTime(a)])

----------------------------------------------------------------------------
(* The configuration files.                                                *)

\* Faulty variant of IncludeRead: the files of the default directory are added to a file that is asked for.
IncludeReadAlways(a) == TRUE
IncludeRead(a) == a.config = "default" \/ a.path \/ a.include

\* cfgFileLoad: the file that is read and the directory whose *.conf files are.
FileLoad(a) ==
    LET main == IF a.config = "given" THEN "given" ELSE IF a.path THEN "path" ELSE "default"
        include == IF a.include THEN "given" ELSE IF a.path THEN "path" ELSE "default"
        file == IF a.config = "no" THEN {}
                ELSE IF main \in a.files THEN {main}
                ELSE IF main = "default" THEN {"orig"} \cap a.files ELSE {}
        parts == IF IncludeRead(a) THEN {include} \cap a.includes ELSE {}
    IN [error |-> \/ a.config = "given" /\ "given" \notin a.files
                  \/ a.include /\ "given" \notin a.includes,
        file |-> file, parts |-> parts]

ConfigFileCall == /\ NoCall
                  /\ \E a \in ConfigFileCalls : call' = Called("config file", a, FileLoad(a))

\* cfgParseStanzaList: the stanzas of the sections, [stanza] or [stanza:command].
StanzaList(sections) == {s.name : s \in {x \in sections : x.name # "global"}}

StanzaListCall == /\ NoCall
                  /\ \E a \in StanzaListCalls : call' = Called("stanza list", a, StanzaList(a))

----------------------------------------------------------------------------
(* Phases 1 to 3: what each option is asked to be, and where.              *)

Asked(source, negate, reset, list) == [negate |-> negate, reset |-> reset, source |-> source, list |-> list]
NotFound == Asked("default", FALSE, FALSE, << >>)
\* seen: what is asked of an option with a key, where something is.
NothingSeen == [error |-> FALSE, seen |-> << >>, names |-> {}]
IsFound(seen, slot) == slot \in DOMAIN seen
See(s, slot, is) == [s EXCEPT !.seen = (slot :> is) @@ @]
Fails(s) == [s EXCEPT !.error = TRUE]
Slot(e) == << e.id, e.key >>
Forbidden(e) == (e.negate /\ ~Rule[e.id].negate) \/ (e.reset /\ ~Rule[e.id].reset)

Bare == "no argument"
\* An argument --option, --option=arg, --no-option or --reset-option.
Argument(a) ==
    LET rule == Rule[a.id]
        plain == ~a.negate /\ ~a.reset
        bool == rule.type = "boolean"
        text == IF rule.boolLike /\ plain /\ a.arg = Bare THEN "y"
                ELSE IF rule.boolLike /\ a.negate THEN "n" ELSE a.arg
        negate == (a.negate /\ ~rule.boolLike) \/ (plain /\ bool /\ text = "n")
    IN [bad |-> \/ Forbidden(a) \/ rule.secure
                \/ plain /\ bool /\ a.arg \notin {Bare, "y", "n"}
                \/ plain /\ ~bool /\ text = Bare
                \/ ~plain /\ a.arg # Bare,
        is |-> Asked("param", negate, a.reset, IF text = Bare THEN << >> ELSE << text >>)]

AddArgument(s, a, argument) ==
    LET new == argument.is
        old == s.seen[Slot(a)]
    IN IF argument.bad THEN Fails(s)
       ELSE IF ~IsFound(s.seen, Slot(a)) THEN See(s, Slot(a), new)
       ELSE IF old.negate \/ new.negate \/ old.reset \/ new.reset \/ new.list = << >> \/ ~Rule[a.id].multi THEN Fails(s)
       ELSE [s EXCEPT !.seen[Slot(a)].list = @ \o new.list]

\* A value of the environment or of a file, where nothing before it decided.
AddValue(s, e) ==
    LET bool == Rule[e.id].type = "boolean"
    IN IF IsFound(s.seen, Slot(e)) THEN s
       ELSE IF bool /\ e.list \notin {<< "y" >>, << "n" >>} THEN Fails(s)
       ELSE See(s, Slot(e), Asked("config", bool /\ e.list = << "n" >>, FALSE, IF bool THEN << >> ELSE e.list))

AddEnvironment(s, e, cmd, role) ==
    IF Forbidden(e) THEN Fails(s)
    ELSE IF e.negate \/ e.reset \/ ~Valid(e.id, cmd, role) THEN s
    ELSE IF e.list = << "" >> THEN Fails(s)
    ELSE AddValue(s, e)

\* Faulty variant of Misplaced: a key that is only for a stanza counts in a global section as well.
MisplacedNever(e, global) == FALSE
Misplaced(e, global) == Rule[e.id].section = "stanza" /\ global

AddKey(s, e, global, cmd, role) ==
    LET named == [s EXCEPT !.names = @ \cup {Slot(e)}]
    IN IF Forbidden(e) THEN Fails(s)
       ELSE IF e.negate \/ e.reset \/ Rule[e.id].section = "command line" THEN s
       ELSE IF Slot(e) \in s.names THEN Fails(s)
       ELSE IF \/ ~Valid(e.id, cmd, role)
               \/ Misplaced(e, global)
               \/ IsFound(s.seen, Slot(e)) THEN named
       ELSE IF (Len(e.list) > 1 /\ ~Rule[e.id].multi) \/ e.list = << "" >> THEN Fails(s)
       ELSE AddValue(named, e)

AddSection(s, keys, global, cmd, role) ==
    FoldLeft(LAMBDA t, e : IF t.error THEN t ELSE AddKey(t, e, global, cmd, role), [s EXCEPT !.names = {}], keys)

\* Faulty variant of SectionsOf: the global section of the command comes before the one of the stanza.
SectionsOfGlobal(stanza) == IF stanza THEN << "stanza:cmd", "global:cmd", "stanza", "global" >> ELSE << "global:cmd", "global" >>
\* The sections of the file, the first that has the option decides.
SectionsOf(stanza) == IF stanza THEN << "stanza:cmd", "stanza", "global:cmd", "global" >> ELSE << "global:cmd", "global" >>

Load(p) == p.cmd # "help"

SeenInFile(p, s) ==
    IF ~Load(p) \/ s.error THEN s
    ELSE FoldLeft(LAMBDA t, n : IF t.error THEN t ELSE AddSection(t, p.ini[n], n \in {"global:cmd", "global"}, p.cmd, p.role),
                  s, SectionsOf(IsFound(s.seen, << "stanza", 1 >>)))
SeenAround(p, s) ==
    IF ~Load(p) THEN s
    ELSE FoldLeft(LAMBDA t, e : IF t.error THEN t ELSE AddEnvironment(t, e, p.cmd, p.role), s, p.env)
Seen(p) ==
    SeenInFile(p, SeenAround(p,
        FoldLeft(LAMBDA s, a : IF s.error THEN s ELSE AddArgument(s, a, Argument(a)), NothingSeen, p.args)))

----------------------------------------------------------------------------
(* Phases 4 to 6: groups, dependencies, values and defaults.               *)

AllKeys == [k \in 1..KeyMax |-> k]
\* The keys of a group that are asked for, key 1 of pg always among them.
KeyMap(g, seen, cmd, role) ==
    LET keys == {x[2] : x \in {y \in DOMAIN seen : Rule[y[1]].group = g /\ Valid(y[1], cmd, role) /\ ~seen[y].reset}}
        first == IF g = "pg" \/ keys = {} THEN {1} ELSE {}
        sorted == SelectSeq(AllKeys, LAMBDA k : k \in keys \cup first)
    IN SubSeq(sorted, 1, IF keys = {} THEN 1 ELSE Cardinality(keys))

\* cfgParseOptionalRule: the first rules that are for every command or for this one.
RulesFor(o, cmd) ==
    LET rules == SelectSeq(Rule[o].rules, LAMBDA r : r.cmds = {} \/ cmd \in r.cmds)
    IN IF rules = << >> THEN [cmds |-> {}] ELSE Head(rules)
HasRule(o, cmd, type) == type \in DOMAIN RulesFor(o, cmd)

\* Faulty variant of Depends: the first index of the other option is looked at, not the same one.
DependsFirst(option, o, cmd, i) ==
    LET d == RulesFor(o, cmd).depend
        v == option[d.on][1]
    IN HasRule(o, cmd, "depend") => v.set /\ (d.list = {} \/ v.value[1] \in d.list)
\* cfgParseOptionalFilterDepend.
Depends(option, o, cmd, i) ==
    LET d == RulesFor(o, cmd).depend
        v == option[d.on][IF InGroup(d.on) THEN i ELSE 1]
    IN HasRule(o, cmd, "depend") => v.set /\ (d.list = {} \/ v.value[1] \in d.list)

Unset == [set |-> FALSE, value |-> << >>, shown |-> << >>, negate |-> FALSE, reset |-> FALSE, source |-> "default"]
Bad == << >>

\* The value that a text stands for, Bad when it is none of this option.
Typed(o, cmd, list) ==
    LET rules == RulesFor(o, cmd)
        text == list[1]
        type == Rule[o].type
    IN CASE type = "hash" -> IF ToSet(list) \subseteq Pairs THEN list ELSE Bad
         [] type = "list" -> list
         [] type = "number" ->
                IF text \notin DOMAIN NumberOf THEN Bad
                ELSE IF \E r \in {"range", "allow"} : HasRule(o, cmd, r) /\ NumberOf[text] \notin rules[r] THEN Bad
                ELSE << NumberOf[text] >>
         [] type = "string id" -> IF HasRule(o, cmd, "allow") /\ text \notin rules.allow THEN Bad ELSE << text >>
         [] type = "path" -> IF text \in BadPaths THEN Bad ELSE << IF text \in DOMAIN TrimmedPath THEN TrimmedPath[text] ELSE text >>
         [] OTHER -> << text >>

\* An option with one key: its value in the configuration, nothing where the code fails.
OptionValue(p, option, seen, o, k, i) ==
    LET found == IsFound(seen, << o, k >>)
        asked == IF found THEN seen[<< o, k >>] ELSE NotFound
        rules == RulesFor(o, p.cmd)
        bool == Rule[o].type = "boolean"
        set == found /\ (bool \/ ~asked.negate) /\ ~asked.reset
        start == [Unset EXCEPT !.negate = asked.negate, !.reset = asked.reset]
        value == IF bool THEN << IF asked.negate THEN "n" ELSE "y" >> ELSE Typed(o, p.cmd, asked.list)
        required == IF HasRule(o, p.cmd, "required") THEN ~Rule[o].required ELSE Rule[o].required
    IN IF ~Depends(option, o, p.cmd, i)
       THEN IF set /\ asked.source = "param" THEN << >>
            ELSE << IF rules.depend.default = << >> THEN start ELSE [start EXCEPT !.set = TRUE, !.value = rules.depend.default] >>
       ELSE IF set THEN IF value = Bad THEN << >>
                        ELSE << [start EXCEPT !.set = TRUE, !.source = asked.source, !.value = value, !.shown = asked.list] >>
       ELSE IF asked.negate THEN << [start EXCEPT !.source = asked.source] >>
       ELSE IF HasRule(o, p.cmd, "default") THEN << [start EXCEPT !.set = TRUE, !.value = rules.default] >>
       ELSE IF required /\ ~p.help THEN << >>
       ELSE << start >>

AddOption(p, seen, maps, c, o) ==
    LET keys == IF InGroup(o) THEN maps[Rule[o].group] ELSE << 1 >>
        Add(values) == IF Len(values) < Len(keys) THEN [c EXCEPT !.error = TRUE] ELSE [c EXCEPT !.option = @ @@ (o :> values)]
    IN IF c.error \/ ~Valid(o, p.cmd, p.role) THEN c
       ELSE Add(FoldLeft(LAMBDA done, k : done \o OptionValue(p, c.option, seen, o, k, Len(done) + 1), << >>, keys))

\* Faulty variant of KeptIdx: an index that is asked for remains, whether or not anything came of it.
KeptAsked(c, g) == 1..Len(c.map[g])
\* The indexes of a group with a value that is not a default.
KeptIdx(c, g) == {i \in 1..Len(c.map[g]) : \E o \in DOMAIN c.option : Rule[o].group = g /\ c.option[o][i].source # "default"}

\* WithoutTheme the indexes of a group that have only defaults, unless no other is left.
Phantomless(c, g) ==
    LET kept == KeptIdx(c, g)
        left == IF kept = {} THEN << 1 >> ELSE SelectSeq(AllKeys, LAMBDA i : i \in kept)
        picked(values) == [i \in 1..Len(left) |-> values[left[i]]]
        ofGroup == SelectSeq(Resolve, LAMBDA o : Rule[o].group = g /\ o \in DOMAIN c.option)
    IN [c EXCEPT !.map[g] = IF Len(left) = 1 /\ 1 \notin kept THEN << 1 >> ELSE picked(@),
                 !.option = FoldLeft(LAMBDA option, o : [option EXCEPT ![o] = picked(@)], @, ofGroup)]

\* The index that is meant where none is said.
WithDefaultIndex(c) ==
    LET chosen(g) == g \in DOMAIN c.option /\ c.option[g][1].set
        at(g) == {i \in 1..Len(c.map[g]) : c.map[g][i] = c.option[g][1].value[1]}
    IN IF \E g \in Groups : chosen(g) /\ at(g) = {} THEN [c EXCEPT !.error = TRUE]
       ELSE c @@ [index |-> [g \in Groups |-> IF chosen(g) THEN CHOOSE i \in at(g) : TRUE ELSE 1],
                  exists |-> [g \in Groups |-> g = "pg" \/ "repo" \in DOMAIN c.option]]

\* The configuration of what was seen.
Configured(p, s, maps) ==
    LET invalid == \E x \in DOMAIN s.seen : ~Valid(x[1], p.cmd, p.role)
        start == [error |-> s.error \/ invalid, cmd |-> p.cmd, role |-> p.role, map |-> maps, option |-> << >>]
    IN FoldLeft(LAMBDA x, o : AddOption(p, s.seen, maps, x, o), start, Resolve)
WithIndexes(c) == IF c.error THEN c ELSE WithDefaultIndex(Phantomless(Phantomless(c, "pg"), "repo"))

\* cfgParse.
Resolved(p, s) ==
    WithIndexes(Configured(p, s, [g \in Groups |-> KeyMap(g, s.seen, p.cmd, p.role)]))
Parse(p) == Resolved(p, Seen(p))

----------------------------------------------------------------------------
(* Values that follow from others (cfgLoadUpdateOption), in order.         *)

Has(c, o) == o \in DOMAIN c.option
Idx(c, o) == IF InGroup(o) THEN c.index[Rule[o].group] ELSE 1
Is(c, o, i) == c.option[o][i].set
One(c, o, i) == c.option[o][i].value[1]
Source(c, o, i) == c.option[o][i].source
Indexes(c, g) == 1..Len(c.map[g])
Put(c, o, i, source, value) ==
    [c EXCEPT !.option[o][i].set = TRUE, !.option[o][i].value = value, !.option[o][i].shown = value, !.option[o][i].source = source]
\* The indexes an update goes over, none after an error.
OneByOne(c, g) == [i \in IF c.error THEN {} ELSE Indexes(c, g) |-> i]
FailsIf(c, condition) == IF c.error \/ ~condition THEN c ELSE [c EXCEPT !.error = TRUE]

RepoChosen(c) ==
    FailsIf(c, /\ c.cmd = "stanza-delete" /\ ~Is(c, "repo", 1)
               /\ Len(c.map["repo"]) > 1 \/ c.map["repo"][1] # 1)

Local(c, i) == ~(Has(c, "repo-host") /\ Is(c, "repo-host", i)) /\ One(c, "repo-type", i) \in {"posix", "cifs"}
SamePath(c) ==
    FailsIf(c, Has(c, "repo-path") /\ \E i, j \in Indexes(c, "repo") :
                   /\ i # j /\ Local(c, i) /\ Local(c, j) /\ One(c, "repo-type", i) = One(c, "repo-type", j)
                   /\ One(c, "repo-path", i) = One(c, "repo-path", j))

\* Margin stands for 30 s, and 15 s are half of it.
Margin == 30
\* Faulty variant of TimeLeft: the database timeout is what is left, however little that is.
TimeLeftLittle(protocol) == protocol - Margin
TimeLeft(protocol) == IF protocol - Margin >= Margin \div 2 THEN protocol - Margin ELSE protocol \div 2

Timeouts(c) ==
    IF c.error \/ ~Has(c, "db-timeout") \/ ~Has(c, "protocol-timeout") THEN c
    ELSE LET db == One(c, "db-timeout", 1)
             protocol == One(c, "protocol-timeout", 1)
         IN IF protocol > db THEN c
            ELSE IF Source(c, "protocol-timeout", 1) = "default" THEN Put(c, "protocol-timeout", 1, "default", << db + Margin >>)
            ELSE IF Source(c, "db-timeout", 1) = "default" THEN Put(c, "db-timeout", 1, "default", << TimeLeft(protocol) >>)
            ELSE FailsIf(c, TRUE)

BothRemote(c) ==
    FailsIf(c, /\ Has(c, "pg-host") /\ Has(c, "repo-host")
               /\ \E i \in Indexes(c, "pg") : Is(c, "pg-host", i)
               /\ \E i \in Indexes(c, "repo") : Is(c, "repo-host", i))

\* Faulty variant of FullCount: a number of days is taken for a number of backups.
FullCountDays(c, i) == c.option["repo-retention-full"][i].value
FullCount(c, i) == IF One(c, "repo-retention-full-type", i) = "count" THEN c.option["repo-retention-full"][i].value ELSE << >>

ArchiveRetention(c, i) ==
    LET full == FullCount(c, i)
        diff == c.option["repo-retention-diff"][i].value
        type == One(c, "repo-retention-archive-type", i)
        value == CASE type = "full" -> full [] type = "diff" -> diff [] OTHER -> << >>
    IN IF Is(c, "repo-retention-archive", i) \/ value = << >> THEN c ELSE Put(c, "repo-retention-archive", i, "default", value)

Retention(c) == IF Has(c, "repo-retention-archive") THEN FoldLeft(ArchiveRetention, c, OneByOne(c, "repo")) ELSE c

BucketDots(c) ==
    FailsIf(c, Has(c, "repo-s3-bucket") /\ \E i \in Indexes(c, "repo") :
                   Is(c, "repo-s3-bucket", i) /\ One(c, "repo-s3-bucket", i) = "a.b" /\ One(c, "repo-storage-verify-tls", i) = "y")

ChunkDefault(c) ==
    IF ~Has(c, "repo-storage-upload-chunk-size") THEN c
    ELSE FoldLeft(LAMBDA x, i : IF Is(x, "repo-storage-upload-chunk-size", i) THEN x
                                ELSE Put(x, "repo-storage-upload-chunk-size", i, "default",
                                         << IF One(x, "repo-type", i) = "s3" THEN 5 ELSE 4 >>),
                  c, OneByOne(c, "repo"))

TlsPort == 8432
HostPort(c, g) ==
    LET port == IF g = "pg" THEN "pg-host-port" ELSE "repo-host-port"
        type == IF g = "pg" THEN "pg-host-type" ELSE "repo-host-type"
    IN IF ~Has(c, port) THEN c
       ELSE FoldLeft(LAMBDA x, i : IF Is(x, type, i) /\ One(x, type, i) = "tls" /\ Source(x, port, i) = "default"
                                   THEN Put(x, port, i, "default", << TlsPort >>) ELSE x,
                     c, OneByOne(c, g))

\* Faulty variant of TurnedOff: the deprecated option decides even where the type is said.
TurnedOffAlways(c) == Source(c, "compress", 1) # "default" /\ One(c, "compress", 1) = "n"
TurnedOff(c) == /\ Source(c, "compress", 1) # "default" /\ One(c, "compress", 1) = "n"
                /\ Source(c, "compress-type", 1) = "default"

\* The deprecated option compress becomes a type, and is gone.
Compress(c) ==
    IF c.error \/ ~Has(c, "compress") THEN c
    ELSE LET typed == IF TurnedOff(c) THEN Put(c, "compress-type", 1, "param", << "none" >>) ELSE c
         IN [typed EXCEPT !.option = [o \in DOMAIN @ \ {"compress"} |-> @[o]]]

LevelDefault == [none |-> 0, gz |-> 6, zst |-> 3]
LevelRange == [none |-> {0}, gz |-> -1..9, zst |-> -7..22]
CompressLevel(c) ==
    IF c.error \/ ~Has(c, "compress-level") THEN c
    ELSE LET type == One(c, "compress-type", 1)
         IN IF Source(c, "compress-level", 1) = "default" THEN Put(c, "compress-level", 1, "default", << LevelDefault[type] >>)
            ELSE FailsIf(c, type # "none" /\ One(c, "compress-level", 1) \notin LevelRange[type])

HostKey(c) ==
    LET check == "repo-sftp-host-key-check-type"
        print(x, i) == Is(x, "repo-sftp-host-fingerprint", i)
        One1(x, i) ==
            IF ~Is(x, check, i) THEN x
            ELSE IF print(x, i) /\ Source(x, check, i) = "default" THEN Put(x, check, i, "default", << "fingerprint" >>)
            ELSE FailsIf(x, print(x, i) # (One(x, check, i) = "fingerprint"))
    IN IF Has(c, check) THEN FoldLeft(One1, c, OneByOne(c, "repo")) ELSE c

TargetTime(c) ==
    FailsIf(c, Has(c, "repo-target-time") /\ Is(c, "repo-target-time", 1) /\ Source(c, "repo", 1) = "default")

Update(c) ==
    TargetTime(HostKey(CompressLevel(Compress(
        HostPort(HostPort(ChunkDefault(BucketDots(Retention(BothRemote(Timeouts(SamePath(RepoChosen(c))))))), "repo"), "pg")))))

\* cfgLoad.
LoadedOf(p, c) == IF c.error \/ p.help THEN c ELSE Update(c)
Loaded(p) == LoadedOf(p, Parse(p))

----------------------------------------------------------------------------
(* The parameters of another process (cfgExecParam).                       *)

Arg(o, key, negate, reset, text) == [id |-> o, key |-> key, negate |-> negate, reset |-> reset, arg |-> text]

\* Faulty variant of WasReset: a parameter that was reset is left out.
WasResetNever(v) == FALSE
WasReset(v) == ~v.negate /\ v.reset /\ ~(v.set /\ v.source # "default")

\* What is passed of one index of an option; replace says which values are others, empty ones are left out.
PassedOf(c, replace, local, o, i) ==
    LET valid == Has(c, o)
        key == IF valid /\ InGroup(o) THEN c.map[Rule[o].group][i] ELSE 1
        exists == << o, key >> \in DOMAIN replace
        v == c.option[o][i]
        texts == IF exists THEN replace[<< o, key >>] ELSE v.shown
    IN IF exists THEN [n \in 1..Len(texts) |-> Arg(o, key, FALSE, FALSE, texts[n])]
       ELSE IF ~valid THEN << >>
       ELSE IF WasReset(v) THEN << Arg(o, key, FALSE, TRUE, Bare) >>
       ELSE IF v.source # "param" /\ (local \/ (v.source = "default" /\ ~v.negate)) THEN << >>
       ELSE IF v.negate \/ (Rule[o].type = "boolean" /\ v.value = << "n" >>) THEN << Arg(o, key, TRUE, FALSE, Bare) >>
       ELSE IF Rule[o].type = "boolean" THEN << Arg(o, key, FALSE, FALSE, Bare) >>
       ELSE [n \in 1..Len(texts) |-> Arg(o, key, FALSE, FALSE, texts[n])]

\* Faulty variant of ExecOptions: secure options are passed as well.
ExecOptionsSecure(cmd, role) == SelectSeq(Resolve, LAMBDA o : Valid(o, cmd, role) /\ o # "repo-cipher-type")
ExecOptions(cmd, role) == SelectSeq(Resolve, LAMBDA o : Valid(o, cmd, role) /\ ~Rule[o].secure /\ o # "repo-cipher-type")

ExecParam(c, cmd, role, replace, local) ==
    LET OfOption(o) == FoldLeft(LAMBDA args, i : args \o PassedOf(c, replace, local, o, i), << >>,
                                IF Has(c, o) /\ InGroup(o) THEN SubSeq(AllKeys, 1, Len(c.map[Rule[o].group])) ELSE << 1 >>)
    IN FoldLeft(LAMBDA args, o : args \o OfOption(o), << >>, ExecOptions(cmd, role))

\* Another process of the same host reads the same files; one of another host has only its parameters.
\* protocolRemoteParam leaves out the repositories that are not for that host.
OtherRepos(c, i) ==
    LET names == {<< o, j >> \in (DOMAIN c.option) \X (Indexes(c, "repo") \ {i}) : Rule[o].group = "repo" /\ Is(c, o, j)}
    IN [x \in {<< n[1], c.map["repo"][n[2]] >> : n \in names} |-> << >>]
EmptyIni == [n \in {"stanza:cmd", "stanza", "global:cmd", "global"} |-> << >>]

\* A command line, an environment and a file out of the sets of a theme.
ProcessOf(args, env, ini) == [cmd |-> "backup", role |-> "main", help |-> FALSE, args |-> args, env |-> env, ini |-> ini]

ParseCall ==
    /\ NoCall
    /\ \E t \in ParseCalls : \E args \in t.args, env \in t.env, ini \in t.ini, help \in t.help, cmd \in t.cmd :
          LET p == [ProcessOf(args, env, ini) EXCEPT !.help = help, !.cmd = cmd]
          IN call' = Called("parse", p, Parse(p))

UpdateCall == NoCall /\ \E c \in UpdateCalls : call' = Called("update", c, Update(c))

\* TLC evaluates what \E binds once.
LocalCall ==
    /\ NoCall
    /\ \E t \in ExecCalls : \E args \in t.args, env \in t.env, ini \in t.ini :
       \E main \in {Loaded(ProcessOf(args, env, ini))} :
          /\ ~main.error
          /\ \E given \in {ExecParam(main, main.cmd, "local", << >>, TRUE)} :
                call' = Called("local child", ProcessOf(args, env, ini),
                               [main |-> main, args |-> given, child |-> Loaded([ProcessOf(given, env, ini) EXCEPT !.role = "local"])])

RemoteCall ==
    /\ NoCall
    /\ \E t \in ExecCalls : \E args \in t.args, env \in t.env, ini \in t.ini :
       \E main \in {Loaded(ProcessOf(args, env, ini))} :
          /\ ~main.error
          /\ \E repo \in Indexes(main, "repo") :
             \E given \in {ExecParam(main, main.cmd, "remote",
                                     OtherRepos(main, repo) @@ (<< "repo", 1 >> :> << ToString(main.map["repo"][repo]) >>), FALSE)} :
                call' = Called("remote child", ProcessOf(args, env, ini),
                               [main |-> main, args |-> given, repo |-> repo,
                                child |-> Loaded([ProcessOf(given, << >>, EmptyIni) EXCEPT !.role = "remote"])])

ExecNext == LocalCall \/ RemoteCall
ConfigNext == NameCall \/ NumberCall \/ ConfigFileCall \/ StanzaListCall \/ UpdateCall \/ ParseCall

----------------------------------------------------------------------------
(* The name of an option with its key stands for it, and an abbreviation   *)
(* never for one of several (cfgParseOption).  Key 0 is not looked at: the *)
(* code takes it for a key beyond all others.                              *)
NamesFound ==
    Returns("option name") =>
        LET a == call.arg
            r == call.result
            found == r.is = "found"
            text == a.name
        IN /\ \A o \in OptionIds, k \in 1..KeyMax :
                 /\ text = KeyName(o, k) /\ k <= KeyMax /\ (InGroup(o) \/ k = 1)
                 /\ a.prefix = << "no", "-" >> => Rule[o].negate
                 /\ a.prefix = << "reset", "-" >> => Rule[o].reset
                 => found /\ r.id = o /\ r.key = k
           /\ found /\ IsPrefix(text, KeyName(r.id, r.key)) /\ text # KeyName(r.id, r.key) =>
                 \A o \in OptionIds : IsPrefix(text, KeyName(o, r.key)) => o = r.id

(* A number with a unit is the product, never more than fits and never     *)
(* less than the number itself (cfgParseSize, cfgParseTime).               *)
NumbersFit ==
    Returns("number") =>
        \A n \in {call.result.size, call.result.time} \ {NoNumber} : call.arg.n <= n /\ n <= MaxNumber

(* What is read follows the rules of the comment above cfgFileLoad: what   *)
(* is asked for must exist, the directory is only read with the default    *)
(* file or where it is asked for, and --config-path moves both.            *)
FilesAsked ==
    Returns("config file") =>
        LET a == call.arg
            r == call.result
            alone == a.config = "given" /\ ~a.path /\ ~a.include
        IN IF r.error THEN (a.config = "given" /\ "given" \notin a.files) \/ (a.include /\ "given" \notin a.includes)
           ELSE /\ a.config = "given" => r.file = {"given"}
                /\ a.config = "no" => r.file = {} /\ (r.parts # {} => a.path \/ a.include)
                /\ alone => r.parts = {}
                /\ a.include => r.parts = {"given"}
                /\ a.path => r.file \subseteq {"given", "path"} /\ r.parts \subseteq {"given", "path"}
                /\ a.config = "default" /\ ~a.path /\ r.file = {} => a.files \cap {"default", "orig"} = {}
                /\ a.config = "default" /\ ~a.path /\ ~a.include => r.parts = {"default"} \cap a.includes

(* Where a value comes from: the command line, the environment, and the    *)
(* sections of the file, the nearer one first, decide in this order.       *)
PlacesOf(p) == << p.args, p.env >> \o [i \in 1..4 |-> p.ini[<< "stanza:cmd", "stanza", "global:cmd", "global" >>[i]]]
CountsAt(p, e, n) ==
    /\ n > 1 => ~e.negate /\ ~e.reset
    /\ n > 2 => Rule[e.id].section # "command line"
    /\ n > 4 => Rule[e.id].section # "stanza"
    /\ n \in {3, 4} => \E i \in {1, 2} : \E s \in ToSet(PlacesOf(p)[i]) : s.id = "stanza" 
SaysAt(p, x, n) == SelectSeq(PlacesOf(p)[n], LAMBDA e : Slot(e) = x /\ CountsAt(p, e, n))
Deciding(p, x) == {n \in 1..6 : SaysAt(p, x, n) # << >> /\ \A m \in 1..n - 1 : SaysAt(p, x, m) = << >>}
Texts(p, x, n) == IF n = 1 THEN [i \in 1..Len(SaysAt(p, x, 1)) |-> SaysAt(p, x, 1)[i].arg] ELSE SaysAt(p, x, n)[1].list

\* What an option depends on has one of the values it must have, in the same index.
DependencyMet(p, c, o, i) ==
    LET d == RulesFor(o, p.cmd).depend
        v == c.option[d.on][IF InGroup(d.on) THEN i ELSE 1]
    IN HasRule(o, p.cmd, "depend") => v.set /\ (d.list # {} => ToSet(v.value) \subseteq d.list)
\* The code gives the last index the key 1 when the first one had only defaults, even if the last one had not.
SaidOf(p, g) == UNION {{x \in ToSet(PlacesOf(p)[n]) : Rule[x.id].group = g} : n \in 1..6}
KeyChanged(p, c, g) == c.map[g] = << 1 >> /\ \E x \in SaidOf(p, g) : x.key # 1

OptionRight(p, c, o, i) ==
    LET x == << o, IF InGroup(o) THEN c.map[Rule[o].group][i] ELSE 1 >>
        v == c.option[o][i]
        depends == DependencyMet(p, c, o, i)
    IN /\ v.source # "default" => depends
       /\ v.source # "default" => \E n \in Deciding(p, x) :
              /\ v.source = IF n = 1 THEN "param" ELSE "config"
              /\ v.set /\ Rule[o].type # "boolean" /\ ~Rule[o].boolLike => v.shown = Texts(p, x, n)
       /\ v.source = "default" /\ depends => \A n \in Deciding(p, x) : n = 1 /\ \E s \in ToSet(SaysAt(p, x, 1)) : s.reset
       /\ ~v.set /\ depends /\ ~p.help /\ ~v.negate => ~HasRule(o, p.cmd, "default") /\ (Rule[o].required => HasRule(o, p.cmd, "required"))

(* Every option has the value of the place that decides, its default or    *)
(* none; what depends on another is only set where that one has the value  *)
(* it must have, in the same index; and only indexes remain in which       *)
(* something is said (cfgParse).                                           *)
ValuesRight ==
    Returns("parse") /\ ~call.result.error =>
        LET c == call.result
        IN /\ \A o \in DOMAIN c.option : (InGroup(o) => ~KeyChanged(call.arg, c, Rule[o].group)) => \A i \in 1..Len(c.option[o]) : OptionRight(call.arg, c, o, i)
           /\ \A g \in Groups : /\ \A i, j \in Indexes(c, g) : i < j => c.map[g][i] < c.map[g][j]
                                /\ Len(c.map[g]) > 1 => KeptIdx(c, g) = Indexes(c, g)
           /\ \A o \in DOMAIN c.option : InGroup(o) => Len(c.option[o]) = Len(c.map[Rule[o].group])

(* What the user has set is not changed by what follows from it; to follow *)
(* twice is to follow once; the protocol waits longer than the database;   *)
(* days of retention are never taken for backups; no two repositories are  *)
(* one, and never are both sides remote (cfgLoadUpdateOption).             *)
UpdateKeeps ==
    LET Kept2(c, d) ==
            /\ \A o \in DOMAIN d.option : \A i \in 1..Len(d.option[o]) :
                   c.option[o][i].source # "default" => d.option[o][i] = c.option[o][i]
            /\ Update(d) = d
            /\ Has(d, "db-timeout") /\ Has(d, "protocol-timeout") =>
                   One(d, "protocol-timeout", 1) > One(d, "db-timeout", 1) /\ One(d, "db-timeout", 1) >= 0
            /\ Has(d, "repo-retention-archive") => \A i \in Indexes(d, "repo") :
                   /\ ~Is(c, "repo-retention-archive", i) /\ One(d, "repo-retention-archive-type", i) = "full"
                   /\ One(d, "repo-retention-full-type", i) = "time"
                   => ~Is(d, "repo-retention-archive", i)
            /\ ~(\E i \in Indexes(d, "pg"), j \in Indexes(d, "repo") : /\ Has(d, "pg-host") /\ Has(d, "repo-host")
                                                                 /\ Is(d, "pg-host", i) /\ Is(d, "repo-host", j))
            /\ Has(d, "repo-path") => \A i, j \in Indexes(d, "repo") :
                   i # j /\ Local(d, i) /\ Local(d, j) /\ d.option["repo-path"][i].value = d.option["repo-path"][j].value
                   => One(d, "repo-type", i) # One(d, "repo-type", j)
    IN /\ Returns("update") /\ ~call.result.error => Kept2(call.arg, call.result)
       /\ Returns("local child") => Kept2(Parse(call.arg), call.result.main)

SameValue(v, w) == v.set = w.set /\ v.value = w.value

\* A key that something is said of is gone: its options are only reset, or the code has made it key 1.
KeyLost(p, c) ==
    \E g \in Groups : KeyChanged(p, c, g) \/ \E x \in SaidOf(p, g) : x.reset /\ x.key \notin ToSet(c.map[g])

(* A process that this one starts has the same value of every option that  *)
(* is valid for both, though no secret is passed; a remote process has the *)
(* values of the one repository it works on.  Excluded are a key that is   *)
(* changed to 1, one that is only reset (the process that is started does  *)
(* not learn of it) and a negated option whose dependency is not met: it   *)
(* is passed to a remote process, which refuses it.                        *)
ChildSame ==
    LET c == call.result.main
        d == call.result.child
        p == call.arg
        refused == \E o \in DOMAIN c.option : /\ Valid(o, p.cmd, "remote")
                                              /\ \E i \in 1..Len(c.option[o]) : c.option[o][i].negate /\ ~Depends(c.option, o, p.cmd, i)
        hidden(o) == Rule[o].secure \/ o = "repo-cipher-type" \/ (o \in DOMAIN c.option /\ HasRule(o, p.cmd, "depend")
                                                                  /\ RulesFor(o, p.cmd).depend.on = "repo-cipher-type")
    IN /\ Returns("local child") \/ Returns("remote child") =>
              \A n \in 1..Len(call.result.args) : ~Rule[call.result.args[n].id].secure
       /\ Returns("local child") /\ ~KeyLost(p, c) =>
              /\ ~d.error /\ d.map = c.map
              /\ \A o \in DOMAIN c.option \cap DOMAIN d.option : \A i \in 1..Len(c.option[o]) : SameValue(c.option[o][i], d.option[o][i])
       /\ Returns("remote child") /\ ~refused /\ ~KeyLost(p, c) =>
              /\ ~d.error
              /\ \A o \in (DOMAIN c.option \cap DOMAIN d.option) \ {"repo"} : ~hidden(o) =>
                     SameValue(c.option[o][IF Rule[o].group = "repo" THEN call.result.repo ELSE 1], d.option[o][Idx(d, o)])

(* The configuration of a process is the one that was asked for, and the   *)
(* processes it starts have the same.                                      *)
ConfigSound == NamesFound /\ NumbersFit /\ FilesAsked /\ ValuesRight /\ UpdateKeeps /\ ChildSame
=============================================================================
