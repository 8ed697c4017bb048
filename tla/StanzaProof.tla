---------------------------- MODULE StanzaProof ----------------------------
(***************************************************************************)
(* Proofs about a stanza in a repository, for any clusters, any number of  *)
(* upgrades and any number of files that are lost and commands that are    *)
(* killed.                                                                 *)
(***************************************************************************)
EXTENDS Stanza, TLAPS

\* The info files: of the archive and of the backups, each with its copy.
Kinds == {"archive", "backup"}
Parts == {"main", "copy"}

\* What a stanza in a repository may be.
Entries == [id : Nat, pg : Clusters]
Files == [is : {"ok", "bad", "missing"}, pass : Nat, history : Seq(Entries), n : Nat]
Writes == [op : {"write", "remove", "path", "stop"}, place : Places, file : Files]
Dids == {"new", "create", "upgrade", "delete", "backup", "cluster", "killed", "fault"}
Stanzas == [file : [Places -> Files], stored : [Kinds -> SUBSET Nat], stop : BOOLEAN, pg : Clusters,
            todo : Seq(Writes), passes : Nat, faults : Nat, kills : Nat, did : Dids]

\* The files a command writes before others.
Before(p, q) ==
    \/ p[1] = "archive" /\ q[1] = "backup"
    \/ p[1] = q[1] /\ p[2] = "main" /\ q[2] = "copy"

\* What a place holds, what will be written there, and what it will hold when
\* the command has ended.
Now(o, p) == {f \in {o.file[p]} : f.is = "ok"}
QueuedAt(t, p) == {t[i].file : i \in {j \in DOMAIN t : t[j].op = "write" /\ t[j].place = p}}
Queued(o, p) == QueuedAt(o.todo, p)
Final(o, p) == IF Queued(o, p) # {} THEN Queued(o, p) ELSE Now(o, p)
Alive(o, p) == Now(o, p) \cup Queued(o, p)

\* What a command removes.
RemovedAt(t, p) == \E i \in DOMAIN t : t[i].op = "remove" /\ t[i].place = p
PathAt(t, kind) == \E i \in DOMAIN t : t[i].op = "path" /\ t[i].place[1] = kind

\* A command writes in the order of the places or removes in that order.
Orderly(t) ==
    /\ \A i, j \in DOMAIN t : t[i].op = "write" => t[j].op = "write" /\ t[i].file.is = "ok"
    /\ \A i \in DOMAIN t : t[i].op = "remove" => t[i].file = Missing
    /\ \A i, j \in DOMAIN t : i < j =>
          /\ t[i].op # "stop"
          /\ t[j].op \in {"write", "remove"} => t[i].op = t[j].op /\ Before(t[i].place, t[j].place)

\* s is the end of t.
Suffix(s, t) == Len(s) <= Len(t) /\ \A i \in 1..Len(s) : s[i] = t[Len(t) - Len(s) + i]

\* Clusters are numbered in the order the stanza has seen them.
Numbered(h) == Len(h) > 0 /\ \A i \in 1..Len(h) : h[i].id = Len(h) - i + 1
HistoriesNumbered(o) == \A p \in Places : \A f \in Alive(o, p) : Numbered(f.history)

\* All histories are the same but for the clusters at the end.
OneHistory(o) ==
    \A p, q \in Places : \A f \in Alive(o, p), g \in Alive(o, q) :
        Suffix(f.history, g.history) \/ Suffix(g.history, f.history)

\* All that is stored, and each info file, has the passphrase of its kind.
OnePass(o) ==
    \A kind \in Kinds : \E x \in Nat :
        o.stored[kind] \subseteq {x} /\ \A part \in Parts : \A f \in Alive(o, << kind, part >>) : f.pass = x

\* A copy is behind the file, and equal once a command has ended that was not killed.
Behind(f, g) == Suffix(f.history, g.history) /\ f.n <= g.n
CopyBehind(o) ==
    \A kind \in Kinds :
        LET p == << kind, "main" >>
            q == << kind, "copy" >>
        IN  /\ \A f \in Alive(o, p), g \in Now(o, q) : Behind(g, f)
            /\ \A f \in Final(o, p), g \in Final(o, q) : Behind(g, f)
CopyEqual(o) ==
    o.kills = 0 => \A kind \in Kinds : \A f \in Final(o, << kind, "main" >>), g \in Final(o, << kind, "copy" >>) : f = g

\* backup.info has seen all clusters that archive.info has, but for the last one.
Near(f, g) == Len(g.history) <= Len(f.history) /\ Len(f.history) <= Len(g.history) + 1
BackupBehind(o) ==
    \A x, y \in Parts :
        LET p == << "archive", x >>
            q == << "backup", y >>
        IN  o.kills = 0 \/ (o.faults = 0 /\ x = "main" /\ y = "main") =>
                /\ \A f \in Alive(o, p), g \in Now(o, q) : Near(f, g)
                /\ \A f \in Final(o, p), g \in Final(o, q) : Near(f, g)

\* While there is an archive.info the backup.info is not lost before its copy.
MainLast(o) ==
    (o.faults = 0 /\ \E x \in Parts : Alive(o, << "archive", x >>) # {}) =>
        /\ Now(o, << "backup", "copy" >>) # {} => Now(o, << "backup", "main" >>) # {}
        /\ Final(o, << "backup", "copy" >>) # {} => Final(o, << "backup", "main" >>) # {}

\* stanza-delete removes archive.info and its copy before backup.info.
RemoveOrder(o) ==
    RemovedAt(o.todo, << "backup", "main" >>) =>
        \A x \in Parts : Now(o, << "archive", x >>) = {} \/ RemovedAt(o.todo, << "archive", x >>)

\* Nothing is stored and no info file is left, good or bad.
Emptied(o, kind) == o.stored[kind] = {} /\ \A part \in Parts : o.file[<< kind, part >>].is = "missing"

\* What a command has decided to leave.
FinalPair(o, kind) ==
    IF Final(o, << kind, "main" >>) # {} THEN Final(o, << kind, "main" >>) ELSE Final(o, << kind, "copy" >>)
Decided(o) ==
    /\ o.did \in {"create", "upgrade"} =>
          /\ \A i \in DOMAIN o.todo : o.todo[i].op = "write"
          /\ \A kind \in Kinds : FinalPair(o, kind) # {}
          /\ \A f \in FinalPair(o, "archive"), g \in FinalPair(o, "backup") :
                f.history[1] = g.history[1] /\ f.history[1].pg = o.pg
    /\ o.did = "create" => \A p \in Places : Queued(o, p) # {} \/ o.file[p].is # "missing"
    /\ o.did = "delete" =>
          /\ \A i \in DOMAIN o.todo : o.todo[i].op # "write"
          /\ \A kind \in Kinds : Emptied(o, kind) \/ PathAt(o.todo, kind)
          /\ o.stop \/ \A kind \in Kinds : Emptied(o, kind)

\* The inductive invariant of the stanza in a repository.
StanzaInv(o) ==
    /\ o \in Stanzas
    /\ Orderly(o.todo)
    /\ HistoriesNumbered(o)
    /\ OneHistory(o)
    /\ OnePass(o)
    /\ CopyBehind(o)
    /\ CopyEqual(o)
    /\ BackupBehind(o)
    /\ MainLast(o)
    /\ RemoveOrder(o)
    /\ Decided(o)

\* The inductive invariant.
StanzaIInv == Returns("stanza") => call = Made("stanza", call.obj) /\ StanzaInv(call.obj)
-----------------------------------------------------------------------------
\* A suffix, position by position.
LEMMA SuffixSame ==
    ASSUME NEW S, NEW s \in Seq(S), NEW t \in Seq(S)
    PROVE  IsSuffix(s, t) <=> Suffix(s, t)
<1> DEFINE r == Reverse(s)
           u == Reverse(t)
<1>1. /\ r \in Seq(S) /\ Len(r) = Len(s) /\ \A i \in 1..Len(s) : r[i] = s[Len(s) - i + 1]
      /\ u \in Seq(S) /\ Len(u) = Len(t) /\ \A i \in 1..Len(t) : u[i] = t[Len(t) - i + 1]
  BY DEF Reverse
<1> HIDE DEF r, u
<1>2. CASE Len(s) <= Len(t)
  <2>1. /\ SubSeq(r, 1, Len(r)) \in Seq(S) /\ Len(SubSeq(r, 1, Len(r))) = Len(s)
        /\ SubSeq(u, 1, Len(r)) \in Seq(S) /\ Len(SubSeq(u, 1, Len(r))) = Len(s)
        /\ \A i \in 1..Len(s) : SubSeq(r, 1, Len(r))[i] = r[i] /\ SubSeq(u, 1, Len(r))[i] = u[i]
    BY <1>1, <1>2
  <2>2. SubSeq(r, 1, Len(r)) = SubSeq(u, 1, Len(r)) <=> \A i \in 1..Len(s) : r[i] = u[i]
    BY <2>1
  <2>3. (\A i \in 1..Len(s) : r[i] = u[i]) <=> \A i \in 1..Len(s) : s[i] = t[Len(t) - Len(s) + i]
    <3>1. ASSUME \A i \in 1..Len(s) : r[i] = u[i], NEW i \in 1..Len(s)
          PROVE  s[i] = t[Len(t) - Len(s) + i]
      <4>1. Len(s) - i + 1 \in 1..Len(s) /\ Len(s) - (Len(s) - i + 1) + 1 = i
            /\ Len(t) - (Len(s) - i + 1) + 1 = Len(t) - Len(s) + i /\ Len(s) - i + 1 \in 1..Len(t)
        BY <1>2
      <4> QED BY <3>1, <4>1, <1>1
    <3>2. ASSUME \A i \in 1..Len(s) : s[i] = t[Len(t) - Len(s) + i], NEW i \in 1..Len(s)
          PROVE  r[i] = u[i]
      <4>1. Len(s) - i + 1 \in 1..Len(s) /\ Len(t) - Len(s) + (Len(s) - i + 1) = Len(t) - i + 1 /\ i \in 1..Len(t)
        BY <1>2
      <4> QED BY <3>2, <4>1, <1>1
    <3> QED BY <3>1, <3>2
  <2> QED BY <1>1, <1>2, <2>2, <2>3 DEF IsSuffix, IsPrefix, Suffix, r, u
<1>3. CASE ~(Len(s) <= Len(t))
  BY <1>1, <1>3 DEF IsSuffix, IsPrefix, Suffix, r, u
<1> QED BY <1>2, <1>3

\* info files are read from the main file, and from the copy if it is not good.
LEMMA LoadPairIs ==
    ASSUME NEW o \in Stanzas, NEW kind \in Kinds
    PROVE  LoadPair(o, kind) = IF o.file[<< kind, "main" >>].is = "ok" THEN o.file[<< kind, "main" >>]
                               ELSE IF o.file[<< kind, "copy" >>].is = "ok" THEN o.file[<< kind, "copy" >>] ELSE Missing
<1> DEFINE f == << o.file[<< kind, "main" >>], o.file[<< kind, "copy" >>] >>
           a == [i \in 1..2 |-> f[i].is]
<1>1. a[1] = f[1].is /\ a[2] = f[2].is
  OBVIOUS
<1>2. InfoLoad(a).loaded = IF f[1].is = "ok" THEN 1 ELSE IF f[2].is = "ok" THEN 2 ELSE 0
  BY <1>1 DEF InfoLoad
<1> QED BY <1>2 DEF LoadPair

\* The places of the info files and their copies.
LEMMA PlacesAre ==
    /\ Places = {<< k, x >> : k \in Kinds, x \in Parts}
    /\ \A p \in Places : p = << p[1], p[2] >> /\ p[1] \in Kinds /\ p[2] \in Parts
BY DEF Places, Kinds, Parts

\* What is left when the first of a sequence is taken.
LEMMA TailIs ==
    ASSUME NEW S, NEW t \in Seq(S), t # << >>
    PROVE  /\ Head(t) = t[1] /\ Head(t) \in S /\ 1 \in DOMAIN t
           /\ Tail(t) \in Seq(S)
           /\ \A i \in DOMAIN Tail(t) : i + 1 \in DOMAIN t /\ Tail(t)[i] = t[i + 1]
           /\ \A i \in DOMAIN t : i = 1 \/ (i > 1 /\ i - 1 \in DOMAIN Tail(t) /\ Tail(t)[i - 1] = t[i])
<1>1. Len(t) \in Nat /\ Len(t) > 0 /\ DOMAIN t = 1..Len(t) /\ DOMAIN Tail(t) = 1..(Len(t) - 1)
  OBVIOUS
<1>2. \A i \in DOMAIN Tail(t) : i + 1 \in DOMAIN t /\ Tail(t)[i] = t[i + 1]
  BY <1>1
<1>3. \A i \in DOMAIN t : i = 1 \/ (i > 1 /\ i - 1 \in DOMAIN Tail(t) /\ Tail(t)[i - 1] = t[i])
  BY <1>1, <1>2
<1> QED BY <1>1, <1>2, <1>3

\* The rest of a command is one too.
LEMMA OrderlyTail ==
    ASSUME NEW t \in Seq(Writes), t # << >>, Orderly(t)
    PROVE  Orderly(Tail(t))
BY TailIs DEF Orderly

\* The next write of a command is the only one for its place, and those before
\* it are done.
LEMMA NextWrite ==
    ASSUME NEW t \in Seq(Writes), t # << >>, Orderly(t), Head(t).op = "write"
    PROVE  /\ Head(t).file \in Files /\ Head(t).file.is = "ok" /\ Head(t).place \in Places
           /\ Head(t).file \in QueuedAt(t, Head(t).place)
           /\ \A p \in Places : QueuedAt(Tail(t), p) = IF p = Head(t).place THEN {} ELSE QueuedAt(t, p)
           /\ \A p \in Places : Before(p, Head(t).place) => QueuedAt(t, p) = {}
<1> DEFINE h == Head(t)
<1>1. /\ h = t[1] /\ h \in Writes /\ 1 \in DOMAIN t
      /\ \A i \in DOMAIN t : t[i].op = "write" /\ t[i].file.is = "ok"
  BY TailIs DEF Orderly
<1>2. ASSUME NEW i \in DOMAIN t, i > 1
      PROVE  Before(h.place, t[i].place)
  BY <1>1, <1>2 DEF Orderly
<1>3. /\ h.file \in Files /\ h.place \in Places /\ h.file \in QueuedAt(t, h.place)
  BY <1>1 DEF QueuedAt, Writes
<1>4. ASSUME NEW p \in Places
      PROVE  QueuedAt(Tail(t), p) = IF p = h.place THEN {} ELSE QueuedAt(t, p)
  <2>1. CASE p = h.place
    BY <1>2, <1>3, <2>1, TailIs, PlacesAre DEF QueuedAt, Before, Parts
  <2>2. CASE p # h.place
    <3>1. ASSUME NEW f \in QueuedAt(Tail(t), p) PROVE f \in QueuedAt(t, p)
      BY TailIs DEF QueuedAt
    <3>2. ASSUME NEW f \in QueuedAt(t, p) PROVE f \in QueuedAt(Tail(t), p)
      <4>1. PICK i \in DOMAIN t : t[i].op = "write" /\ t[i].place = p /\ f = t[i].file
        BY DEF QueuedAt
      <4>2. i - 1 \in DOMAIN Tail(t) /\ Tail(t)[i - 1] = t[i]
        BY <1>1, <2>2, <4>1, TailIs
      <4> QED BY <4>1, <4>2 DEF QueuedAt
    <3> QED BY <2>2, <3>1, <3>2
  <2> QED BY <2>1, <2>2
<1>5. ASSUME NEW p \in Places, Before(p, h.place)
      PROVE  QueuedAt(t, p) = {}
  <2>1. SUFFICES ASSUME NEW i \in DOMAIN t, t[i].place = p PROVE FALSE
    BY DEF QueuedAt
  <2>2. i \in Nat /\ (i = 1 \/ i > 1)
    BY DEF QueuedAt
  <2>3. CASE i = 1
    BY <1>1, <1>5, <2>1, <2>3 DEF Before
  <2>4. CASE i > 1
    BY <1>2, <1>5, <2>1, <2>4 DEF Before
  <2> QED BY <2>2, <2>3, <2>4
<1> QED BY <1>1, <1>3, <1>4, <1>5

\* A command that removes writes nothing.
LEMMA NextRemoval ==
    ASSUME NEW t \in Seq(Writes), t # << >>, Orderly(t), Head(t).op # "write"
    PROVE  \A p : QueuedAt(t, p) = {} /\ QueuedAt(Tail(t), p) = {}
<1>1. \A i \in DOMAIN t : t[i].op # "write"
  BY TailIs DEF Orderly
<1>2. \A i \in DOMAIN Tail(t) : Tail(t)[i].op # "write"
  BY <1>1, TailIs
<1> QED BY <1>1, <1>2 DEF QueuedAt

\* What two commands write, one after the other.
LEMMA QueuedBoth ==
    ASSUME NEW s \in Seq(Writes), NEW t \in Seq(Writes)
    PROVE  /\ s \o t \in Seq(Writes)
           /\ \A p : QueuedAt(s \o t, p) = QueuedAt(s, p) \cup QueuedAt(t, p)
           /\ \A i \in DOMAIN (s \o t) : \/ i \in DOMAIN s /\ (s \o t)[i] = s[i]
                                         \/ i - Len(s) \in DOMAIN t /\ (s \o t)[i] = t[i - Len(s)] /\ i > Len(s)
<1> DEFINE u == s \o t
<1>1. u \in Seq(Writes) /\ Len(u) = Len(s) + Len(t) /\ Len(s) \in Nat /\ Len(t) \in Nat
  OBVIOUS
<1>2. \A i \in DOMAIN u : \/ i \in DOMAIN s /\ u[i] = s[i]
                          \/ i - Len(s) \in DOMAIN t /\ u[i] = t[i - Len(s)] /\ i > Len(s)
  BY <1>1
<1>3. \A i \in DOMAIN s : i \in DOMAIN u /\ u[i] = s[i]
  BY <1>1
<1>4. \A i \in DOMAIN t : i + Len(s) \in DOMAIN u /\ u[i + Len(s)] = t[i]
  BY <1>1
<1> HIDE DEF u
<1>5. ASSUME NEW p PROVE QueuedAt(u, p) = QueuedAt(s, p) \cup QueuedAt(t, p)
  <2>1. ASSUME NEW f \in QueuedAt(u, p) PROVE f \in QueuedAt(s, p) \cup QueuedAt(t, p)
    BY <1>2, <2>1 DEF QueuedAt
  <2>2. ASSUME NEW f \in QueuedAt(s, p) PROVE f \in QueuedAt(u, p)
    BY <1>3, <2>2 DEF QueuedAt
  <2>3. ASSUME NEW f \in QueuedAt(t, p) PROVE f \in QueuedAt(u, p)
    BY <1>4, <2>3 DEF QueuedAt
  <2> QED BY <2>1, <2>2, <2>3
<1> QED BY <1>1, <1>2, <1>5 DEF u

\* Suffixes of suffixes, and two suffixes of one sequence.
LEMMA SuffixFacts ==
    ASSUME NEW S, NEW r \in Seq(S), NEW s \in Seq(S), NEW t \in Seq(S)
    PROVE  /\ Suffix(s, s)
           /\ Suffix(r, s) /\ Suffix(s, t) => Suffix(r, t)
           /\ Suffix(r, t) /\ Suffix(s, t) => Suffix(r, s) \/ Suffix(s, r)
           /\ Suffix(s, t) /\ Len(s) = Len(t) => s = t
<1>1. Suffix(s, s)
  BY DEF Suffix
<1>2. ASSUME Suffix(r, s), Suffix(s, t) PROVE Suffix(r, t)
  <2>1. Len(r) <= Len(s) /\ Len(s) <= Len(t)
    BY <1>2 DEF Suffix
  <2>2. ASSUME NEW i \in 1..Len(r) PROVE r[i] = t[Len(t) - Len(r) + i]
    <3>1. Len(s) - Len(r) + i \in 1..Len(s) /\ Len(t) - Len(s) + (Len(s) - Len(r) + i) = Len(t) - Len(r) + i
      BY <2>1
    <3>2. r[i] = s[Len(s) - Len(r) + i]
      BY <1>2 DEF Suffix
    <3> QED BY <1>2, <3>1, <3>2 DEF Suffix
  <2> QED BY <2>1, <2>2 DEF Suffix
<1>3. ASSUME NEW a \in Seq(S), NEW b \in Seq(S), Suffix(a, t), Suffix(b, t), Len(a) <= Len(b) PROVE Suffix(a, b)
  <2>1. ASSUME NEW i \in 1..Len(a) PROVE a[i] = b[Len(b) - Len(a) + i]
    <3>1. Len(b) - Len(a) + i \in 1..Len(b) /\ Len(t) - Len(b) + (Len(b) - Len(a) + i) = Len(t) - Len(a) + i
      BY <1>3
    <3>2. a[i] = t[Len(t) - Len(a) + i]
      BY <1>3 DEF Suffix
    <3> QED BY <1>3, <3>1, <3>2 DEF Suffix
  <2> QED BY <1>3, <2>1 DEF Suffix
<1>4. ASSUME Suffix(s, t), Len(s) = Len(t) PROVE s = t
  <2>1. \A i \in 1..Len(s) : s[i] = t[i]
    BY <1>4 DEF Suffix
  <2> QED BY <1>4, <2>1
<1> QED BY <1>1, <1>2, <1>3, <1>4

\* A history with the cluster there is now.
LEMMA HistoryGrown ==
    ASSUME NEW h \in Seq(Entries), Numbered(h), NEW e \in Entries, e.id = h[1].id + 1
    PROVE  /\ << e >> \o h \in Seq(Entries) /\ Len(<< e >> \o h) = Len(h) + 1
           /\ (<< e >> \o h)[1] = e /\ Numbered(<< e >> \o h) /\ Suffix(h, << e >> \o h)
<1> DEFINE g == << e >> \o h
<1>1. g \in Seq(Entries) /\ Len(g) = Len(h) + 1 /\ g[1] = e /\ \A i \in 2..Len(g) : g[i] = h[i - 1]
  OBVIOUS
<1>2. h[1].id = Len(h)
  BY DEF Numbered
<1>3. Numbered(g)
  <2>1. ASSUME NEW i \in 1..Len(g) PROVE g[i].id = Len(g) - i + 1
    <3>1. CASE i = 1
      BY <1>1, <1>2, <3>1
    <3>2. CASE i > 1
      <4>1. i - 1 \in 1..Len(h) /\ g[i] = h[i - 1]
        BY <1>1, <3>2
      <4> QED BY <1>1, <4>1 DEF Numbered
    <3> QED BY <3>1, <3>2
  <2> QED BY <1>1, <2>1 DEF Numbered
<1>4. Suffix(h, g)
  <2>1. ASSUME NEW i \in 1..Len(h) PROVE h[i] = g[Len(g) - Len(h) + i]
    <3>1. Len(g) - Len(h) + i = i + 1 /\ i + 1 \in 2..Len(g)
      BY <1>1
    <3> QED BY <1>1, <3>1
  <2> QED BY <1>1, <2>1 DEF Suffix
<1> QED BY <1>1, <1>3, <1>4

\* The part of the invariant that is about the files alone.
Consistent(o) ==
    /\ HistoriesNumbered(o) /\ OneHistory(o) /\ OnePass(o)
    /\ CopyBehind(o) /\ CopyEqual(o) /\ BackupBehind(o)

\* In n there is nothing that was not in o, and no file next to another one
\* that was not there with it or was not meant to be.
Shrinks(o, n) ==
    /\ \A kind \in Kinds : n.stored[kind] \subseteq o.stored[kind]
    /\ n.kills = 0 => o.kills = 0
    /\ n.faults = 0 => o.faults = 0
    /\ \A p \in Places : Alive(n, p) \subseteq Alive(o, p)
    /\ n.kills = 0 => \A p \in Places : Final(n, p) \subseteq Final(o, p)
    /\ \A p, q \in Places : Before(p, q) =>
          /\ \A f \in Alive(n, p), g \in Now(n, q) : (f \in Alive(o, p) /\ g \in Now(o, q)) \/ (f \in Final(o, p) /\ g \in Final(o, q))
          /\ \A f \in Final(n, p), g \in Final(n, q) : (f \in Alive(o, p) /\ g \in Now(o, q)) \/ (f \in Final(o, p) /\ g \in Final(o, q))

\* Nothing that only takes something away makes the files differ.
LEMMA ShrinksKeeps ==
    ASSUME NEW o, NEW n, Consistent(o), Shrinks(o, n)
    PROVE  Consistent(n)
<1>1. HistoriesNumbered(n)
  BY DEF HistoriesNumbered, Consistent, Shrinks
<1>2. OneHistory(n)
  BY DEF OneHistory, Consistent, Shrinks
<1>3. OnePass(n)
  <2>1. ASSUME NEW kind \in Kinds
        PROVE  \E x \in Nat : n.stored[kind] \subseteq {x} /\ \A part \in Parts : \A f \in Alive(n, << kind, part >>) : f.pass = x
    <3>1. PICK x \in Nat : o.stored[kind] \subseteq {x} /\ \A part \in Parts : \A f \in Alive(o, << kind, part >>) : f.pass = x
      BY DEF OnePass, Consistent
    <3>2. \A part \in Parts : << kind, part >> \in Places
      BY PlacesAre
    <3> QED BY <3>1, <3>2 DEF Shrinks
  <2> QED BY <2>1 DEF OnePass
<1>4. CopyBehind(n)
  <2>1. \A kind \in Kinds : << kind, "main" >> \in Places /\ << kind, "copy" >> \in Places /\ Before(<< kind, "main" >>, << kind, "copy" >>)
    BY PlacesAre DEF Before, Parts
  <2> QED BY <2>1 DEF CopyBehind, Consistent, Shrinks
<1>5. CopyEqual(n)
  <2>1. \A kind \in Kinds : << kind, "main" >> \in Places /\ << kind, "copy" >> \in Places
    BY PlacesAre DEF Parts
  <2> QED BY <2>1 DEF CopyEqual, Consistent, Shrinks
<1>6. BackupBehind(n)
  <2>1. \A x, y \in Parts : << "archive", x >> \in Places /\ << "backup", y >> \in Places /\ Before(<< "archive", x >>, << "backup", y >>)
    BY PlacesAre DEF Before, Parts, Kinds
  <2> QED BY <2>1 DEF BackupBehind, Consistent, Shrinks
<1> QED BY <1>1, <1>2, <1>3, <1>4, <1>5, <1>6 DEF Consistent

\* What is there and what is queued make up what is alive.
LEMMA AliveIs ==
    \A o, p : /\ Now(o, p) \subseteq Alive(o, p) /\ Queued(o, p) \subseteq Alive(o, p) /\ Final(o, p) \subseteq Alive(o, p)
              /\ Queued(o, p) = {} => Final(o, p) = Now(o, p) /\ Alive(o, p) = Now(o, p)
              /\ Queued(o, p) # {} => Final(o, p) = Queued(o, p)
BY DEF Alive, Final

\* A file is written.
LEMMA WriteKeeps ==
    ASSUME NEW o, StanzaInv(o), o.todo # << >>, Head(o.todo).op = "write"
    PROVE  StanzaInv(StanzaStep(o))
<1> DEFINE h == Head(o.todo)
           n == StanzaStep(o)
<1>1. /\ o \in Stanzas /\ o.todo \in Seq(Writes) /\ Orderly(o.todo) /\ h \in Writes /\ Tail(o.todo) \in Seq(Writes)
      /\ Orderly(Tail(o.todo))
  BY TailIs, OrderlyTail DEF StanzaInv, Stanzas
<1>2. /\ h.file \in Files /\ h.file.is = "ok" /\ h.place \in Places /\ h.file \in Queued(o, h.place)
      /\ \A p \in Places : QueuedAt(Tail(o.todo), p) = IF p = h.place THEN {} ELSE Queued(o, p)
      /\ \A p \in Places : Before(p, h.place) => Queued(o, p) = {}
  BY <1>1, NextWrite DEF Queued
<1>3. n = [o EXCEPT !.todo = Tail(o.todo), !.file[h.place] = h.file]
  BY <1>1 DEF StanzaStep, Stanzas
<1>4. /\ n \in Stanzas /\ n.todo = Tail(o.todo) /\ n.file = [o.file EXCEPT ![h.place] = h.file]
      /\ n.stored = o.stored /\ n.stop = o.stop /\ n.pg = o.pg /\ n.kills = o.kills /\ n.faults = o.faults /\ n.did = o.did
  <2>1. o.file \in [Places -> Files] /\ [o.file EXCEPT ![h.place] = h.file] \in [Places -> Files]
    BY <1>1, <1>2 DEF Stanzas
  <2>2. n = [file |-> [o.file EXCEPT ![h.place] = h.file], stored |-> o.stored, stop |-> o.stop, pg |-> o.pg,
             todo |-> Tail(o.todo), passes |-> o.passes, faults |-> o.faults, kills |-> o.kills, did |-> o.did]
    BY <1>1, <1>3 DEF Stanzas, Dids
  <2> HIDE DEF n
  <2> QED BY <1>1, <2>1, <2>2 DEF Stanzas
<1> HIDE DEF n
<1>5. /\ \A p \in Places : Queued(n, p) = IF p = h.place THEN {} ELSE Queued(o, p)
      /\ \A p \in Places : Now(n, p) = IF p = h.place THEN {h.file} ELSE Now(o, p)
  BY <1>1, <1>2, <1>4 DEF Queued, Now, Stanzas
<1>6. \A p \in Places : /\ Alive(n, p) \subseteq Alive(o, p) /\ Final(n, p) \subseteq Final(o, p)
                        /\ Alive(n, p) # {} <=> Alive(o, p) # {}
                        /\ Final(n, p) # {} <=> Final(o, p) # {}
  BY <1>2, <1>5 DEF Alive, Final
<1>7. Shrinks(o, n)
  <2>1. ASSUME NEW p \in Places, NEW q \in Places, Before(p, q), NEW f \in Alive(n, p), NEW g \in Now(n, q)
        PROVE  (f \in Alive(o, p) /\ g \in Now(o, q)) \/ (f \in Final(o, p) /\ g \in Final(o, q))
    <3>1. CASE q = h.place
      <4>1. Queued(o, p) = {} /\ p # q
        BY <1>2, <2>1, <3>1 DEF Before
      <4>2. f \in Final(o, p)
        BY <1>5, <2>1, <3>1, <4>1 DEF Alive, Final
      <4>3. g \in Final(o, q)
        BY <1>2, <1>5, <2>1, <3>1 DEF Final
      <4> QED BY <4>2, <4>3
    <3>2. CASE q # h.place
      BY <1>5, <1>6, <2>1, <3>2
    <3> QED BY <3>1, <3>2
  <2> QED BY <1>4, <1>6, <2>1 DEF Shrinks
<1>8. Consistent(n)
  BY <1>7, ShrinksKeeps DEF StanzaInv, Consistent
<1>9. MainLast(n)
  <2> DEFINE m == << "backup", "main" >>
             c == << "backup", "copy" >>
  <2>1. m \in Places /\ c \in Places /\ m # c /\ Before(m, c) /\ \A x \in Parts : << "archive", x >> \in Places
    BY PlacesAre DEF Before, Parts, Kinds
  <2>2. SUFFICES ASSUME n.faults = 0, NEW x \in Parts, Alive(n, << "archive", x >>) # {}
                 PROVE  /\ Now(n, c) # {} => Now(n, m) # {}
                        /\ Final(n, c) # {} => Final(n, m) # {}
    BY DEF MainLast
  <2>3. /\ Now(o, c) # {} => Now(o, m) # {}
        /\ Final(o, c) # {} => Final(o, m) # {}
    BY <1>4, <1>6, <2>1, <2>2 DEF StanzaInv, MainLast
  <2>4. CASE h.place = c
    <3>1. Final(o, c) # {} /\ Queued(o, m) = {}
      BY <1>2, <2>1, <2>4 DEF Final
    <3>2. Now(o, m) # {} /\ Now(n, m) = Now(o, m)
      BY <1>5, <2>1, <2>3, <2>4, <3>1 DEF Final
    <3> QED BY <1>6, <2>1, <2>3, <3>2
  <2>5. CASE h.place # c
    BY <1>5, <1>6, <2>1, <2>3, <2>5
  <2> QED BY <2>4, <2>5
<1>10. \A i \in DOMAIN o.todo : o.todo[i].op = "write"
  BY <1>1, TailIs DEF Orderly
<1>11. \A i \in DOMAIN n.todo : n.todo[i].op = "write"
  BY <1>1, <1>4, <1>10, TailIs
<1>12. RemoveOrder(n)
  BY <1>11 DEF RemoveOrder, RemovedAt
<1>13. Decided(n)
  <2>1. ASSUME n.did \in {"create", "upgrade"}
        PROVE  /\ \A kind \in Kinds : FinalPair(n, kind) # {}
               /\ \A f \in FinalPair(n, "archive"), g \in FinalPair(n, "backup") :
                     f.history[1] = g.history[1] /\ f.history[1].pg = n.pg
    <3>1. \A kind \in Kinds : FinalPair(n, kind) \subseteq FinalPair(o, kind) /\ (FinalPair(o, kind) # {} => FinalPair(n, kind) # {})
      <4>1. \A kind \in Kinds : << kind, "main" >> \in Places /\ << kind, "copy" >> \in Places
        BY PlacesAre DEF Parts
      <4> QED BY <1>6, <4>1 DEF FinalPair
    <3> QED BY <1>4, <2>1, <3>1 DEF StanzaInv, Decided, Kinds
  <2>2. ASSUME n.did = "create", NEW p \in Places PROVE Queued(n, p) # {} \/ n.file[p].is # "missing"
    BY <1>1, <1>2, <1>4, <1>5, <2>2 DEF StanzaInv, Decided, Stanzas
  <2>3. n.did # "delete"
    <3>1. 1 \in DOMAIN o.todo
      BY <1>1, TailIs
    <3> QED BY <1>4, <1>10, <3>1 DEF StanzaInv, Decided
  <2> QED BY <1>11, <2>1, <2>2, <2>3 DEF Decided
<1> QED BY <1>1, <1>4, <1>8, <1>9, <1>12, <1>13 DEF StanzaInv, Consistent, n

\* A file or a path is removed, or the stop file.
LEMMA RemovalKeeps ==
    ASSUME NEW o, StanzaInv(o), o.todo # << >>, Head(o.todo).op # "write"
    PROVE  StanzaInv(StanzaStep(o))
<1> DEFINE h == Head(o.todo)
           k == h.place[1]
           n == StanzaStep(o)
           Cleared == [o.file EXCEPT ![<< k, "main" >>] = Missing, ![<< k, "copy" >>] = Missing]
<1>1. /\ o \in Stanzas /\ o.todo \in Seq(Writes) /\ Orderly(o.todo) /\ h \in Writes /\ Tail(o.todo) \in Seq(Writes)
      /\ Orderly(Tail(o.todo)) /\ h = o.todo[1] /\ 1 \in DOMAIN o.todo
  BY TailIs, OrderlyTail DEF StanzaInv, Stanzas
<1>2. /\ h.place \in Places /\ h.op \in {"remove", "path", "stop"} /\ k \in Kinds
      /\ h.op = "remove" => h.file = Missing
      /\ Missing \in Files
  BY <1>1, PlacesAre DEF Writes, Orderly, Missing, Files
<1>3. /\ \A i \in DOMAIN o.todo : o.todo[i].op # "write"
      /\ \A i \in DOMAIN Tail(o.todo) : Tail(o.todo)[i].op # "write"
  <2>1. \A i \in DOMAIN o.todo : o.todo[i].op # "write"
    BY <1>1 DEF Orderly
  <2> QED BY <1>1, <2>1, TailIs
<1>4. n = [file |-> IF h.op = "stop" THEN o.file ELSE IF h.op = "path" THEN Cleared ELSE [o.file EXCEPT ![h.place] = Missing],
           stored |-> IF h.op = "path" THEN [o.stored EXCEPT ![k] = {}] ELSE o.stored,
           stop |-> IF h.op = "stop" THEN FALSE ELSE o.stop, pg |-> o.pg,
           todo |-> Tail(o.todo), passes |-> o.passes, faults |-> o.faults, kills |-> o.kills, did |-> o.did]
  <2>1. CASE h.op = "stop"
    BY <1>1, <2>1 DEF StanzaStep, Stanzas
  <2>2. CASE h.op = "path"
    BY <1>1, <2>2 DEF StanzaStep, Stanzas
  <2>3. CASE h.op = "remove"
    BY <1>1, <1>2, <2>3 DEF StanzaStep, Stanzas
  <2> QED BY <1>2, <2>1, <2>2, <2>3
<1>5. o.file \in [Places -> Files] /\ o.stored \in [Kinds -> SUBSET Nat]
  BY <1>1 DEF Stanzas
<1>6. << k, "main" >> \in Places /\ << k, "copy" >> \in Places
  BY <1>2, PlacesAre, SMTT(30) DEF Parts
<1> DEFINE File == IF h.op = "stop" THEN o.file ELSE IF h.op = "path" THEN Cleared ELSE [o.file EXCEPT ![h.place] = Missing]
           Stored == IF h.op = "path" THEN [o.stored EXCEPT ![k] = {}] ELSE o.stored
           Stop == IF h.op = "stop" THEN FALSE ELSE o.stop
<1>7. /\ File \in [Places -> Files]
      /\ \A p \in Places : File[p] = o.file[p] \/ File[p] = Missing
      /\ h.op = "remove" => /\ File[h.place] = Missing
                            /\ \A p \in Places : p # h.place => File[p] = o.file[p]
      /\ h.op = "stop" => File = o.file
      /\ h.op = "path" => /\ \A part \in Parts : File[<< k, part >>] = Missing
                          /\ \A p \in Places : p[1] # k => File[p] = o.file[p]
  <2>1. CASE h.op = "stop"
    BY <1>5, <2>1
  <2>2. CASE h.op = "path"
    <3>1. File = Cleared
      BY <2>2
    <3> HIDE DEF File
    <3>2. Cleared \in [Places -> Files]
      BY <1>2, <1>5, <1>6
    <3>3. \A p \in Places : Cleared[p] = IF p = << k, "main" >> \/ p = << k, "copy" >> THEN Missing ELSE o.file[p]
      BY <1>2, <1>5, <1>6
    <3> HIDE DEF Cleared
    <3> QED BY <1>6, <2>2, <3>1, <3>2, <3>3 DEF Parts
  <2>3. CASE h.op = "remove"
    <3>1. File = [o.file EXCEPT ![h.place] = Missing]
      BY <2>3
    <3> HIDE DEF File
    <3> QED BY <1>2, <1>5, <2>3, <3>1
  <2> QED BY <1>2, <2>1, <2>2, <2>3
<1>8. /\ Stored \in [Kinds -> SUBSET Nat]
      /\ \A kind \in Kinds : Stored[kind] \subseteq o.stored[kind]
      /\ h.op = "path" => Stored[k] = {}
  BY <1>2, <1>5
<1>9. Stop \in BOOLEAN /\ (h.op # "stop" => Stop = o.stop)
  BY <1>1 DEF Stanzas
<1> HIDE DEF File, Stored, Stop, n
<1>10. n = [file |-> File, stored |-> Stored, stop |-> Stop, pg |-> o.pg,
           todo |-> Tail(o.todo), passes |-> o.passes, faults |-> o.faults, kills |-> o.kills, did |-> o.did]
  BY <1>4 DEF File, Stored, Stop
<1>11. n \in Stanzas
  BY <1>1, <1>7, <1>8, <1>9, <1>10 DEF Stanzas
<1>12. /\ n.todo = Tail(o.todo) /\ n.pg = o.pg /\ n.faults = o.faults /\ n.kills = o.kills /\ n.did = o.did
       /\ n.file = File /\ n.stored = Stored /\ n.stop = Stop
  BY <1>10
<1>13. \A p \in Places : Queued(n, p) = {} /\ Queued(o, p) = {}
  BY <1>3, <1>12, <1>9 DEF Queued, QueuedAt
<1>14. \A p \in Places : Now(n, p) \subseteq Now(o, p) /\ (n.file[p] = o.file[p] => Now(n, p) = Now(o, p)) /\ (n.file[p] = Missing => Now(n, p) = {})
  BY <1>12, <1>7 DEF Now, Missing
<1>15. \A p \in Places : /\ Alive(n, p) = Now(n, p) /\ Final(n, p) = Now(n, p)
                         /\ Alive(o, p) = Now(o, p) /\ Final(o, p) = Now(o, p)
  BY <1>13, AliveIs
<1>16. Consistent(n)
  <2>1. Shrinks(o, n)
    BY <1>12, <1>9, <1>12, <1>8, <1>14, <1>15 DEF Shrinks
  <2> QED BY <2>1, ShrinksKeeps DEF StanzaInv, Consistent
<1>17. MainLast(n)
  <2> DEFINE m == << "backup", "main" >>
             c == << "backup", "copy" >>
  <2>1. SUFFICES ASSUME n.faults = 0, NEW x \in Parts, Alive(n, << "archive", x >>) # {}, Now(n, c) # {}
                 PROVE  Now(n, m) # {}
    <3>1. m \in Places /\ c \in Places
      BY PlacesAre DEF Parts, Kinds
    <3> QED BY <1>15, <3>1 DEF MainLast
  <2> DEFINE a == << "archive", x >>
  <2>2. m \in Places /\ c \in Places /\ a \in Places /\ m # c /\ m[1] = "backup" /\ c = << "backup", "copy" >> /\ a = << "archive", x >> /\ a[1] = "archive"
    BY PlacesAre DEF Parts, Kinds
  <2>3. Now(o, a) # {} /\ Now(n, a) # {} /\ Now(o, c) # {} /\ Alive(o, a) # {}
    BY <1>14, <1>15, <2>1, <2>2
  <2>4. Now(o, m) # {}
    BY <1>12, <1>9, <2>1, <2>2, <2>3 DEF StanzaInv, MainLast
  <2>5. CASE h.op = "stop"
    BY <1>12, <1>7, <1>14, <2>2, <2>4, <2>5
  <2>6. CASE h.op = "path"
    <3>1. k # "archive"
      BY <1>12, <1>7, <1>14, <2>2, <2>3, <2>6
    <3>2. k # "backup"
      BY <1>12, <1>7, <1>14, <2>1, <2>2, <2>6 DEF Parts
    <3> QED BY <1>2, <3>1, <3>2 DEF Kinds
  <2>7. CASE h.op = "remove"
    <3>1. h.place # m
      <4>1. SUFFICES ASSUME h.place = m PROVE FALSE
        OBVIOUS
      <4>2. RemovedAt(o.todo, m)
        BY <1>1, <2>7, <4>1 DEF RemovedAt
      <4>3. PICK i \in DOMAIN o.todo : o.todo[i].op = "remove" /\ o.todo[i].place = a
        BY <2>3, <4>2 DEF StanzaInv, RemoveOrder, RemovedAt
      <4>4. i > 1
        BY <1>1, <2>2, <4>1, <4>3
      <4>5. Before(m, a)
        BY <1>1, <4>1, <4>3, <4>4 DEF Orderly
      <4> QED BY <2>2, <4>5 DEF Before
    <3> QED BY <1>12, <1>7, <1>14, <2>2, <2>4, <2>7, <3>1
  <2> QED BY <1>2, <2>5, <2>6, <2>7
<1>18. RemoveOrder(n)
  <2>1. SUFFICES ASSUME RemovedAt(n.todo, << "backup", "main" >>), NEW x \in Parts
                 PROVE  Now(n, << "archive", x >>) = {} \/ RemovedAt(n.todo, << "archive", x >>)
    BY DEF RemoveOrder
  <2> DEFINE a == << "archive", x >>
  <2>2. a \in Places
    BY PlacesAre DEF Kinds
  <2>3. RemovedAt(o.todo, << "backup", "main" >>)
    BY <1>1, <1>12, <1>9, <2>1, TailIs DEF RemovedAt
  <2>4. CASE Now(o, a) = {}
    BY <1>14, <2>2, <2>4
  <2>5. CASE RemovedAt(o.todo, a)
    <3>1. PICK i \in DOMAIN o.todo : o.todo[i].op = "remove" /\ o.todo[i].place = a
      BY <2>5 DEF RemovedAt
    <3>2. CASE i = 1
      BY <1>1, <1>12, <1>7, <1>14, <2>2, <3>1, <3>2
    <3>3. CASE i # 1
      <4>1. i - 1 \in DOMAIN n.todo /\ n.todo[i - 1] = o.todo[i]
        BY <1>1, <1>12, <1>9, <3>3, TailIs
      <4> QED BY <3>1, <4>1 DEF RemovedAt
    <3> QED BY <3>2, <3>3
  <2> QED BY <2>3, <2>4, <2>5 DEF StanzaInv, RemoveOrder
<1>19. Decided(n)
  <2>1. n.did \notin {"create", "upgrade"}
    BY <1>1, <1>12, <1>9 DEF StanzaInv, Decided
  <2>2. ASSUME n.did = "delete" PROVE o.did = "delete"
    BY <1>12, <1>9, <2>2
  <2>3. ASSUME n.did = "delete", NEW kind \in Kinds PROVE Emptied(n, kind) \/ PathAt(n.todo, kind)
    <3>1. Emptied(o, kind) \/ PathAt(o.todo, kind)
      BY <2>2, <2>3 DEF StanzaInv, Decided
    <3>2. CASE Emptied(o, kind)
      <4>1. \A part \in Parts : << kind, part >> \in Places
        BY PlacesAre
      <4> QED BY <1>12, <1>7, <1>12, <1>8, <3>2, <4>1 DEF Emptied, Missing
    <3>3. CASE PathAt(o.todo, kind)
      <4>1. PICK i \in DOMAIN o.todo : o.todo[i].op = "path" /\ o.todo[i].place[1] = kind
        BY <3>3 DEF PathAt
      <4>2. CASE i = 1
        BY <1>1, <1>12, <1>7, <1>12, <1>8, <4>1, <4>2 DEF Emptied, Missing
      <4>3. CASE i # 1
        <5>1. i - 1 \in DOMAIN n.todo /\ n.todo[i - 1] = o.todo[i]
          BY <1>1, <1>12, <1>9, <4>3, TailIs
        <5> QED BY <4>1, <5>1 DEF PathAt
      <4> QED BY <4>2, <4>3
    <3> QED BY <3>1, <3>2, <3>3
  <2>4. ASSUME n.did = "delete" PROVE n.stop \/ \A kind \in Kinds : Emptied(n, kind)
    <3>1. CASE h.op = "stop"
      <4>1. \A i \in DOMAIN n.todo : FALSE
        BY <1>1, <1>12, <1>9, <3>1, TailIs DEF Orderly
      <4> QED BY <2>3, <2>4, <4>1 DEF PathAt
    <3>2. CASE h.op # "stop"
      <4>1. o.stop \/ \A kind \in Kinds : Emptied(o, kind)
        BY <2>2, <2>4 DEF StanzaInv, Decided
      <4>2. \A kind \in Kinds, part \in Parts : << kind, part >> \in Places
        BY PlacesAre
      <4> QED BY <1>12, <1>9, <1>12, <1>7, <1>12, <1>8, <3>2, <4>1, <4>2 DEF Emptied, Missing
    <3> QED BY <3>1, <3>2
  <2> QED BY <1>3, <1>12, <1>9, <2>1, <2>3, <2>4 DEF Decided
<1> QED BY <1>1, <1>11, <1>12, <1>9, <1>16, <1>17, <1>18, <1>19 DEF StanzaInv, Consistent, n

\* The command is killed, and leaves what it has not written yet as it was.
LEMMA KillKeeps ==
    ASSUME NEW o, StanzaInv(o), o.todo # << >>, NEW n \in StanzaKilled(o)
    PROVE  StanzaInv(n)
<1> DEFINE k == Head(o.todo).place[1]
           killed == [o EXCEPT !.todo = << >>, !.did = "killed", !.kills = @ + 1]
<1>1. o \in Stanzas /\ k \in Kinds
  <2>1. o \in Stanzas /\ o.todo \in Seq(Writes) /\ Head(o.todo) \in Writes
    BY TailIs DEF StanzaInv, Stanzas
  <2> QED BY <2>1, PlacesAre DEF Writes
<1> HIDE DEF k
<1>2. /\ killed \in Stanzas /\ killed.todo = << >> /\ killed.file = o.file /\ killed.stored = o.stored
      /\ killed.faults = o.faults /\ killed.kills = o.kills + 1 /\ killed.did = "killed" /\ o.kills \in Nat
      /\ killed.stored \in [Kinds -> SUBSET Nat]
  <2>1. o.kills + 1 \in Nat /\ o.kills \in Nat /\ << >> \in Seq(Writes) /\ o.stored \in [Kinds -> SUBSET Nat]
    BY <1>1 DEF Stanzas
  <2>2. killed \in Stanzas
    BY <1>1, <2>1 DEF Stanzas, Dids
  <2>3. killed.todo = << >> /\ killed.did = "killed" /\ killed.kills = o.kills + 1
    BY <1>1 DEF Stanzas
  <2>4. killed.file = o.file /\ killed.stored = o.stored /\ killed.faults = o.faults
    BY <1>1 DEF Stanzas
  <2> QED BY <2>1, <2>2, <2>3, <2>4
<1> HIDE DEF killed
<1>3. n = killed \/ \E S \in SUBSET o.stored[k] : n = [killed EXCEPT !.stored[k] = S]
  BY DEF StanzaKilled, k, killed
<1>4. /\ n \in Stanzas /\ n.todo = << >> /\ n.file = o.file /\ n.faults = o.faults /\ n.kills > 0 /\ n.did = "killed"
      /\ \A kind \in Kinds : n.stored[kind] \subseteq o.stored[kind]
  <2>1. CASE n = killed
    BY <1>2, <2>1
  <2>2. ASSUME NEW S \in SUBSET o.stored[k], n = [killed EXCEPT !.stored[k] = S]
        PROVE  /\ n \in Stanzas /\ n.todo = << >> /\ n.file = o.file /\ n.faults = o.faults /\ n.kills > 0 /\ n.did = "killed"
               /\ \A kind \in Kinds : n.stored[kind] \subseteq o.stored[kind]
    <3>1. /\ [killed.stored EXCEPT ![k] = S] \in [Kinds -> SUBSET Nat]
          /\ \A kind \in Kinds : [killed.stored EXCEPT ![k] = S][kind] \subseteq o.stored[kind]
      BY <1>1, <1>2, <2>2
    <3>2. n = [killed EXCEPT !.stored = [killed.stored EXCEPT ![k] = S]]
      BY <1>2, <2>2 DEF Stanzas
    <3> QED BY <1>2, <3>1, <3>2 DEF Stanzas
  <2> QED BY <1>3, <2>1, <2>2
<1>5. \A p : Queued(n, p) = {} /\ Now(n, p) = Now(o, p)
  BY <1>4 DEF Queued, QueuedAt, Now
<1>6. \A p \in Places : Alive(n, p) = Now(o, p) /\ Final(n, p) = Now(o, p) /\ Now(o, p) \subseteq Alive(o, p)
  BY <1>5, AliveIs
<1>7. Consistent(n)
  <2>1. Shrinks(o, n)
    BY <1>4, <1>5, <1>6 DEF Shrinks
  <2> QED BY <2>1, ShrinksKeeps DEF StanzaInv, Consistent
<1>8. MainLast(n)
  <2>1. \A x \in Parts : << "archive", x >> \in Places /\ << "backup", x >> \in Places
    BY PlacesAre DEF Kinds
  <2> QED BY <1>4, <1>5, <1>6, <2>1 DEF StanzaInv, MainLast, Parts
<1>9. Orderly(n.todo) /\ RemoveOrder(n) /\ Decided(n)
  BY <1>4 DEF Orderly, RemoveOrder, RemovedAt, Decided
<1> QED BY <1>4, <1>7, <1>8, <1>9 DEF StanzaInv, Consistent

\* A file is lost or cannot be read any more.
LEMMA FaultKeeps ==
    ASSUME NEW o, StanzaInv(o), NEW n \in StanzaFault(o)
    PROVE  StanzaInv(n)
<1>1. o \in Stanzas /\ o.file \in [Places -> Files]
  BY DEF StanzaInv, Stanzas
<1>2. PICK r \in Places, is \in {"missing", "bad"} : n = FileFault(o, r, is)
  BY DEF StanzaFault
<1> DEFINE File == [o.file EXCEPT ![r].is = is]
<1>3. /\ File \in [Places -> Files]
      /\ File[r].is = is /\ \A p \in Places : p # r => File[p] = o.file[p]
  BY <1>1, <1>2 DEF Files
<1> HIDE DEF File
<1>4. n = [file |-> File, stored |-> o.stored, stop |-> o.stop, pg |-> o.pg, todo |-> o.todo, passes |-> o.passes,
           faults |-> o.faults + 1, kills |-> o.kills, did |-> "fault"]
  BY <1>1, <1>2 DEF Stanzas, File, FileFault
<1>5. /\ n \in Stanzas /\ n.todo = o.todo /\ n.file = File /\ n.stored = o.stored /\ n.faults # 0 /\ n.kills = o.kills /\ n.did = "fault"
  BY <1>1, <1>3, <1>4 DEF Stanzas, Dids
<1>6. \A p \in Places : Queued(n, p) = Queued(o, p) /\ Now(n, p) \subseteq Now(o, p)
  BY <1>3, <1>5 DEF Queued, Now
<1>7. \A p \in Places : Alive(n, p) \subseteq Alive(o, p) /\ Final(n, p) \subseteq Final(o, p)
  BY <1>6 DEF Alive, Final
<1>8. Consistent(n)
  <2>1. Shrinks(o, n)
    BY <1>5, <1>6, <1>7 DEF Shrinks
  <2> QED BY <2>1, ShrinksKeeps DEF StanzaInv, Consistent
<1>9. MainLast(n) /\ Decided(n)
  BY <1>5 DEF MainLast, Decided
<1>10. Orderly(n.todo) /\ RemoveOrder(n)
  <2>1. \A x \in Parts : << "archive", x >> \in Places
    BY PlacesAre DEF Kinds
  <2> QED BY <1>5, <1>6, <2>1 DEF StanzaInv, RemoveOrder
<1> QED BY <1>5, <1>8, <1>9, <1>10 DEF StanzaInv, Consistent

\* Nothing that is not in the directories of the repository is changed.
LEMMA SameFiles ==
    ASSUME NEW o, NEW n, n.file = o.file, n.todo = o.todo
    PROVE  \A p : Now(n, p) = Now(o, p) /\ Queued(n, p) = Queued(o, p) /\ Alive(n, p) = Alive(o, p) /\ Final(n, p) = Final(o, p)
BY DEF Now, Queued, Alive, Final

\* A step that changes no file and queues none.
LEMMA SameKeeps ==
    ASSUME NEW o, StanzaInv(o), NEW n \in Stanzas,
           n.file = o.file, n.todo = o.todo, n.kills = o.kills, n.faults = o.faults,
           \A kind \in Kinds : n.stored[kind] \subseteq o.stored[kind], Decided(n)
    PROVE  StanzaInv(n)
<1>1. Consistent(n)
  <2>1. Shrinks(o, n)
    BY SameFiles DEF Shrinks
  <2> QED BY <2>1, ShrinksKeeps DEF StanzaInv, Consistent
<1>2. MainLast(n)
  <2>1. \A p : Now(n, p) = Now(o, p) /\ Alive(n, p) = Alive(o, p) /\ Final(n, p) = Final(o, p)
    BY SameFiles
  <2> QED BY <2>1 DEF StanzaInv, MainLast
<1>3. Orderly(n.todo) /\ RemoveOrder(n)
  BY SameFiles DEF StanzaInv, RemoveOrder
<1> QED BY <1>1, <1>2, <1>3 DEF StanzaInv, Consistent

\* stop and start.
LEMMA StopKeeps ==
    ASSUME NEW o, StanzaInv(o), o.todo = << >>, NEW stop \in BOOLEAN
    PROVE  StanzaInv([o EXCEPT !.stop = stop])
<1> DEFINE n == [o EXCEPT !.stop = stop]
<1>1. o \in Stanzas
  BY DEF StanzaInv
<1>2. n = [file |-> o.file, stored |-> o.stored, stop |-> stop, pg |-> o.pg, todo |-> o.todo, passes |-> o.passes,
           faults |-> o.faults, kills |-> o.kills, did |-> o.did]
  BY <1>1 DEF Stanzas
<1> HIDE DEF n
<1>3. /\ n \in Stanzas /\ n.todo = o.todo /\ n.file = o.file /\ n.stored = o.stored /\ n.pg = o.pg
      /\ n.faults = o.faults /\ n.kills = o.kills /\ n.did = o.did
  BY <1>1, <1>2 DEF Stanzas
<1>4. Decided(n)
  <2>1. \A kind : FinalPair(n, kind) = FinalPair(o, kind)
    BY <1>3, SameFiles DEF FinalPair
  <2>2. \A p \in Places : Queued(n, p) = Queued(o, p)
    BY <1>3, SameFiles
  <2>3. o.did = "delete" => \A kind \in Kinds : Emptied(o, kind)
    BY DEF StanzaInv, Decided, PathAt
  <2>4. \A kind \in Kinds : Emptied(o, kind) => Emptied(n, kind)
    BY <1>3 DEF Emptied
  <2> QED BY <1>3, <2>1, <2>2, <2>3, <2>4 DEF StanzaInv, Decided
<1> QED BY <1>3, <1>4, SameKeeps DEF n

\* The cluster is replaced by another one.
LEMMA ClusterKeeps ==
    ASSUME NEW o, StanzaInv(o), o.todo = << >>, NEW pg \in Clusters
    PROVE  StanzaInv([o EXCEPT !.pg = pg, !.did = "cluster"])
<1> DEFINE n == [o EXCEPT !.pg = pg, !.did = "cluster"]
<1>1. o \in Stanzas
  BY DEF StanzaInv
<1>2. /\ n \in Stanzas /\ n.todo = o.todo /\ n.file = o.file /\ n.stored = o.stored
      /\ n.faults = o.faults /\ n.kills = o.kills /\ n.did = "cluster"
  BY <1>1 DEF Stanzas, Dids
<1> HIDE DEF n
<1>3. Decided(n)
  BY <1>2 DEF Decided
<1> QED BY <1>2, <1>3, SameKeeps DEF n

\* What is loaded is the main file, or the copy when that is not good.
LEMMA LoadedIs ==
    ASSUME NEW o \in Stanzas, NEW kind \in Kinds, Loads(o, kind)
    PROVE  \E part \in Parts :
              /\ << kind, part >> \in Places /\ o.file[<< kind, part >>] \in Files
              /\ LoadPair(o, kind) = o.file[<< kind, part >>]
              /\ Now(o, << kind, part >>) = {LoadPair(o, kind)}
              /\ part = "copy" => Now(o, << kind, "main" >>) = {}
<1>1. << kind, "main" >> \in Places /\ << kind, "copy" >> \in Places /\ "main" \in Parts /\ "copy" \in Parts
  BY PlacesAre DEF Parts
<1>2. o.file[<< kind, "main" >>] \in Files /\ o.file[<< kind, "copy" >>] \in Files
  BY <1>1 DEF Stanzas
<1>3. CASE o.file[<< kind, "main" >>].is = "ok"
  BY <1>1, <1>2, <1>3, LoadPairIs DEF Now
<1>4. CASE o.file[<< kind, "main" >>].is # "ok"
  BY <1>1, <1>2, <1>4, LoadPairIs DEF Now, Loads, Missing
<1> QED BY <1>3, <1>4

\* archive-push stores with the passphrase it has read, whatever is being written.
LEMMA PushKeeps ==
    ASSUME NEW o, StanzaInv(o), NEW n \in PushStanza(o)
    PROVE  StanzaInv(n)
<1> DEFINE info == LoadPair(o, "archive")
<1>1. o \in Stanzas /\ "archive" \in Kinds
  BY DEF StanzaInv, Kinds
<1>2. /\ ~o.stop /\ Loads(o, "archive")
      /\ n = [o EXCEPT !.stored.archive = @ \cup {info.pass}]
  BY DEF PushStanza
<1>3. PICK part \in Parts : /\ << "archive", part >> \in Places /\ o.file[<< "archive", part >>] \in Files
                            /\ info = o.file[<< "archive", part >>] /\ Now(o, << "archive", part >>) = {info}
  BY <1>1, <1>2, LoadedIs
<1>4. info \in Alive(o, << "archive", part >>) /\ info.pass \in Nat
  BY <1>3, AliveIs DEF Files
<1> HIDE DEF info
<1> DEFINE s == [o.stored EXCEPT !["archive"] = @ \cup {info.pass}]
<1>5. /\ s \in [Kinds -> SUBSET Nat] /\ s["archive"] = o.stored["archive"] \cup {info.pass}
      /\ \A kind \in Kinds : kind # "archive" => s[kind] = o.stored[kind]
  BY <1>1, <1>4 DEF Stanzas
<1>6. n = [o EXCEPT !.stored = s]
  BY <1>1, <1>2 DEF Stanzas
<1> HIDE DEF s
<1>7. /\ n \in Stanzas /\ n.todo = o.todo /\ n.file = o.file /\ n.stored = s /\ n.stop = o.stop /\ n.pg = o.pg
      /\ n.faults = o.faults /\ n.kills = o.kills /\ n.did = o.did
  BY <1>1, <1>5, <1>6 DEF Stanzas
<1>8. \A p : Now(n, p) = Now(o, p) /\ Queued(n, p) = Queued(o, p) /\ Alive(n, p) = Alive(o, p) /\ Final(n, p) = Final(o, p)
  BY <1>7, SameFiles
<1>9. OnePass(n)
  <2>1. ASSUME NEW kind \in Kinds
        PROVE  \E x \in Nat : n.stored[kind] \subseteq {x} /\ \A part_1 \in Parts : \A f \in Alive(n, << kind, part_1 >>) : f.pass = x
    <3>1. PICK x \in Nat : o.stored[kind] \subseteq {x} /\ \A part_1 \in Parts : \A f \in Alive(o, << kind, part_1 >>) : f.pass = x
      BY DEF StanzaInv, OnePass
    <3>2. n.stored[kind] \subseteq {x}
      BY <1>3, <1>4, <1>5, <1>7, <3>1
    <3> QED BY <1>8, <3>1, <3>2
  <2> QED BY <2>1 DEF OnePass
<1>10. HistoriesNumbered(n) /\ OneHistory(n)
  BY <1>8 DEF StanzaInv, HistoriesNumbered, OneHistory
<1>11. CopyBehind(n) /\ CopyEqual(n)
  BY <1>7, <1>8 DEF StanzaInv, CopyBehind, CopyEqual
<1>12. BackupBehind(n)
  <2>1. BackupBehind(o)
    BY DEF StanzaInv
  <2>2. n.kills = o.kills /\ n.faults = o.faults
    BY <1>7
  <2>3. ASSUME NEW x \in Parts, NEW y \in Parts, n.kills = 0 \/ (n.faults = 0 /\ x = "main" /\ y = "main")
        PROVE  /\ \A f \in Alive(n, << "archive", x >>), g \in Now(n, << "backup", y >>) : Near(f, g)
               /\ \A f \in Final(n, << "archive", x >>), g \in Final(n, << "backup", y >>) : Near(f, g)
    <3>1. /\ \A f \in Alive(o, << "archive", x >>), g \in Now(o, << "backup", y >>) : Near(f, g)
          /\ \A f \in Final(o, << "archive", x >>), g \in Final(o, << "backup", y >>) : Near(f, g)
      BY <2>1, <2>2, <2>3 DEF BackupBehind
    <3> QED BY <1>8, <3>1
  <2> QED BY <2>3 DEF BackupBehind
<1>13. MainLast(n)
  BY <1>7, <1>8 DEF StanzaInv, MainLast
<1>14. Orderly(n.todo) /\ RemoveOrder(n)
  BY <1>7, <1>8 DEF StanzaInv, RemoveOrder
<1>15. Decided(n)
  <2>1. o.did # "delete"
    <3>1. ~Emptied(o, "archive")
      BY <1>2, <1>1, <1>3 DEF Emptied, Loads, info
    <3> QED BY <1>1, <1>2, <3>1 DEF StanzaInv, Decided
  <2>2. \A kind : FinalPair(n, kind) = FinalPair(o, kind)
    BY <1>8 DEF FinalPair
  <2> QED BY <1>7, <1>8, <2>1, <2>2 DEF StanzaInv, Decided
<1> QED BY <1>7, <1>9, <1>10, <1>11, <1>12, <1>13, <1>14, <1>15 DEF StanzaInv

\* A command that writes the same history for both kinds, on top of what there is.
Starts(o, n, F) ==
    /\ n \in Stanzas /\ n.file = o.file /\ n.kills = o.kills /\ n.faults = o.faults /\ n.pg = o.pg /\ n.stored = o.stored
    /\ n.did \in {"create", "upgrade"} /\ Orderly(n.todo) /\ \A i \in DOMAIN n.todo : n.todo[i].op = "write"
    /\ n.did = "create" => \A p \in Places : Queued(n, p) # {} \/ o.file[p].is # "missing"
    /\ F["archive"].history = F["backup"].history /\ F["archive"].history[1].pg = o.pg
    /\ o.faults = 0 => /\ Now(o, << "backup", "copy" >>) # {} => Now(o, << "backup", "main" >>) # {}
                       /\ Final(n, << "backup", "main" >>) # {}
    /\ \A kind \in Kinds :
          /\ F[kind] \in Files /\ F[kind].is = "ok" /\ Numbered(F[kind].history)
          /\ FinalPair(n, kind) = {F[kind]}
          /\ o.stored[kind] \subseteq {F[kind].pass}
          /\ \A part \in Parts :
                LET p == << kind, part >>
                IN  /\ Queued(n, p) \subseteq {F[kind]}
                    /\ \A f \in Now(o, p) : Behind(f, F[kind]) /\ f.pass = F[kind].pass
                    /\ o.kills = 0 \/ part = "main" =>
                          /\ \A f \in Now(o, p) : Len(F[kind].history) <= Len(f.history) + 1
                          /\ Final(n, p) \subseteq {F[kind]}

\* A command that queues files which are the same for both parts of a kind,
\* are ahead of what is there and keep its passphrase.
LEMMA StartsKeeps ==
    ASSUME NEW o, NEW n, NEW F, StanzaInv(o), o.todo = << >>, Starts(o, n, F)
    PROVE  StanzaInv(n)
<1>1. \A p \in Places : Now(n, p) = Now(o, p) /\ Queued(o, p) = {} /\ Alive(o, p) = Now(o, p) /\ Final(o, p) = Now(o, p)
  <2>1. \A p \in Places : Queued(o, p) = {}
    BY DEF Queued, QueuedAt
  <2> QED BY <2>1, AliveIs DEF Starts, Now
<1>2. \A kind \in Kinds, part \in Parts : \A f \in Alive(n, << kind, part >>) :
         << kind, part >> \in Places /\ (f \in Now(o, << kind, part >>) \/ f = F[kind])
  <2>1. \A kind \in Kinds, part \in Parts : << kind, part >> \in Places
    BY PlacesAre
  <2> QED BY <1>1, <2>1 DEF Starts, Alive
<1>3. \A p \in Places : \A f \in Now(o, p) : f \in Files /\ f.history \in Seq(Entries) /\ Numbered(f.history)
  <2>1. o \in Stanzas /\ HistoriesNumbered(o)
    BY DEF StanzaInv
  <2> QED BY <1>1, <2>1 DEF HistoriesNumbered, Stanzas, Now, Files
<1> DEFINE H == F["archive"].history
<1>4. H \in Seq(Entries) /\ \A kind \in Kinds : F[kind].history = H /\ F[kind] \in Files /\ F[kind].is = "ok" /\ F[kind].pass \in Nat /\ F[kind].n \in Nat
  BY DEF Starts, Kinds, Files
<1> HIDE DEF H
<1>5. \A kind \in Kinds, part \in Parts : \A f \in Alive(n, << kind, part >>) :
         f \in Files /\ f.history \in Seq(Entries) /\ Numbered(f.history) /\ Behind(f, F[kind]) /\ f.pass = F[kind].pass /\ Suffix(f.history, H)
  <2>1. SUFFICES ASSUME NEW kind \in Kinds, NEW part \in Parts, NEW f \in Alive(n, << kind, part >>)
                 PROVE  f \in Files /\ f.history \in Seq(Entries) /\ Numbered(f.history) /\ Behind(f, F[kind]) /\ f.pass = F[kind].pass /\ Suffix(f.history, H)
    OBVIOUS
  <2>2. CASE f \in Now(o, << kind, part >>)
    <3>1. Behind(f, F[kind]) /\ f.pass = F[kind].pass
      BY <2>2 DEF Starts
    <3> QED BY <1>2, <1>3, <1>4, <2>2, <3>1 DEF Behind
  <2>3. CASE f = F[kind]
    <3>1. Numbered(f.history) /\ f.history \in Seq(Entries)
      BY <1>4, <2>3 DEF Starts
    <3> QED BY <1>4, <2>3, <3>1, SuffixFacts DEF Behind
  <2> QED BY <1>2, <2>2, <2>3
<1>6. \A p \in Places : p[1] \in Kinds /\ p[2] \in Parts /\ p = << p[1], p[2] >>
  BY PlacesAre
<1>7. HistoriesNumbered(n)
  BY <1>5, <1>6 DEF HistoriesNumbered
<1>8. OneHistory(n)
  <2>1. ASSUME NEW p \in Places, NEW q \in Places, NEW f \in Alive(n, p), NEW g \in Alive(n, q)
        PROVE  Suffix(f.history, g.history) \/ Suffix(g.history, f.history)
    <3>1. /\ f.history \in Seq(Entries) /\ g.history \in Seq(Entries) /\ Suffix(f.history, H) /\ Suffix(g.history, H)
      BY <1>5, <1>6
    <3> QED BY <1>4, <3>1, SuffixFacts
  <2> QED BY <2>1 DEF OneHistory
<1>9. OnePass(n)
  <2>1. \A kind \in Kinds : n.stored[kind] \subseteq {F[kind].pass}
    BY DEF Starts
  <2> QED BY <1>4, <1>5, <2>1 DEF OnePass
<1>10. \A kind \in Kinds, part \in Parts : Final(n, << kind, part >>) \subseteq Alive(n, << kind, part >>)
  BY AliveIs
<1>11. CopyBehind(n)
  <2>1. SUFFICES ASSUME NEW kind \in Kinds
                 PROVE  /\ \A f \in Alive(n, << kind, "main" >>), g \in Now(n, << kind, "copy" >>) : Behind(g, f)
                        /\ \A f \in Final(n, << kind, "main" >>), g \in Final(n, << kind, "copy" >>) : Behind(g, f)
    BY DEF CopyBehind
  <2>2. << kind, "main" >> \in Places /\ << kind, "copy" >> \in Places /\ "main" \in Parts /\ "copy" \in Parts
    BY PlacesAre DEF Parts
  <2>3. ASSUME NEW f \in Alive(n, << kind, "main" >>), NEW g \in Now(n, << kind, "copy" >>) PROVE Behind(g, f)
    <3>1. g \in Now(o, << kind, "copy" >>) /\ g \in Alive(o, << kind, "copy" >>)
      BY <1>1, <2>2, <2>3
    <3>2. CASE f = F[kind]
      BY <2>2, <3>1, <3>2 DEF Starts
    <3>3. CASE f \in Now(o, << kind, "main" >>)
      BY <1>1, <2>2, <3>1, <3>3 DEF StanzaInv, CopyBehind
    <3> QED BY <1>2, <2>2, <2>3, <3>2, <3>3
  <2>4. ASSUME NEW f \in Final(n, << kind, "main" >>), NEW g \in Final(n, << kind, "copy" >>) PROVE Behind(g, f)
    <3>1. f = F[kind]
      BY <2>2, <2>4 DEF Starts
    <3> QED BY <1>5, <1>10, <2>2, <2>4, <3>1
  <2> QED BY <2>3, <2>4
<1>12. CopyEqual(n)
  <2>1. "main" \in Parts /\ "copy" \in Parts
    BY DEF Parts
  <2> QED BY <2>1 DEF CopyEqual, Starts
<1>13. BackupBehind(n)
  <2>1. SUFFICES ASSUME NEW x \in Parts, NEW y \in Parts, o.kills = 0 \/ (o.faults = 0 /\ x = "main" /\ y = "main")
                 PROVE  /\ \A f \in Alive(n, << "archive", x >>), g \in Now(n, << "backup", y >>) : Near(f, g)
                        /\ \A f \in Final(n, << "archive", x >>), g \in Final(n, << "backup", y >>) : Near(f, g)
    BY DEF BackupBehind, Starts
  <2>2. "archive" \in Kinds /\ "backup" \in Kinds /\ << "archive", x >> \in Places /\ << "backup", y >> \in Places
    BY PlacesAre DEF Kinds
  <2>3. ASSUME NEW f \in Alive(n, << "archive", x >>), NEW g \in Now(n, << "backup", y >>) PROVE Near(f, g)
    <3>1. g \in Now(o, << "backup", y >>)
      BY <1>1, <2>2, <2>3
    <3>2. CASE f \in Now(o, << "archive", x >>)
      BY <1>1, <2>1, <2>2, <3>1, <3>2 DEF StanzaInv, BackupBehind
    <3>3. CASE f = F["archive"]
      <4>1. Len(F["backup"].history) <= Len(g.history) + 1 /\ Behind(g, F["backup"])
        BY <2>1, <2>2, <3>1 DEF Starts
      <4> QED BY <1>4, <2>2, <3>3, <4>1 DEF Near, Behind, Suffix
    <3> QED BY <1>2, <2>2, <2>3, <3>2, <3>3
  <2>4. ASSUME NEW f \in Final(n, << "archive", x >>), NEW g \in Final(n, << "backup", y >>) PROVE Near(f, g)
    <3>1. f = F["archive"] /\ g = F["backup"]
      BY <2>1, <2>2, <2>4 DEF Starts
    <3> QED BY <1>4, <2>2, <3>1 DEF Near
  <2> QED BY <2>3, <2>4
<1>14. MainLast(n)
  <2>1. << "backup", "main" >> \in Places /\ << "backup", "copy" >> \in Places
    BY PlacesAre DEF Kinds, Parts
  <2> QED BY <1>1, <2>1 DEF MainLast, Starts
<1>15. RemoveOrder(n)
  BY DEF RemoveOrder, RemovedAt, Starts
<1>16. Decided(n)
  <2>1. \A kind \in Kinds : FinalPair(n, kind) = {F[kind]}
    BY DEF Starts
  <2>2. "archive" \in Kinds /\ "backup" \in Kinds
    BY DEF Kinds
  <2>3. \A f \in FinalPair(n, "archive"), g \in FinalPair(n, "backup") : f = F["archive"] /\ g = F["backup"]
    BY <2>1, <2>2
  <2>4. /\ F["archive"].history = F["backup"].history /\ F["archive"].history[1].pg = n.pg
        /\ n.did \in {"create", "upgrade"} /\ \A i \in DOMAIN n.todo : n.todo[i].op = "write"
    BY DEF Starts
  <2>5. n.did = "create" => \A p \in Places : Queued(n, p) # {} \/ n.file[p].is # "missing"
    BY DEF Starts
  <2> QED BY <2>1, <2>3, <2>4, <2>5 DEF Decided
<1> QED BY <1>7, <1>8, <1>9, <1>11, <1>12, <1>13, <1>14, <1>15, <1>16 DEF StanzaInv, Starts

\* Writes of one kind of info file.
WritesOf(t, kind) ==
    t \in Seq(Writes) /\ Orderly(t) /\ \A i \in DOMAIN t : t[i].op = "write" /\ t[i].place[1] = kind /\ t[i].file.is = "ok"

\* infoArchiveSaveFile() and infoBackupSaveFile() write the file, then its copy.
LEMMA PairWrites ==
    ASSUME NEW kind \in Kinds, NEW f \in Files, f.is = "ok"
    PROVE  LET t == << Write(kind, "main", f), Write(kind, "copy", f) >>
           IN  WritesOf(t, kind) /\ \A p \in Places : QueuedAt(t, p) = IF p[1] = kind THEN {f} ELSE {}
<1> DEFINE t == << Write(kind, "main", f), Write(kind, "copy", f) >>
<1>1. /\ << kind, "main" >> \in Places /\ << kind, "copy" >> \in Places
      /\ Write(kind, "main", f) \in Writes /\ Write(kind, "copy", f) \in Writes
  <2>1. << kind, "main" >> \in Places /\ << kind, "copy" >> \in Places
    BY PlacesAre DEF Parts
  <2> QED BY <2>1 DEF Write, Writes
<1>2. /\ t \in Seq(Writes) /\ DOMAIN t = 1..2
      /\ t[1].op = "write" /\ t[1].place = << kind, "main" >> /\ t[1].file = f
      /\ t[2].op = "write" /\ t[2].place = << kind, "copy" >> /\ t[2].file = f
  BY <1>1 DEF Write
<1> HIDE DEF t
<1>3. WritesOf(t, kind)
  <2>1. \A i \in DOMAIN t : i = 1 \/ i = 2
    BY <1>2
  <2>2. Before(t[1].place, t[2].place)
    BY <1>2 DEF Before
  <2> QED BY <1>2, <2>1, <2>2, SMTT(30) DEF WritesOf, Orderly
<1>4. ASSUME NEW p \in Places PROVE QueuedAt(t, p) = IF p[1] = kind THEN {f} ELSE {}
  <2>1. \A g \in QueuedAt(t, p) : g = f /\ p[1] = kind
    BY <1>2 DEF QueuedAt
  <2>2. ASSUME p[1] = kind PROVE f \in QueuedAt(t, p)
    <3>1. p = << kind, "main" >> \/ p = << kind, "copy" >>
      BY <2>2, PlacesAre DEF Parts
    <3> QED BY <1>2, <3>1 DEF QueuedAt
  <2> QED BY <2>1, <2>2
<1> QED BY <1>3, <1>4 DEF t

\* stanza-create writes the one of the two that is missing.
LEMMA OneWrite ==
    ASSUME NEW kind \in Kinds, NEW part \in Parts, NEW f \in Files, f.is = "ok"
    PROVE  LET t == << Write(kind, part, f) >>
           IN  WritesOf(t, kind) /\ \A p \in Places : QueuedAt(t, p) = IF p = << kind, part >> THEN {f} ELSE {}
<1> DEFINE t == << Write(kind, part, f) >>
<1>1. /\ << kind, part >> \in Places
      /\ Write(kind, part, f) \in Writes
  BY PlacesAre DEF Write, Writes
<1>2. /\ t \in Seq(Writes) /\ DOMAIN t = 1..1
      /\ t[1].op = "write" /\ t[1].place = << kind, part >> /\ t[1].file = f
  BY <1>1 DEF Write
<1> HIDE DEF t
<1>3. WritesOf(t, kind)
  BY <1>2 DEF WritesOf, Orderly
<1>4. ASSUME NEW p \in Places PROVE QueuedAt(t, p) = IF p = << kind, part >> THEN {f} ELSE {}
  <2>1. \A i \in DOMAIN t : i = 1
    BY <1>2
  <2>2. 1 \in DOMAIN t
    BY <1>2
  <2>3. \A g \in QueuedAt(t, p) : g = f /\ p = << kind, part >>
    BY <1>2, <2>1 DEF QueuedAt
  <2>4. p = << kind, part >> => f \in QueuedAt(t, p)
    BY <1>2, <2>2 DEF QueuedAt
  <2> QED BY <2>3, <2>4
<1> QED BY <1>3, <1>4 DEF t

\* Nothing is written.
LEMMA NoWrites ==
    ASSUME NEW kind \in Kinds
    PROVE  WritesOf(<< >>, kind) /\ \A p : QueuedAt(<< >>, p) = {}
BY DEF WritesOf, Orderly, QueuedAt

\* First the files of the archive, then those of the backups.
LEMMA BothWrites ==
    ASSUME NEW s, NEW t, WritesOf(s, "archive"), WritesOf(t, "backup")
    PROVE  /\ s \o t \in Seq(Writes) /\ Orderly(s \o t)
           /\ \A i \in DOMAIN (s \o t) : (s \o t)[i].op = "write"
           /\ \A p : QueuedAt(s \o t, p) = QueuedAt(s, p) \cup QueuedAt(t, p)
<1> DEFINE u == s \o t
<1>1. /\ s \in Seq(Writes) /\ t \in Seq(Writes) /\ u \in Seq(Writes) /\ Len(s) \in Nat
      /\ \A p : QueuedAt(u, p) = QueuedAt(s, p) \cup QueuedAt(t, p)
      /\ \A i \in DOMAIN u : i \in Nat
      /\ \A i \in DOMAIN s : i <= Len(s)
      /\ \A i \in DOMAIN u : \/ i \in DOMAIN s /\ u[i] = s[i]
                             \/ i - Len(s) \in DOMAIN t /\ u[i] = t[i - Len(s)] /\ i > Len(s)
  <2>1. s \in Seq(Writes) /\ t \in Seq(Writes)
    BY DEF WritesOf
  <2> QED BY <2>1, QueuedBoth
<1> HIDE DEF u
<1>2. \A i \in DOMAIN u : u[i].op = "write" /\ u[i].file.is = "ok"
  BY <1>1 DEF WritesOf
<1>3. ASSUME NEW i \in DOMAIN u, NEW j \in DOMAIN u, i < j
      PROVE  Before(u[i].place, u[j].place)
  <2>1. CASE j \in DOMAIN s /\ u[j] = s[j]
    <3>1. i \in DOMAIN s /\ u[i] = s[i]
      BY <1>1, <1>3, <2>1
    <3> QED BY <1>3, <2>1, <3>1 DEF WritesOf, Orderly
  <2>2. CASE j - Len(s) \in DOMAIN t /\ u[j] = t[j - Len(s)] /\ j > Len(s)
    <3>1. CASE i \in DOMAIN s /\ u[i] = s[i]
      BY <2>2, <3>1 DEF WritesOf, Before
    <3>2. CASE i - Len(s) \in DOMAIN t /\ u[i] = t[i - Len(s)] /\ i > Len(s)
      <4>1. i - Len(s) < j - Len(s)
        BY <1>1, <1>3
      <4> QED BY <2>2, <3>2, <4>1 DEF WritesOf, Orderly
    <3> QED BY <1>1, <3>1, <3>2
  <2> QED BY <1>1, <2>1, <2>2
<1>4. Orderly(u)
  BY <1>2, <1>3 DEF Orderly
<1> QED BY <1>1, <1>2, <1>4 DEF u

\* Two histories that end in the same clusters and have as many are the same.
LEMMA SameHistory ==
    ASSUME NEW s \in Seq(Entries), NEW t \in Seq(Entries), Numbered(s), Numbered(t),
           Suffix(s, t) \/ Suffix(t, s)
    PROVE  /\ s[1].id = t[1].id => s = t
           /\ s[1].id + 1 = t[1].id => t = << t[1] >> \o s
<1>1. s[1].id = Len(s) /\ t[1].id = Len(t)
  <2>1. Len(s) \in Nat /\ Len(t) \in Nat /\ Len(s) > 0 /\ Len(t) > 0
    BY DEF Numbered
  <2>2. s[1].id = Len(s) - 1 + 1 /\ t[1].id = Len(t) - 1 + 1
    BY <2>1 DEF Numbered
  <2> QED BY <2>1, <2>2
<1>2. ASSUME s[1].id = t[1].id PROVE s = t
  BY <1>1, <1>2, SuffixFacts
<1>3. ASSUME s[1].id + 1 = t[1].id PROVE t = << t[1] >> \o s
  <2>1. Suffix(s, t) /\ Len(t) = Len(s) + 1
    BY <1>1, <1>3 DEF Suffix
  <2> DEFINE u == << t[1] >> \o s
  <2>2. u \in Seq(Entries) /\ Len(u) = Len(t) /\ u[1] = t[1] /\ \A i \in 2..Len(t) : u[i] = s[i - 1]
    BY <2>1
  <2>3. ASSUME NEW i \in 1..Len(t) PROVE u[i] = t[i]
    <3>1. CASE i = 1
      BY <2>2, <3>1
    <3>2. CASE i > 1
      <4>1. i - 1 \in 1..Len(s) /\ Len(t) - Len(s) + (i - 1) = i /\ i \in 2..Len(t)
        BY <2>1, <3>2
      <4> QED BY <2>1, <2>2, <4>1 DEF Suffix
    <3>3. i \in Nat /\ i >= 1
      OBVIOUS
    <3> HIDE DEF u
    <3> QED BY <3>1, <3>2, <3>3
  <2> HIDE DEF u
  <2>4. u = t
    BY <2>2, <2>3
  <2> QED BY <2>4 DEF u
<1> QED BY <1>2, <1>3

\* What is loaded is the best there is.
LEMMA LoadedBest ==
    ASSUME NEW o, StanzaInv(o), o.todo = << >>, NEW kind \in Kinds, Loads(o, kind)
    PROVE  LET info == LoadPair(o, kind)
           IN  /\ info \in Files /\ info.is = "ok" /\ info.history \in Seq(Entries) /\ Numbered(info.history)
               /\ o.stored[kind] \subseteq {info.pass}
               /\ \E part \in Parts : << kind, part >> \in Places /\ Now(o, << kind, part >>) = {info}
               /\ \A part \in Parts : \A f \in Now(o, << kind, part >>) :
                     /\ Behind(f, info) /\ f.pass = info.pass
                     /\ o.kills = 0 \/ part = "main" => f = info
<1> DEFINE info == LoadPair(o, kind)
<1>1. o \in Stanzas
  BY DEF StanzaInv
<1>2. PICK part \in Parts : /\ << kind, part >> \in Places /\ o.file[<< kind, part >>] \in Files
                            /\ info = o.file[<< kind, part >>] /\ Now(o, << kind, part >>) = {info}
                            /\ part = "copy" => Now(o, << kind, "main" >>) = {}
  BY <1>1, LoadedIs
<1>3. info \in Files /\ info.is = "ok" /\ info.history \in Seq(Entries) /\ info.n \in Nat
  BY <1>2 DEF Files, Loads
<1> HIDE DEF info
<1>4. \A p \in Places : Queued(o, p) = {} /\ Alive(o, p) = Now(o, p) /\ Final(o, p) = Now(o, p)
  <2>1. \A p \in Places : Queued(o, p) = {}
    BY DEF Queued, QueuedAt
  <2> QED BY <2>1, AliveIs
<1>5. \A part_1 \in Parts : << kind, part_1 >> \in Places
  BY PlacesAre
<1>6. info \in Alive(o, << kind, part >>)
  BY <1>2, <1>4
<1>7. Numbered(info.history)
  BY <1>2, <1>6 DEF StanzaInv, HistoriesNumbered
<1>8. /\ o.stored[kind] \subseteq {info.pass}
      /\ \A part_1 \in Parts : \A f \in Now(o, << kind, part_1 >>) : f.pass = info.pass
  <2>1. PICK x \in Nat : o.stored[kind] \subseteq {x} /\ \A part_1 \in Parts : \A f \in Alive(o, << kind, part_1 >>) : f.pass = x
    BY DEF StanzaInv, OnePass
  <2>2. info.pass = x
    BY <1>6, <2>1
  <2> QED BY <1>4, <1>5, <2>1, <2>2
<1>9. Behind(info, info)
  BY <1>3, SuffixFacts DEF Behind
<1>10. ASSUME NEW part_1 \in Parts, NEW f \in Now(o, << kind, part_1 >>)
       PROVE  Behind(f, info) /\ (o.kills = 0 \/ part_1 = "main" => f = info)
  <2>1. CASE part_1 = part
    BY <1>2, <1>9, <1>10, <2>1
  <2>2. CASE part_1 = "copy" /\ part = "main"
    <3>1. info \in Alive(o, << kind, "main" >>) /\ f \in Now(o, << kind, "copy" >>)
      BY <1>6, <1>10, <2>2
    <3>2. info \in Final(o, << kind, "main" >>) /\ f \in Final(o, << kind, "copy" >>)
      BY <1>4, <1>5, <3>1, <2>2
    <3>3. Behind(f, info)
      BY <3>1 DEF StanzaInv, CopyBehind
    <3>4. o.kills = 0 => f = info
      BY <3>2 DEF StanzaInv, CopyEqual
    <3> QED BY <2>2, <3>3, <3>4
  <2>3. CASE part_1 = "main" /\ part = "copy"
    BY <1>2, <1>10, <2>3
  <2> QED BY <2>1, <2>2, <2>3 DEF Parts
<1> QED BY <1>2, <1>3, <1>7, <1>8, <1>10 DEF info

\* A command that starts has only queued its writes.
LEMMA BeginIs ==
    ASSUME NEW o \in Stanzas, NEW did \in Dids, NEW t \in Seq(Writes)
    PROVE  LET n == BeginStanza(o, did, t)
           IN  /\ n \in Stanzas /\ n.file = o.file /\ n.stored = o.stored /\ n.stop = o.stop /\ n.pg = o.pg /\ n.todo = t
               /\ n.passes = o.passes /\ n.faults = o.faults /\ n.kills = o.kills /\ n.did = did
BY DEF BeginStanza, Stanzas

\* stanza-create where there is nothing yet.
LEMMA CreateNewKeeps ==
    ASSUME NEW o, StanzaInv(o), o.todo = << >>, NothingStored(o),
           \A kind \in Kinds, part \in Parts : ~InfoExists(o, kind, part)
    PROVE  StanzaInv([BeginStanza(o, "create", ArchiveSaveFile(NewInfo(o, 1)) \o BackupSaveFile(NewInfo(o, 2))) EXCEPT !.passes = @ + 2])
<1> DEFINE F == [kind \in Kinds |-> IF kind = "archive" THEN NewInfo(o, 1) ELSE NewInfo(o, 2)]
           s == ArchiveSaveFile(NewInfo(o, 1))
           t == BackupSaveFile(NewInfo(o, 2))
           m == BeginStanza(o, "create", s \o t)
           n == [m EXCEPT !.passes = @ + 2]
<1>1. o \in Stanzas /\ o.passes \in Nat /\ o.pg \in Clusters
  BY DEF StanzaInv, Stanzas
<1>2. ASSUME NEW i \in {1, 2}
      PROVE  LET f == NewInfo(o, i) IN f \in Files /\ f.is = "ok" /\ Numbered(f.history) /\ f.history = << [id |-> 1, pg |-> o.pg] >> /\ f.history[1].pg = o.pg
  <2> DEFINE f == NewInfo(o, i)
  <2>1. << [id |-> 1, pg |-> o.pg] >> \in Seq(Entries) /\ Len(<< [id |-> 1, pg |-> o.pg] >>) = 1
    BY <1>1 DEF Entries
  <2>2. f \in Files /\ f.is = "ok" /\ f.history = << [id |-> 1, pg |-> o.pg] >>
    BY <1>1, <1>2, <2>1 DEF NewInfo, Files
  <2> HIDE DEF f
  <2>3. Numbered(f.history)
    BY <2>1, <2>2 DEF Numbered
  <2> QED BY <2>1, <2>2, <2>3 DEF f
<1>3. /\ F["archive"] = NewInfo(o, 1) /\ F["backup"] = NewInfo(o, 2)
      /\ \A kind \in Kinds : F[kind] \in Files /\ F[kind].is = "ok" /\ Numbered(F[kind].history)
      /\ F["archive"].history = F["backup"].history /\ F["archive"].history[1].pg = o.pg
  <2>1. F["archive"] = NewInfo(o, 1) /\ F["backup"] = NewInfo(o, 2)
    BY DEF Kinds
  <2> HIDE DEF F
  <2> QED BY <1>2, <2>1 DEF Kinds
<1>4. /\ WritesOf(s, "archive") /\ \A p \in Places : QueuedAt(s, p) = IF p[1] = "archive" THEN {F["archive"]} ELSE {}
      /\ WritesOf(t, "backup") /\ \A p \in Places : QueuedAt(t, p) = IF p[1] = "backup" THEN {F["backup"]} ELSE {}
  BY <1>2, <1>3, PairWrites DEF ArchiveSaveFile, BackupSaveFile, Kinds
<1> HIDE DEF F, s, t
<1>5. /\ s \o t \in Seq(Writes) /\ Orderly(s \o t)
      /\ \A i \in DOMAIN (s \o t) : (s \o t)[i].op = "write"
      /\ \A p : QueuedAt(s \o t, p) = QueuedAt(s, p) \cup QueuedAt(t, p)
  BY <1>4, BothWrites
<1> DEFINE u == s \o t
<1>6. /\ m \in Stanzas /\ m.file = o.file /\ m.stored = o.stored /\ m.pg = o.pg /\ m.todo = u
      /\ m.faults = o.faults /\ m.kills = o.kills /\ m.did = "create"
  <2>1. u \in Seq(Writes) /\ "create" \in Dids
    BY <1>5 DEF Dids
  <2> QED BY <1>1, <2>1, BeginIs, ZenonT(40)
<1> HIDE DEF m, u
<1>7. /\ n \in Stanzas /\ n.file = o.file /\ n.stored = o.stored /\ n.pg = o.pg /\ n.todo = u
      /\ n.faults = o.faults /\ n.kills = o.kills /\ n.did = "create"
  BY <1>6 DEF Stanzas
<1> HIDE DEF n
<1>8. \A p \in Places : p[1] \in Kinds /\ p[2] \in Parts /\ p = << p[1], p[2] >>
  BY PlacesAre
<1>9. \A p \in Places : Now(o, p) = {}
  BY <1>8 DEF Now, InfoExists
<1>10. \A p \in Places : Queued(n, p) = {F[p[1]]} /\ Final(n, p) = {F[p[1]]}
  <2>1. \A p \in Places : Queued(n, p) = {F[p[1]]}
    BY <1>4, <1>5, <1>7, <1>8 DEF Queued, Kinds, u
  <2> QED BY <2>1 DEF Final
<1>11. \A kind \in Kinds : o.stored[kind] = {}
  BY DEF NothingStored, Kinds
<1>12. \A kind \in Kinds, part \in Parts : << kind, part >> \in Places /\ Queued(n, << kind, part >>) = {F[kind]} /\ Final(n, << kind, part >>) = {F[kind]}
  BY <1>10, PlacesAre
<1>13. \A kind \in Kinds : FinalPair(n, kind) = {F[kind]}
  BY <1>12 DEF FinalPair, Parts
<1>14. Starts(o, n, F)
  <2>1. "backup" \in Kinds /\ "main" \in Parts /\ "copy" \in Parts
    BY DEF Kinds, Parts
  <2>2. Orderly(n.todo) /\ \A i \in DOMAIN n.todo : n.todo[i].op = "write"
    BY <1>5, <1>7 DEF u
  <2> QED BY <1>3, <1>7, <1>9, <1>10, <1>11, <1>12, <1>13, <2>1, <2>2 DEF Starts
<1> QED BY <1>14, StartsKeeps DEF n, m, u, s, t

\* Info files of both kinds are there, and what backup.info says is not lost
\* before its copy.
LEMMA LoadedMain ==
    ASSUME NEW o, StanzaInv(o), o.todo = << >>, Loads(o, "archive"), Loads(o, "backup"), o.faults = 0
    PROVE  Now(o, << "backup", "main" >>) # {}
<1>1. o \in Stanzas /\ "archive" \in Kinds /\ "backup" \in Kinds
  BY DEF StanzaInv, Kinds
<1>2. PICK x \in Parts : Now(o, << "archive", x >>) # {}
  BY <1>1, LoadedIs
<1>3. PICK y \in Parts : Now(o, << "backup", y >>) # {}
  BY <1>1, LoadedIs
<1>4. Alive(o, << "archive", x >>) # {}
  BY <1>2, AliveIs
<1> QED BY <1>3, <1>4 DEF StanzaInv, MainLast, Parts

\* What CopyOf writes.
LEMMA CopyWrites ==
    ASSUME NEW o, StanzaInv(o), o.todo = << >>, NEW kind \in Kinds, Loads(o, kind),
           InfoExists(o, kind, "main") \/ InfoExists(o, kind, "copy")
    PROVE  /\ WritesOf(CopyOf(o, kind), kind)
           /\ \A p \in Places : /\ QueuedAt(CopyOf(o, kind), p) \subseteq {LoadPair(o, kind)}
                                /\ p[1] # kind => QueuedAt(CopyOf(o, kind), p) = {}
                                /\ p[1] = kind /\ o.file[p].is = "missing" => QueuedAt(CopyOf(o, kind), p) # {}
                                /\ p[1] = kind /\ o.file[p].is # "missing" => QueuedAt(CopyOf(o, kind), p) = {}
<1> DEFINE info == LoadPair(o, kind)
           main == << kind, "main" >>
           copy == << kind, "copy" >>
<1>1. o \in Stanzas /\ main \in Places /\ copy \in Places /\ "main" \in Parts /\ "copy" \in Parts /\ main # copy
  BY PlacesAre DEF StanzaInv, Parts
<1>2. /\ info = IF o.file[main].is = "ok" THEN o.file[main] ELSE o.file[copy]
      /\ info.is = "ok" /\ info \in Files
  BY <1>1, LoadPairIs, LoadedBest DEF Loads, Missing
<1>3. \A p \in Places : p[1] = kind => p = main \/ p = copy
  BY PlacesAre DEF Parts
<1>4. main[1] = kind /\ copy[1] = kind
  OBVIOUS
<1> HIDE DEF info
<1>5. CASE InfoExists(o, kind, "main") /\ InfoExists(o, kind, "copy")
  <2>1. CopyOf(o, kind) = << >>
    BY <1>5 DEF CopyOf
  <2> QED BY <1>3, <1>5, <2>1, NoWrites DEF InfoExists
<1>6. CASE ~InfoExists(o, kind, "main")
  <2>1. InfoExists(o, kind, "copy") /\ o.file[main].is = "missing" /\ o.file[copy].is # "missing" /\ info = o.file[copy]
    BY <1>2, <1>6 DEF InfoExists
  <2>2. CopyOf(o, kind) = << Write(kind, "main", info) >>
    BY <1>6, <2>1 DEF CopyOf
  <2>3. /\ WritesOf(CopyOf(o, kind), kind)
        /\ \A p \in Places : QueuedAt(CopyOf(o, kind), p) = IF p = main THEN {info} ELSE {}
    <3>1. /\ WritesOf(<< Write(kind, "main", info) >>, kind)
          /\ \A p \in Places : QueuedAt(<< Write(kind, "main", info) >>, p) = IF p = main THEN {info} ELSE {}
      BY <1>1, <1>2, OneWrite
    <3> QED BY <2>2, <3>1
  <2> QED BY <1>1, <1>3, <1>4, <2>1, <2>3 DEF info
<1>7. CASE InfoExists(o, kind, "main") /\ ~InfoExists(o, kind, "copy")
  <2>1. o.file[main].is # "missing" /\ o.file[copy].is = "missing" /\ info = o.file[main]
    BY <1>2, <1>7 DEF InfoExists
  <2>2. CopyOf(o, kind) = << Write(kind, "copy", info) >>
    BY <1>7, <2>1 DEF CopyOf
  <2>3. /\ WritesOf(CopyOf(o, kind), kind)
        /\ \A p \in Places : QueuedAt(CopyOf(o, kind), p) = IF p = copy THEN {info} ELSE {}
    <3>1. /\ WritesOf(<< Write(kind, "copy", info) >>, kind)
          /\ \A p \in Places : QueuedAt(<< Write(kind, "copy", info) >>, p) = IF p = copy THEN {info} ELSE {}
      BY <1>1, <1>2, OneWrite
    <3> QED BY <2>2, <3>1
  <2> QED BY <1>1, <1>3, <1>4, <2>1, <2>3 DEF info
<1> QED BY <1>5, <1>6, <1>7

\* Both kinds of info files are of the same cluster.
LEMMA LoadedSame ==
    ASSUME NEW o, StanzaInv(o), o.todo = << >>, Loads(o, "archive"), Loads(o, "backup")
    PROVE  LET a == LoadPair(o, "archive").history
               b == LoadPair(o, "backup").history
           IN  /\ a[1].id = b[1].id => a = b
               /\ a[1].id + 1 = b[1].id => b = << b[1] >> \o a
               /\ b[1].id + 1 = a[1].id => a = << a[1] >> \o b
<1> DEFINE f == LoadPair(o, "archive")
           g == LoadPair(o, "backup")
<1>1. "archive" \in Kinds /\ "backup" \in Kinds
  BY DEF Kinds
<1>2. /\ f.history \in Seq(Entries) /\ Numbered(f.history) /\ \E x \in Parts : << "archive", x >> \in Places /\ Now(o, << "archive", x >>) = {f}
      /\ g.history \in Seq(Entries) /\ Numbered(g.history) /\ \E y \in Parts : << "backup", y >> \in Places /\ Now(o, << "backup", y >>) = {g}
  BY <1>1, LoadedBest
<1> HIDE DEF f, g
<1>3. Suffix(f.history, g.history) \/ Suffix(g.history, f.history)
  BY <1>2, AliveIs DEF StanzaInv, OneHistory
<1> QED BY <1>2, <1>3, SameHistory DEF f, g

\* stanza-create where a file of a pair is missing.
LEMMA CreateCopyKeeps ==
    ASSUME NEW o, StanzaInv(o), o.todo = << >>, InfoFitsPg(o, o.pg),
           \A kind \in Kinds : InfoExists(o, kind, "main") \/ InfoExists(o, kind, "copy")
    PROVE  StanzaInv(BeginStanza(o, "create", CopyOf(o, "archive") \o CopyOf(o, "backup")))
<1> DEFINE F == [kind \in Kinds |-> LoadPair(o, kind)]
           s == CopyOf(o, "archive")
           t == CopyOf(o, "backup")
           n == BeginStanza(o, "create", s \o t)
<1>1. o \in Stanzas /\ "archive" \in Kinds /\ "backup" \in Kinds /\ "main" \in Parts /\ "copy" \in Parts
  BY DEF StanzaInv, Kinds, Parts
<1>2. Loads(o, "archive") /\ Loads(o, "backup") /\ \A kind \in Kinds : Loads(o, kind)
  BY DEF InfoFitsPg, Kinds
<1>3. \A kind \in Kinds : F[kind] = LoadPair(o, kind)
  OBVIOUS
<1>4. F["archive"].history = F["backup"].history /\ F["archive"].history[1].pg = o.pg
  BY <1>1, <1>2, <1>3, LoadedSame DEF InfoFitsPg, InfoAgree, CurrentPg
<1>5. \A kind \in Kinds : CopyOf(o, kind) = IF kind = "archive" THEN s ELSE t
  BY DEF Kinds
<1> HIDE DEF F
<1>6. /\ WritesOf(s, "archive") /\ WritesOf(t, "backup")
  BY <1>1, <1>2, CopyWrites
<1>7. \A kind \in Kinds, p \in Places :
         LET Q == QueuedAt(CopyOf(o, kind), p)
         IN  /\ Q \subseteq {F[kind]} /\ (p[1] # kind => Q = {})
             /\ p[1] = kind /\ o.file[p].is = "missing" => Q # {}
             /\ p[1] = kind /\ o.file[p].is # "missing" => Q = {}
  BY <1>2, <1>3, CopyWrites
<1>8. /\ s \o t \in Seq(Writes) /\ Orderly(s \o t)
      /\ \A i \in DOMAIN (s \o t) : (s \o t)[i].op = "write"
      /\ \A p : QueuedAt(s \o t, p) = QueuedAt(s, p) \cup QueuedAt(t, p)
  BY <1>6, BothWrites
<1>9. /\ n \in Stanzas /\ n.file = o.file /\ n.stored = o.stored /\ n.pg = o.pg /\ n.todo = s \o t
      /\ n.faults = o.faults /\ n.kills = o.kills /\ n.did = "create"
  <2>1. s \o t \in Seq(Writes) /\ "create" \in Dids
    BY <1>8 DEF Dids
  <2> QED BY <1>1, <2>1, BeginIs, ZenonT(40)
<1> HIDE DEF n
<1>10. \A kind \in Kinds, part \in Parts :
         LET p == << kind, part >>
         IN  /\ p \in Places /\ Queued(n, p) \subseteq {F[kind]} /\ Now(n, p) = Now(o, p)
             /\ o.file[p].is = "missing" => Queued(n, p) = {F[kind]} /\ Now(o, p) = {}
             /\ o.file[p].is # "missing" => Queued(n, p) = {}
  <2>1. SUFFICES ASSUME NEW kind \in Kinds, NEW part \in Parts
                 PROVE  LET p == << kind, part >>
                        IN  /\ p \in Places /\ Queued(n, p) \subseteq {F[kind]} /\ Now(n, p) = Now(o, p)
                            /\ o.file[p].is = "missing" => Queued(n, p) = {F[kind]} /\ Now(o, p) = {}
                            /\ o.file[p].is # "missing" => Queued(n, p) = {}
    OBVIOUS
  <2> DEFINE p == << kind, part >>
  <2>2. p \in Places /\ p[1] = kind
    BY PlacesAre
  <2>3. Queued(n, p) = QueuedAt(s, p) \cup QueuedAt(t, p)
    BY <1>8, <1>9 DEF Queued
  <2>4. Queued(n, p) = QueuedAt(CopyOf(o, kind), p)
    <3>1. CASE kind = "archive"
      <4>1. QueuedAt(CopyOf(o, "backup"), p) = {}
        BY <1>1, <1>7, <2>2, <3>1
      <4> QED BY <2>3, <3>1, <4>1
    <3>2. CASE kind = "backup"
      <4>1. QueuedAt(CopyOf(o, "archive"), p) = {}
        BY <1>1, <1>7, <2>2, <3>2
      <4> QED BY <2>3, <3>2, <4>1
    <3> QED BY <3>1, <3>2 DEF Kinds
  <2>5. Now(n, p) = Now(o, p) /\ (o.file[p].is = "missing" => Now(o, p) = {})
    BY <1>9 DEF Now
  <2> QED BY <1>7, <2>2, <2>4, <2>5
<1>11. \A kind \in Kinds :
          /\ F[kind] \in Files /\ F[kind].is = "ok" /\ Numbered(F[kind].history)
          /\ o.stored[kind] \subseteq {F[kind].pass}
          /\ \A part \in Parts : \A f \in Now(o, << kind, part >>) :
                /\ Behind(f, F[kind]) /\ f.pass = F[kind].pass
                /\ o.kills = 0 \/ part = "main" => f = F[kind]
  BY <1>2, <1>3, LoadedBest
<1>12. \A kind \in Kinds : FinalPair(n, kind) = {F[kind]}
  <2>1. SUFFICES ASSUME NEW kind \in Kinds PROVE FinalPair(n, kind) = {F[kind]}
    OBVIOUS
  <2> DEFINE main == << kind, "main" >>
             copy == << kind, "copy" >>
  <2>2. PICK part \in Parts : Now(o, << kind, part >>) = {F[kind]} /\ (part = "copy" => Now(o, main) = {})
    BY <1>1, <1>2, <1>3, LoadedIs, SMTT(30)
  <2>3. Final(n, main) \subseteq {F[kind]}
    BY <1>1, <1>10, <1>11 DEF Final
  <2>4. CASE Final(n, main) # {}
    BY <2>3, <2>4 DEF FinalPair
  <2>5. CASE Final(n, main) = {}
    <3>1. Queued(n, main) = {} /\ Now(o, main) = {}
      BY <1>1, <1>10, <2>5 DEF Final
    <3>2. part = "copy"
      BY <2>2, <3>1 DEF Parts
    <3>3. Now(n, copy) = {F[kind]} /\ Queued(n, copy) \subseteq {F[kind]}
      BY <1>1, <1>10, <2>2, <3>2
    <3> QED BY <2>5, <3>3 DEF FinalPair, Final
  <2> QED BY <2>4, <2>5
<1>13. o.faults = 0 => /\ Now(o, << "backup", "main" >>) # {}
                       /\ Final(n, << "backup", "main" >>) # {}
  <2>1. o.faults = 0 => Now(o, << "backup", "main" >>) # {}
    BY <1>2, LoadedMain
  <2> QED BY <1>1, <1>10, <2>1 DEF Final
<1>14. \A kind \in Kinds, part \in Parts : (o.kills = 0 \/ part = "main") =>
          /\ \A f \in Now(o, << kind, part >>) : Len(F[kind].history) <= Len(f.history) + 1
          /\ Final(n, << kind, part >>) \subseteq {F[kind]}
  <2>1. \A kind \in Kinds : Len(F[kind].history) \in Nat
    BY <1>11 DEF Files
  <2>2. ASSUME NEW kind \in Kinds, NEW part \in Parts, o.kills = 0 \/ part = "main"
        PROVE  /\ \A f \in Now(o, << kind, part >>) : Len(F[kind].history) <= Len(f.history) + 1
               /\ Final(n, << kind, part >>) \subseteq {F[kind]}
    <3>1. \A f \in Now(o, << kind, part >>) : f = F[kind]
      BY <1>11, <2>2
    <3>2. Len(F[kind].history) <= Len(F[kind].history) + 1
      BY <2>1
    <3> QED BY <1>10, <3>1, <3>2 DEF Final
  <2> QED BY <2>2
<1>15. \A p \in Places : Queued(n, p) # {} \/ o.file[p].is # "missing"
  BY <1>10, PlacesAre
<1>16. Starts(o, n, F)
  BY <1>4, <1>8, <1>9, <1>10, <1>11, <1>12, <1>13, <1>14, <1>15, SMTT(30) DEF Starts
<1> QED BY <1>16, StartsKeeps DEF n

\* What stanza-upgrade makes of an info file.
Grown(o, kind) ==
    IF CurrentPg(o, kind).pg = o.pg THEN LoadPair(o, kind) ELSE PgSet(LoadPair(o, kind), o.pg)

\* The file that stanza-upgrade writes: the one it read, with the cluster there
\* is now if it has not seen that one.
LEMMA GrownIs ==
    ASSUME NEW o, StanzaInv(o), o.todo = << >>, NEW kind \in Kinds, Loads(o, kind)
    PROVE  LET info == LoadPair(o, kind)
               next == Grown(o, kind)
           IN  /\ next \in Files /\ next.is = "ok" /\ Numbered(next.history) /\ next.history[1].pg = o.pg
               /\ next.pass = info.pass /\ next.n = info.n
               /\ Suffix(info.history, next.history) /\ Len(next.history) <= Len(info.history) + 1
               /\ CurrentPg(o, kind).pg = o.pg => next = info
               /\ CurrentPg(o, kind).pg # o.pg => /\ next.history = << [id |-> info.history[1].id + 1, pg |-> o.pg] >> \o info.history
                                                 /\ next.history[1] = [id |-> info.history[1].id + 1, pg |-> o.pg]
<1> DEFINE info == LoadPair(o, kind)
           next == Grown(o, kind)
           e == [id |-> info.history[1].id + 1, pg |-> o.pg]
<1>1. o \in Stanzas /\ o.pg \in Clusters
  BY DEF StanzaInv, Stanzas
<1>2. info \in Files /\ info.is = "ok" /\ info.history \in Seq(Entries) /\ Numbered(info.history)
  BY LoadedBest
<1>3. CurrentPg(o, kind) = info.history[1]
  BY DEF CurrentPg
<1> HIDE DEF info
<1>4. Len(info.history) \in Nat /\ info.history[1] \in Entries /\ info.history[1].id \in Nat
  <2>1. Len(info.history) \in Nat /\ Len(info.history) > 0
    BY <1>2 DEF Numbered
  <2>2. info.history[1] \in Entries
    BY <1>2, <2>1
  <2> QED BY <2>1, <2>2 DEF Entries
<1>5. CASE CurrentPg(o, kind).pg = o.pg
  <2>1. next = info
    BY <1>5 DEF Grown, info
  <2> QED BY <1>2, <1>3, <1>4, <1>5, <2>1, SuffixFacts DEF info
<1>6. CASE CurrentPg(o, kind).pg # o.pg
  <2>1. e \in Entries /\ e.id = info.history[1].id + 1 /\ e.pg = o.pg
    BY <1>1, <1>4 DEF Entries
  <2>2. next = [info EXCEPT !.history = << e >> \o @]
    BY <1>6 DEF Grown, PgSet, info
  <2>3. /\ << e >> \o info.history \in Seq(Entries) /\ Len(<< e >> \o info.history) = Len(info.history) + 1
        /\ (<< e >> \o info.history)[1] = e /\ Numbered(<< e >> \o info.history) /\ Suffix(info.history, << e >> \o info.history)
    BY <1>2, <2>1, HistoryGrown
  <2>4. next \in Files /\ next.is = "ok" /\ next.history = << e >> \o info.history /\ next.pass = info.pass /\ next.n = info.n
    BY <1>2, <2>2, <2>3 DEF Files
  <2> HIDE DEF next
  <2>5. Len(next.history) <= Len(info.history) + 1
    BY <1>4, <2>3, <2>4
  <2> QED BY <1>6, <2>1, <2>3, <2>4, <2>5 DEF next, info
<1> QED BY <1>5, <1>6

\* stanza-upgrade queues the files that have not seen the cluster.
LEMMA UpgradeKeeps ==
    ASSUME NEW o, StanzaInv(o), o.todo = << >>, NEW n \in UpgradeStanza(o)
    PROVE  StanzaInv(n)
<1> DEFINE F == [kind \in Kinds |-> Grown(o, kind)]
           Same(kind) == CurrentPg(o, kind).pg = o.pg
           s == IF Same("archive") THEN << >> ELSE ArchiveSaveFile(Grown(o, "archive"))
           t == IF Same("backup") THEN << >> ELSE BackupSaveFile(Grown(o, "backup"))
<1>1. o \in Stanzas /\ "archive" \in Kinds /\ "backup" \in Kinds /\ "main" \in Parts /\ "copy" \in Parts
  BY DEF StanzaInv, Kinds, Parts
<1>2. Loads(o, "archive") /\ Loads(o, "backup") /\ \A kind \in Kinds : Loads(o, kind)
  BY DEF UpgradeStanza, Kinds
<1>3. /\ Upgraded(Grown(o, "archive"), Grown(o, "backup"))
      /\ n = BeginStanza(o, "upgrade", s \o t)
  BY <1>2 DEF UpgradeStanza, Grown
<1>4. F["archive"] = Grown(o, "archive") /\ F["backup"] = Grown(o, "backup") /\ \A kind \in Kinds : F[kind] = Grown(o, kind)
  BY <1>1
<1> HIDE DEF F
<1>5. \A kind \in Kinds :
         LET info == LoadPair(o, kind)
             next == F[kind]
         IN  /\ next \in Files /\ next.is = "ok" /\ Numbered(next.history) /\ next.history[1].pg = o.pg
             /\ next.pass = info.pass /\ next.n = info.n
             /\ Suffix(info.history, next.history) /\ Len(next.history) <= Len(info.history) + 1
             /\ Same(kind) => next = info
             /\ ~Same(kind) => /\ next.history = << [id |-> info.history[1].id + 1, pg |-> o.pg] >> \o info.history
                               /\ next.history[1] = [id |-> info.history[1].id + 1, pg |-> o.pg]
  BY <1>2, <1>4, GrownIs
<1>6. F["archive"].history = F["backup"].history
  <2> DEFINE a == LoadPair(o, "archive").history
             b == LoadPair(o, "backup").history
             ea == [id |-> a[1].id + 1, pg |-> o.pg]
             eb == [id |-> b[1].id + 1, pg |-> o.pg]
  <2>1. F["archive"].history[1] = F["backup"].history[1]
    BY <1>3, <1>4 DEF Upgraded, InfoAgree
  <2>2. /\ a[1].id = b[1].id => a = b
        /\ a[1].id + 1 = b[1].id => b = << b[1] >> \o a
        /\ b[1].id + 1 = a[1].id => a = << a[1] >> \o b
    BY <1>2, LoadedSame
  <2>3. a[1].id \in Nat /\ b[1].id \in Nat
    <3>1. ASSUME NEW kind \in Kinds PROVE LoadPair(o, kind).history[1].id \in Nat
      <4>1. LoadPair(o, kind).history \in Seq(Entries) /\ Numbered(LoadPair(o, kind).history)
        BY <1>2, LoadedBest
      <4>2. LoadPair(o, kind).history[1] \in Entries
        BY <4>1 DEF Numbered
      <4> QED BY <4>2 DEF Entries
    <3> QED BY <1>1, <3>1
  <2>4. CASE Same("archive") /\ Same("backup")
    BY <1>1, <1>5, <2>1, <2>2, <2>4
  <2>5. CASE ~Same("archive") /\ ~Same("backup")
    <3>1. ea = eb
      BY <1>1, <1>5, <2>1, <2>5
    <3>2. a = b
      BY <2>2, <2>3, <3>1
    <3> QED BY <1>1, <1>5, <2>5, <3>2
  <2>6. CASE ~Same("archive") /\ Same("backup")
    <3>1. b[1] = ea /\ b = F["backup"].history /\ F["archive"].history = << ea >> \o a
      BY <1>1, <1>5, <2>1, <2>6
    <3> QED BY <2>2, <3>1
  <2>7. CASE Same("archive") /\ ~Same("backup")
    <3>1. a[1] = eb /\ a = F["archive"].history /\ F["backup"].history = << eb >> \o b
      BY <1>1, <1>5, <2>1, <2>7
    <3> QED BY <2>2, <3>1
  <2> QED BY <2>4, <2>5, <2>6, <2>7
<1>7. \A kind \in Kinds, part \in Parts :
         LET p == << kind, part >>
         IN  \A f \in Now(o, p) : /\ Behind(f, F[kind]) /\ f.pass = F[kind].pass
                                  /\ o.kills = 0 \/ part = "main" =>
                                        /\ Len(F[kind].history) <= Len(f.history) + 1
                                        /\ Same(kind) => f = F[kind]
  <2>1. SUFFICES ASSUME NEW kind \in Kinds, NEW part \in Parts, NEW f \in Now(o, << kind, part >>)
                 PROVE  /\ Behind(f, F[kind]) /\ f.pass = F[kind].pass
                        /\ o.kills = 0 \/ part = "main" =>
                              /\ Len(F[kind].history) <= Len(f.history) + 1
                              /\ Same(kind) => f = F[kind]
    OBVIOUS
  <2> DEFINE info == LoadPair(o, kind)
  <2>2. /\ info \in Files /\ Behind(f, info) /\ f.pass = info.pass
        /\ o.kills = 0 \/ part = "main" => f = info
    BY <1>2, <2>1, LoadedBest
  <2>3. f.history \in Seq(Entries)
    <3>1. << kind, part >> \in Places
      BY PlacesAre
    <3> QED BY <1>1, <2>1, <3>1 DEF Now, Stanzas, Files
  <2>4. /\ info.history \in Seq(Entries) /\ F[kind].history \in Seq(Entries)
    BY <1>5, <2>2 DEF Files
  <2>5. Suffix(f.history, F[kind].history)
    <3>1. Suffix(f.history, info.history) /\ Suffix(info.history, F[kind].history)
      BY <1>5, <2>2 DEF Behind
    <3> HIDE DEF info
    <3> QED BY <2>3, <2>4, <3>1, SuffixFacts
  <2>6. Behind(f, F[kind]) /\ f.pass = F[kind].pass
    BY <1>5, <2>2, <2>5 DEF Behind
  <2>7. ASSUME o.kills = 0 \/ part = "main"
        PROVE  Len(F[kind].history) <= Len(f.history) + 1 /\ (Same(kind) => f = F[kind])
    BY <1>5, <2>2, <2>7
  <2> QED BY <2>6, <2>7
<1>8. /\ WritesOf(s, "archive") /\ \A p \in Places : QueuedAt(s, p) = IF p[1] = "archive" /\ ~Same("archive") THEN {F["archive"]} ELSE {}
      /\ WritesOf(t, "backup") /\ \A p \in Places : QueuedAt(t, p) = IF p[1] = "backup" /\ ~Same("backup") THEN {F["backup"]} ELSE {}
  <2>1. /\ WritesOf(s, "archive") /\ \A p \in Places : QueuedAt(s, p) = IF p[1] = "archive" /\ ~Same("archive") THEN {F["archive"]} ELSE {}
    <3>1. CASE Same("archive")
      BY <1>1, <3>1, NoWrites
    <3>2. CASE ~Same("archive")
      <4>1. s = << Write("archive", "main", F["archive"]), Write("archive", "copy", F["archive"]) >>
        BY <1>4, <3>2 DEF ArchiveSaveFile
      <4> HIDE DEF s, Same
      <4> QED BY <1>1, <1>5, <3>2, <4>1, PairWrites, ZenonT(40)
    <3> QED BY <3>1, <3>2
  <2>2. /\ WritesOf(t, "backup") /\ \A p \in Places : QueuedAt(t, p) = IF p[1] = "backup" /\ ~Same("backup") THEN {F["backup"]} ELSE {}
    <3>1. CASE Same("backup")
      BY <1>1, <3>1, NoWrites
    <3>2. CASE ~Same("backup")
      <4>1. t = << Write("backup", "main", F["backup"]), Write("backup", "copy", F["backup"]) >>
        BY <1>4, <3>2 DEF BackupSaveFile
      <4> HIDE DEF t, Same
      <4> QED BY <1>1, <1>5, <3>2, <4>1, PairWrites
    <3> QED BY <3>1, <3>2
  <2> QED BY <2>1, <2>2
<1> HIDE DEF s, t, Same
<1>9. /\ s \o t \in Seq(Writes) /\ Orderly(s \o t)
      /\ \A i \in DOMAIN (s \o t) : (s \o t)[i].op = "write"
      /\ \A p : QueuedAt(s \o t, p) = QueuedAt(s, p) \cup QueuedAt(t, p)
  BY <1>8, BothWrites
<1>10. /\ n \in Stanzas /\ n.file = o.file /\ n.stored = o.stored /\ n.pg = o.pg /\ n.todo = s \o t
      /\ n.faults = o.faults /\ n.kills = o.kills /\ n.did = "upgrade"
  <2>1. s \o t \in Seq(Writes) /\ "upgrade" \in Dids
    BY <1>9 DEF Dids
  <2> QED BY <1>1, <1>3, <2>1, BeginIs, ZenonT(40)
<1>11. \A kind \in Kinds, part \in Parts :
         LET p == << kind, part >>
         IN  p \in Places /\ Queued(n, p) = (IF Same(kind) THEN {} ELSE {F[kind]}) /\ Now(n, p) = Now(o, p)
  <2>1. SUFFICES ASSUME NEW kind \in Kinds, NEW part \in Parts
                 PROVE  LET p == << kind, part >>
                        IN  p \in Places /\ Queued(n, p) = (IF Same(kind) THEN {} ELSE {F[kind]}) /\ Now(n, p) = Now(o, p)
    OBVIOUS
  <2> DEFINE p == << kind, part >>
  <2>2. p \in Places /\ p[1] = kind
    BY PlacesAre
  <2>3. Queued(n, p) = QueuedAt(s, p) \cup QueuedAt(t, p) /\ Now(n, p) = Now(o, p)
    BY <1>9, <1>10 DEF Queued, Now
  <2> QED BY <1>8, <2>2, <2>3 DEF Kinds
<1>12. \A kind \in Kinds : FinalPair(n, kind) = {F[kind]}
  <2>1. SUFFICES ASSUME NEW kind \in Kinds PROVE FinalPair(n, kind) = {F[kind]}
    OBVIOUS
  <2>2. CASE ~Same(kind)
    BY <1>1, <1>11, <2>2 DEF FinalPair, Final
  <2>3. CASE Same(kind)
    <3>1. PICK part \in Parts : Now(o, << kind, part >>) = {F[kind]} /\ (part = "copy" => Now(o, << kind, "main" >>) = {})
      <4>1. F[kind] = LoadPair(o, kind)
        BY <1>5, <2>3
      <4> QED BY <1>1, <1>2, <4>1, LoadedIs
    <3>2. \A x \in Parts : Final(n, << kind, x >>) = Now(o, << kind, x >>)
      BY <1>11, <2>3 DEF Final
    <3> QED BY <1>1, <3>1, <3>2 DEF FinalPair, Parts
  <2> QED BY <2>2, <2>3
<1>13. o.faults = 0 => /\ Now(o, << "backup", "main" >>) # {}
                       /\ Final(n, << "backup", "main" >>) # {}
  <2>1. o.faults = 0 => Now(o, << "backup", "main" >>) # {}
    BY <1>2, LoadedMain
  <2> QED BY <1>1, <1>11, <2>1 DEF Final
<1>14. \A kind \in Kinds : o.stored[kind] \subseteq {F[kind].pass}
  <2>1. \A kind \in Kinds : o.stored[kind] \subseteq {LoadPair(o, kind).pass}
    BY <1>2, LoadedBest
  <2> QED BY <1>5, <2>1
<1>15. \A kind \in Kinds, part \in Parts : (o.kills = 0 \/ part = "main") => Final(n, << kind, part >>) \subseteq {F[kind]}
  BY <1>7, <1>11 DEF Final
<1>16. Starts(o, n, F)
  <2>1. F["archive"].history = F["backup"].history /\ F["archive"].history[1].pg = o.pg
    BY <1>1, <1>5, <1>6
  <2>2. \A kind \in Kinds : F[kind] \in Files /\ F[kind].is = "ok" /\ Numbered(F[kind].history)
    BY <1>5
  <2>3. \A kind \in Kinds, part \in Parts : Queued(n, << kind, part >>) \subseteq {F[kind]}
    BY <1>11
  <2>4. Orderly(n.todo) /\ \A i \in DOMAIN n.todo : n.todo[i].op = "write"
    BY <1>9, <1>10
  <2> QED BY <1>7, <1>10, <1>12, <1>13, <1>14, <1>15, <2>1, <2>2, <2>3, <2>4 DEF Starts
<1> QED BY <1>16, StartsKeeps

\* A backup that ends writes backup.info.
LEMMA BackupKeeps ==
    ASSUME NEW o, StanzaInv(o), o.todo = << >>, NEW n \in BackupStanza(o)
    PROVE  StanzaInv(n)
<1> DEFINE info == LoadPair(o, "backup")
           F == [info EXCEPT !.n = @ + 1]
           m == BeginStanza(o, "backup", BackupSaveFile(F))
           st == [o.stored EXCEPT !["backup"] = @ \cup {info.pass}]
<1>1. o \in Stanzas /\ "archive" \in Kinds /\ "backup" \in Kinds /\ "main" \in Parts /\ "copy" \in Parts
  BY DEF StanzaInv, Kinds, Parts
<1>2. Loads(o, "archive") /\ Loads(o, "backup") /\ n = [m EXCEPT !.stored.backup = @ \cup {info.pass}]
  BY DEF BackupStanza
<1>3. /\ info \in Files /\ info.is = "ok" /\ info.history \in Seq(Entries) /\ Numbered(info.history)
      /\ o.stored["backup"] \subseteq {info.pass}
      /\ \A y \in Parts : \A g \in Now(o, << "backup", y >>) :
            /\ Behind(g, info) /\ g.pass = info.pass
            /\ o.kills = 0 \/ y = "main" => g = info
  BY <1>1, <1>2, LoadedBest
<1>4. PICK part \in Parts : /\ << "backup", part >> \in Places /\ Now(o, << "backup", part >>) = {info}
                            /\ part = "copy" => Now(o, << "backup", "main" >>) = {}
  BY <1>1, <1>2, LoadedIs
<1> HIDE DEF info
<1>5. /\ F \in Files /\ F.is = "ok" /\ F.history = info.history /\ F.pass = info.pass /\ F.n = info.n + 1
      /\ info.n \in Nat /\ info.pass \in Nat
  BY <1>3 DEF Files
<1> HIDE DEF F
<1> DEFINE t == << Write("backup", "main", F), Write("backup", "copy", F) >>
<1>6. WritesOf(t, "backup") /\ \A p \in Places : QueuedAt(t, p) = IF p[1] = "backup" THEN {F} ELSE {}
  BY <1>1, <1>5, PairWrites
<1>7. BackupSaveFile(F) = t
  BY DEF BackupSaveFile
<1> HIDE DEF t
<1>8. /\ m \in Stanzas /\ m.file = o.file /\ m.stored = o.stored /\ m.pg = o.pg /\ m.todo = t
      /\ m.faults = o.faults /\ m.kills = o.kills /\ m.did = "backup"
  <2>1. BackupSaveFile(F) \in Seq(Writes) /\ "backup" \in Dids
    BY <1>6, <1>7 DEF WritesOf, Dids
  <2> QED BY <1>1, <1>7, <2>1, BeginIs
<1> HIDE DEF m
<1>9. /\ st \in [Kinds -> SUBSET Nat] /\ st["backup"] = o.stored["backup"] \cup {info.pass}
      /\ st["archive"] = o.stored["archive"]
  BY <1>1, <1>5 DEF Stanzas
<1>10. n = [m EXCEPT !.stored = st]
  BY <1>1, <1>2, <1>8 DEF Stanzas
<1> HIDE DEF st
<1>11. /\ n \in Stanzas /\ n.file = o.file /\ n.stored = st /\ n.todo = t
       /\ n.faults = o.faults /\ n.kills = o.kills /\ n.did = "backup"
  BY <1>8, <1>9, <1>10 DEF Stanzas
<1>12. \A p \in Places : Queued(o, p) = {} /\ Alive(o, p) = Now(o, p) /\ Final(o, p) = Now(o, p)
  <2>1. \A p \in Places : Queued(o, p) = {}
    BY DEF Queued, QueuedAt
  <2> QED BY <2>1, AliveIs
<1>13. \A p \in Places : Now(n, p) = Now(o, p) /\ Queued(n, p) = IF p[1] = "backup" THEN {F} ELSE {}
  BY <1>6, <1>11 DEF Now, Queued
<1>14. \A p \in Places : /\ Alive(n, p) = IF p[1] = "backup" THEN Now(o, p) \cup {F} ELSE Now(o, p)
                         /\ Final(n, p) = IF p[1] = "backup" THEN {F} ELSE Now(o, p)
  BY <1>13 DEF Alive, Final
<1>15. \A kind \in Kinds, part_1 \in Parts :
          LET p == << kind, part_1 >>
          IN  /\ p \in Places /\ Now(n, p) = Now(o, p)
              /\ Alive(n, p) = IF kind = "backup" THEN Now(o, p) \cup {F} ELSE Now(o, p)
              /\ Final(n, p) = IF kind = "backup" THEN {F} ELSE Now(o, p)
  <2>1. \A kind \in Kinds, part_1 \in Parts : << kind, part_1 >> \in Places /\ << kind, part_1 >>[1] = kind
    BY PlacesAre
  <2> QED BY <1>13, <1>14, <2>1
<1>16. \A p \in Places : \A f \in Alive(n, p) : \E q \in Places : \E g \in Alive(o, q) : f.history = g.history /\ (f = g \/ f = F)
  <2>1. \A p \in Places : \A f \in Alive(n, p) : f \in Now(o, p) \/ f = F
    BY <1>14
  <2>2. info \in Alive(o, << "backup", part >>)
    BY <1>4, <1>12
  <2> QED BY <1>4, <1>5, <1>12, <2>1, <2>2
<1>17. HistoriesNumbered(n)
  BY <1>16 DEF StanzaInv, HistoriesNumbered
<1>18. OneHistory(n)
  <2>1. SUFFICES ASSUME NEW p \in Places, NEW q \in Places, NEW f \in Alive(n, p), NEW g \in Alive(n, q)
                 PROVE  Suffix(f.history, g.history) \/ Suffix(g.history, f.history)
    BY DEF OneHistory
  <2>2. PICK r \in Places : \E x \in Alive(o, r) : f.history = x.history
    BY <1>16
  <2>3. PICK x \in Alive(o, r) : f.history = x.history
    BY <2>2
  <2>4. PICK r_1 \in Places : \E y \in Alive(o, r_1) : g.history = y.history
    BY <1>16
  <2>5. PICK y \in Alive(o, r_1) : g.history = y.history
    BY <2>4
  <2> QED BY <2>3, <2>5 DEF StanzaInv, OneHistory
<1>19. OnePass(n)
  <2>1. ASSUME NEW kind \in Kinds
        PROVE  \E x \in Nat : n.stored[kind] \subseteq {x} /\ \A y \in Parts : \A f \in Alive(n, << kind, y >>) : f.pass = x
    <3>1. CASE kind = "archive"
      <4>1. PICK x \in Nat : o.stored[kind] \subseteq {x} /\ \A y \in Parts : \A f \in Alive(o, << kind, y >>) : f.pass = x
        BY DEF StanzaInv, OnePass
      <4>2. \A y \in Parts : Alive(n, << "archive", y >>) = Alive(o, << "archive", y >>)
        BY <1>1, <1>12, <1>15
      <4>3. n.stored["archive"] = o.stored["archive"]
        BY <1>9, <1>11
      <4> QED BY <3>1, <4>1, <4>2, <4>3
    <3>2. CASE kind = "backup"
      <4>1. n.stored["backup"] \subseteq {info.pass}
        BY <1>3, <1>9, <1>11
      <4>2. \A y \in Parts : \A f \in Alive(n, << "backup", y >>) : f \in Now(o, << "backup", y >>) \/ f = F
        BY <1>1, <1>15
      <4>3. \A y \in Parts : \A f \in Alive(n, << "backup", y >>) : f.pass = info.pass
        BY <1>3, <1>5, <4>2
      <4> QED BY <1>5, <3>2, <4>1, <4>3
    <3> QED BY <3>1, <3>2 DEF Kinds
  <2> QED BY <2>1 DEF OnePass
<1>20. Behind(info, F) /\ Behind(F, F) /\ \A f : Behind(f, info) => (f.n \in Nat => Behind(f, F))
  <2>1. Suffix(info.history, info.history)
    BY <1>3, SuffixFacts
  <2> QED BY <1>5, <2>1 DEF Behind
<1>21. \A y \in Parts : \A g \in Now(o, << "backup", y >>) : g.n \in Nat
  BY <1>1, PlacesAre DEF Now, Stanzas, Files
<1>22. CopyBehind(n)
  <2>1. SUFFICES ASSUME NEW kind \in Kinds
                 PROVE  /\ \A f \in Alive(n, << kind, "main" >>), g \in Now(n, << kind, "copy" >>) : Behind(g, f)
                        /\ \A f \in Final(n, << kind, "main" >>), g \in Final(n, << kind, "copy" >>) : Behind(g, f)
    BY DEF CopyBehind
  <2>2. \A f \in Now(o, << kind, "main" >>), g \in Now(o, << kind, "copy" >>) : Behind(g, f)
    BY <1>1, <1>12, <1>15 DEF StanzaInv, CopyBehind
  <2>3. CASE kind = "archive"
    BY <1>1, <1>15, <2>2, <2>3
  <2>4. CASE kind = "backup"
    BY <1>1, <1>3, <1>15, <1>20, <1>21, <2>2, <2>4, ZenonT(40)
  <2> QED BY <2>3, <2>4 DEF Kinds
<1>23. CopyEqual(n)
  <2>1. SUFFICES ASSUME n.kills = 0, NEW kind \in Kinds
                 PROVE  \A f \in Final(n, << kind, "main" >>), g \in Final(n, << kind, "copy" >>) : f = g
    BY DEF CopyEqual
  <2>2. CASE kind = "archive"
    <3>1. \A part_1 \in Parts : Final(n, << "archive", part_1 >>) = Final(o, << "archive", part_1 >>)
      BY <1>1, <1>12, <1>15
    <3>2. \A f \in Final(o, << kind, "main" >>), g \in Final(o, << kind, "copy" >>) : f = g
      BY <1>11, <2>1 DEF StanzaInv, CopyEqual
    <3> QED BY <1>1, <2>2, <3>1, <3>2
  <2>3. CASE kind = "backup"
    BY <1>1, <1>15, <2>3
  <2> QED BY <2>2, <2>3 DEF Kinds
<1>24. BackupBehind(n)
  <2>1. SUFFICES ASSUME NEW x \in Parts, NEW y \in Parts, o.kills = 0 \/ (o.faults = 0 /\ x = "main" /\ y = "main")
                 PROVE  /\ \A f \in Alive(n, << "archive", x >>), g \in Now(n, << "backup", y >>) : Near(f, g)
                        /\ \A f \in Final(n, << "archive", x >>), g \in Final(n, << "backup", y >>) : Near(f, g)
    BY <1>11 DEF BackupBehind
  <2>2. \A f \in Now(o, << "archive", x >>), g \in Now(o, << "backup", y >>) : Near(f, g)
    BY <1>1, <1>12, <1>15, <2>1 DEF StanzaInv, BackupBehind
  <2>3. ASSUME NEW f \in Now(o, << "archive", x >>) PROVE Near(f, info)
    <3>1. CASE part = y
      BY <1>4, <2>2, <2>3, <3>1
    <3>2. CASE part # y
      <4>1. o.kills = 0 => Near(f, info)
        <5>1. \A x_1 \in Parts, y_1 \in Parts : o.kills = 0 => \A f_1 \in Alive(o, << "archive", x_1 >>), g \in Now(o, << "backup", y_1 >>) : Near(f_1, g)
          BY DEF StanzaInv, BackupBehind
        <5> QED BY <1>1, <1>4, <1>12, <1>15, <2>3, <5>1
      <4>2. o.faults = 0 => Now(o, << "backup", "main" >>) # {}
        BY <1>2, LoadedMain
      <4> QED BY <1>4, <2>1, <3>2, <4>1, <4>2 DEF Parts
    <3> QED BY <3>1, <3>2
  <2> QED BY <1>1, <1>5, <1>15, <2>2, <2>3 DEF Near
<1>25. MainLast(n)
  <2>1. SUFFICES ASSUME n.faults = 0, NEW x \in Parts, Alive(n, << "archive", x >>) # {}, Now(n, << "backup", "copy" >>) # {}
                 PROVE  Now(n, << "backup", "main" >>) # {}
    BY <1>1, <1>15 DEF MainLast
  <2> QED BY <1>1, <1>2, <1>11, <1>15, <2>1, LoadedMain
<1>26. Orderly(n.todo) /\ RemoveOrder(n) /\ Decided(n)
  <2>1. \A i \in DOMAIN n.todo : n.todo[i].op = "write"
    BY <1>6, <1>11 DEF WritesOf
  <2> QED BY <1>6, <1>11, <2>1 DEF WritesOf, RemoveOrder, RemovedAt, Decided
<1> QED BY <1>11, <1>17, <1>18, <1>19, <1>22, <1>23, <1>24, <1>25, <1>26 DEF StanzaInv

\* Two sequences of writes, one after the other, position by position.
LEMMA Joined ==
    ASSUME NEW s \in Seq(Writes), NEW t \in Seq(Writes)
    PROVE  /\ s \o t \in Seq(Writes) /\ Len(s) \in Nat
           /\ \A i \in DOMAIN (s \o t) : i \in Nat
           /\ \A i \in DOMAIN s : i <= Len(s) /\ i \in DOMAIN (s \o t) /\ (s \o t)[i] = s[i]
           /\ \A i \in DOMAIN t : i + Len(s) \in DOMAIN (s \o t) /\ (s \o t)[i + Len(s)] = t[i]
           /\ \A i \in DOMAIN (s \o t) : \/ i \in DOMAIN s /\ (s \o t)[i] = s[i]
                                         \/ i - Len(s) \in DOMAIN t /\ (s \o t)[i] = t[i - Len(s)] /\ i > Len(s)
<1> DEFINE u == s \o t
<1>1. u \in Seq(Writes) /\ Len(u) = Len(s) + Len(t) /\ Len(s) \in Nat /\ Len(t) \in Nat
  OBVIOUS
<1>2. \A i \in DOMAIN s : i <= Len(s) /\ i \in DOMAIN u /\ u[i] = s[i]
  BY <1>1
<1>3. \A i \in DOMAIN t : i + Len(s) \in DOMAIN u /\ u[i + Len(s)] = t[i]
  BY <1>1
<1>4. \A i \in DOMAIN u : i \in Nat
  BY <1>1
<1> QED BY <1>1, <1>2, <1>3, <1>4, QueuedBoth

\* Removals of one kind of info file.
RemovesOf(t, kind) ==
    t \in Seq(Writes) /\ \A i \in DOMAIN t : /\ t[i].op = "remove" /\ t[i].place[1] = kind /\ t[i].file = Missing
                                              /\ \A j \in DOMAIN t : i < j => Before(t[i].place, t[j].place)

\* The info files go first, when there is anything to remove.
LEMMA InfoRemoves ==
    ASSUME NEW o, NEW kind \in Kinds
    PROVE  LET t == DeleteInfo(o, kind)
           IN  /\ RemovesOf(t, kind)
               /\ t = << >> => o.stored[kind] = {} /\ \A x \in Parts : ~InfoExists(o, kind, x)
               /\ t # << >> => \A x \in Parts : RemovedAt(t, << kind, x >>)
<1> DEFINE t == DeleteInfo(o, kind)
           u == << RemoveInfo(kind, "main"), RemoveInfo(kind, "copy") >>
<1>1. t = << >> \/ t = u
  BY DEF DeleteInfo
<1>2. t = << >> => o.stored[kind] = {} /\ \A x \in Parts : ~InfoExists(o, kind, x)
  BY DEF DeleteInfo, Parts
<1>3. RemoveInfo(kind, "main") \in Writes /\ RemoveInfo(kind, "copy") \in Writes
  <2>1. << kind, "main" >> \in Places /\ << kind, "copy" >> \in Places /\ Missing \in Files
    BY PlacesAre DEF Parts, Missing, Files
  <2> QED BY <2>1 DEF RemoveInfo, Writes
<1>4. /\ u \in Seq(Writes) /\ DOMAIN u = 1..2
      /\ u[1].op = "remove" /\ u[1].place = << kind, "main" >> /\ u[1].file = Missing
      /\ u[2].op = "remove" /\ u[2].place = << kind, "copy" >> /\ u[2].file = Missing
  BY <1>3 DEF RemoveInfo
<1> HIDE DEF u, t
<1>5. RemovesOf(u, kind) /\ \A x \in Parts : RemovedAt(u, << kind, x >>)
  <2>1. \A i \in DOMAIN u : i = 1 \/ i = 2
    BY <1>4
  <2>2. Before(u[1].place, u[2].place)
    BY <1>4 DEF Before
  <2>3. RemovesOf(u, kind)
    <3>1. \A i \in DOMAIN u : u[i].op = "remove" /\ u[i].place[1] = kind /\ u[i].file = Missing
      BY <1>4, <2>1
    <3>2. ASSUME NEW i \in DOMAIN u, NEW j \in DOMAIN u, i < j
          PROVE  Before(u[i].place, u[j].place)
      <4>1. i = 1 /\ j = 2
        BY <2>1, <3>2
      <4> QED BY <2>2, <4>1
    <3> QED BY <1>4, <3>1, <3>2 DEF RemovesOf
  <2>4. 1 \in DOMAIN u /\ 2 \in DOMAIN u
    BY <1>4
  <2>5. RemovedAt(u, << kind, "main" >>) /\ RemovedAt(u, << kind, "copy" >>)
    BY <1>4, <2>4 DEF RemovedAt
  <2> QED BY <2>3, <2>5 DEF Parts
<1>6. RemovesOf(<< >>, kind)
  BY DEF RemovesOf
<1> QED BY <1>1, <1>2, <1>5, <1>6 DEF t

\* stanza-delete: the info files, then the paths and the stop file.
LEMMA DeleteKeeps ==
    ASSUME NEW o, StanzaInv(o), o.todo = << >>, NEW n \in DeleteStanza(o)
    PROVE  StanzaInv(n)
<1> DEFINE a == DeleteInfo(o, "archive")
           b == DeleteInfo(o, "backup")
           e == << RemovePath("archive"), RemovePath("backup"), RemoveStop >>
           s == a \o b
           t == s \o e
           Filled(kind) == DeleteInfo(o, kind) # << >> \/ o.stored[kind] # {}
           Todo == IF ~Filled("archive") /\ ~Filled("backup") THEN {<< >>, << RemoveStop >>} ELSE {t}
<1>1. o \in Stanzas /\ "archive" \in Kinds /\ "backup" \in Kinds /\ "main" \in Parts /\ "copy" \in Parts
  BY DEF StanzaInv, Kinds, Parts
<1>2. /\ \E u \in Todo : n = BeginStanza(o, "delete", u)
      /\ Filled("archive") \/ Filled("backup") => o.stop
  <2>1. CASE ~Filled("archive") /\ ~Filled("backup")
    BY <2>1 DEF DeleteStanza
  <2>2. CASE Filled("archive") \/ Filled("backup")
    BY <2>2 DEF DeleteStanza
  <2> QED BY <2>1, <2>2
<1>3. /\ RemovePath("archive") \in Writes /\ RemovePath("backup") \in Writes /\ RemoveStop \in Writes
  <2>1. << "archive", "main" >> \in Places /\ << "backup", "main" >> \in Places /\ Missing \in Files
    BY PlacesAre DEF Parts, Kinds, Missing, Files
  <2> QED BY <2>1 DEF RemovePath, RemoveStop, Writes
<1>4. /\ e \in Seq(Writes) /\ DOMAIN e = 1..3
      /\ e[1].op = "path" /\ e[1].place[1] = "archive" /\ e[2].op = "path" /\ e[2].place[1] = "backup" /\ e[3].op = "stop"
  BY <1>3 DEF RemovePath, RemoveStop
<1>5. \A kind \in Kinds :
         /\ RemovesOf(DeleteInfo(o, kind), kind)
         /\ DeleteInfo(o, kind) = << >> => o.stored[kind] = {} /\ \A x \in Parts : ~InfoExists(o, kind, x)
         /\ DeleteInfo(o, kind) # << >> => \A x \in Parts : RemovedAt(DeleteInfo(o, kind), << kind, x >>)
  BY InfoRemoves
<1>6. \A kind \in Kinds : Emptied(o, kind) \/ Filled(kind)
  BY <1>5 DEF Emptied, InfoExists
<1>7. /\ RemovesOf(a, "archive") /\ RemovesOf(b, "backup") /\ a \in Seq(Writes) /\ b \in Seq(Writes)
      /\ a = << >> => \A x \in Parts : ~InfoExists(o, "archive", x)
      /\ a # << >> => \A x \in Parts : RemovedAt(a, << "archive", x >>)
  BY <1>1, <1>5 DEF RemovesOf
<1> HIDE DEF a, b, e
<1>8. /\ s \in Seq(Writes)
      /\ \A i \in DOMAIN s : s[i].op = "remove" /\ s[i].file = Missing
      /\ \A i, j \in DOMAIN s : i < j => Before(s[i].place, s[j].place)
      /\ \A p : RemovedAt(a, p) => RemovedAt(s, p)
  <2>1. /\ s \in Seq(Writes) /\ Len(a) \in Nat
        /\ \A i \in DOMAIN s : i \in Nat
        /\ \A i \in DOMAIN a : i <= Len(a) /\ i \in DOMAIN s /\ s[i] = a[i]
        /\ \A i \in DOMAIN s : \/ i \in DOMAIN a /\ s[i] = a[i]
                               \/ i - Len(a) \in DOMAIN b /\ s[i] = b[i - Len(a)] /\ i > Len(a)
    BY <1>7, Joined
  <2> HIDE DEF s
  <2>2. \A i \in DOMAIN s : s[i].op = "remove" /\ s[i].file = Missing
    BY <1>7, <2>1 DEF RemovesOf
  <2>3. ASSUME NEW i \in DOMAIN s, NEW j \in DOMAIN s, i < j
        PROVE  Before(s[i].place, s[j].place)
    <3>1. CASE j \in DOMAIN a /\ s[j] = a[j]
      <4>1. i \in DOMAIN a /\ s[i] = a[i]
        BY <2>1, <2>3, <3>1
      <4> QED BY <1>7, <2>3, <3>1, <4>1 DEF RemovesOf
    <3>2. CASE j - Len(a) \in DOMAIN b /\ s[j] = b[j - Len(a)] /\ j > Len(a)
      <4>1. CASE i \in DOMAIN a /\ s[i] = a[i]
        BY <1>7, <3>2, <4>1 DEF RemovesOf, Before
      <4>2. CASE i - Len(a) \in DOMAIN b /\ s[i] = b[i - Len(a)] /\ i > Len(a)
        <5>1. i - Len(a) < j - Len(a)
          BY <2>1, <2>3
        <5> QED BY <1>7, <3>2, <4>2, <5>1 DEF RemovesOf
      <4> QED BY <2>1, <4>1, <4>2
    <3> QED BY <2>1, <3>1, <3>2
  <2>4. \A p : RemovedAt(a, p) => RemovedAt(s, p)
    BY <2>1 DEF RemovedAt
  <2> QED BY <2>1, <2>2, <2>3, <2>4
<1> HIDE DEF s
<1>9. /\ t \in Seq(Writes) /\ Orderly(t)
      /\ \A i \in DOMAIN t : t[i].op # "write"
      /\ \A p : RemovedAt(a, p) => RemovedAt(t, p)
      /\ PathAt(t, "archive") /\ PathAt(t, "backup")
  <2>1. /\ t \in Seq(Writes) /\ Len(s) \in Nat
        /\ \A i \in DOMAIN t : i \in Nat
        /\ \A i \in DOMAIN s : i <= Len(s) /\ i \in DOMAIN t /\ t[i] = s[i]
        /\ \A i \in DOMAIN e : i + Len(s) \in DOMAIN t /\ t[i + Len(s)] = e[i]
        /\ \A i \in DOMAIN t : \/ i \in DOMAIN s /\ t[i] = s[i]
                               \/ i - Len(s) \in DOMAIN e /\ t[i] = e[i - Len(s)] /\ i > Len(s)
    BY <1>4, <1>8, Joined
  <2> HIDE DEF t
  <2>2. \A i \in DOMAIN e : e[i].op \in {"path", "stop"} /\ (e[i].op = "stop" => i = 3) /\ i <= 3
    <3>1. \A i \in DOMAIN e : i = 1 \/ i = 2 \/ i = 3
      BY <1>4
    <3> QED BY <1>4, <3>1
  <2>3. \A i \in DOMAIN t : t[i].op # "write" /\ (t[i].op = "remove" => t[i].file = Missing)
    BY <1>8, <2>1, <2>2
  <2>4. ASSUME NEW i \in DOMAIN t, NEW j \in DOMAIN t, i < j
        PROVE  /\ t[i].op # "stop"
               /\ t[j].op \in {"write", "remove"} => t[i].op = t[j].op /\ Before(t[i].place, t[j].place)
    <3>1. CASE j \in DOMAIN s /\ t[j] = s[j]
      <4>1. i \in DOMAIN s /\ t[i] = s[i]
        BY <2>1, <2>4, <3>1
      <4> QED BY <1>8, <2>4, <3>1, <4>1
    <3>2. CASE j - Len(s) \in DOMAIN e /\ t[j] = e[j - Len(s)] /\ j > Len(s)
      <4>1. CASE i \in DOMAIN s /\ t[i] = s[i]
        BY <1>8, <2>2, <3>2, <4>1
      <4>2. CASE i - Len(s) \in DOMAIN e /\ t[i] = e[i - Len(s)] /\ i > Len(s)
        <5>1. j - Len(s) <= 3 /\ i - Len(s) # 3
          BY <2>1, <2>2, <2>4, <3>2
        <5> QED BY <2>2, <3>2, <4>2, <5>1
      <4> QED BY <2>1, <4>1, <4>2
    <3> QED BY <2>1, <3>1, <3>2
  <2>5. Orderly(t)
    BY <2>3, <2>4 DEF Orderly
  <2>6. \A p : RemovedAt(a, p) => RemovedAt(t, p)
    BY <1>8, <2>1, SMTT(30) DEF RemovedAt
  <2>7. PathAt(t, "archive") /\ PathAt(t, "backup")
    <3>1. 1 \in DOMAIN e /\ 2 \in DOMAIN e
      BY <1>4
    <3>2. /\ 1 + Len(s) \in DOMAIN t /\ t[1 + Len(s)] = e[1]
          /\ 2 + Len(s) \in DOMAIN t /\ t[2 + Len(s)] = e[2]
      BY <2>1, <3>1
    <3> QED BY <1>4, <3>2 DEF PathAt
  <2> QED BY <2>1, <2>3, <2>5, <2>6, <2>7
<1> HIDE DEF t
<1>10. PICK u \in Todo : n = BeginStanza(o, "delete", u)
  BY <1>2
<1>11. /\ u \in Seq(Writes) /\ Orderly(u) /\ \A i \in DOMAIN u : u[i].op # "write"
       /\ \A kind \in Kinds : Emptied(o, kind) \/ PathAt(u, kind)
       /\ RemovedAt(u, << "backup", "main" >>) => \A x \in Parts : Now(o, << "archive", x >>) = {} \/ RemovedAt(u, << "archive", x >>)
  <2>1. CASE ~Filled("archive") /\ ~Filled("backup")
    <3>1. u = << >> \/ u = << RemoveStop >>
      BY <1>10, <2>1
    <3>2. /\ u \in Seq(Writes) /\ \A i \in DOMAIN u : i = 1 /\ u[i] = RemoveStop
      <4>1. CASE u = << >>
        BY <4>1
      <4>2. CASE u = << RemoveStop >>
        <5>1. DOMAIN u = 1..1 /\ u[1] = RemoveStop
          BY <4>2
        <5>2. << RemoveStop >> \in Seq(Writes)
          BY <1>3
        <5> QED BY <4>2, <5>1, <5>2
      <4> QED BY <3>1, <4>1, <4>2
    <3>3. RemoveStop.op = "stop"
      BY DEF RemoveStop
    <3>4. Orderly(u)
      BY <3>2, <3>3 DEF Orderly
    <3>5. \A kind \in Kinds : Emptied(o, kind)
      BY <1>6, <2>1 DEF Kinds
    <3> QED BY <3>2, <3>3, <3>4, <3>5 DEF RemovedAt
  <2>2. CASE Filled("archive") \/ Filled("backup")
    <3>1. u = t
      BY <1>10, <2>2
    <3>2. ASSUME NEW x \in Parts PROVE Now(o, << "archive", x >>) = {} \/ RemovedAt(t, << "archive", x >>)
      BY <1>7, <1>9 DEF Now, InfoExists
    <3> QED BY <1>9, <3>1, <3>2 DEF Kinds
  <2> QED BY <2>1, <2>2
<1> HIDE DEF Todo
<1>12. /\ n \in Stanzas /\ n.file = o.file /\ n.stored = o.stored /\ n.stop = o.stop /\ n.todo = u
       /\ n.faults = o.faults /\ n.kills = o.kills /\ n.did = "delete"
  <2>1. "delete" \in Dids
    BY DEF Dids
  <2> QED BY <1>1, <1>10, <1>11, <2>1, BeginIs
<1>13. \A p \in Places : Queued(o, p) = {} /\ Queued(n, p) = {} /\ Now(n, p) = Now(o, p)
  BY <1>11, <1>12 DEF Queued, QueuedAt, Now
<1>14. \A p \in Places : /\ Alive(n, p) = Now(o, p) /\ Final(n, p) = Now(o, p) /\ Alive(o, p) = Now(o, p) /\ Final(o, p) = Now(o, p)
  BY <1>13, AliveIs
<1>15. Consistent(n)
  <2>1. Shrinks(o, n)
    BY <1>12, <1>13, <1>14 DEF Shrinks
  <2> QED BY <2>1, ShrinksKeeps DEF StanzaInv, Consistent
<1>16. MainLast(n)
  <2>1. \A x \in Parts : << "archive", x >> \in Places /\ << "backup", x >> \in Places
    BY <1>1, PlacesAre
  <2> QED BY <1>1, <1>12, <1>13, <1>14, <2>1 DEF StanzaInv, MainLast
<1>17. RemoveOrder(n)
  <2>1. \A x \in Parts : Now(n, << "archive", x >>) = Now(o, << "archive", x >>)
    BY <1>12 DEF Now
  <2> QED BY <1>11, <1>12, <2>1 DEF RemoveOrder
<1>18. Decided(n)
  <2>1. \A kind \in Kinds : Emptied(n, kind) <=> Emptied(o, kind)
    BY <1>12 DEF Emptied
  <2>2. n.stop \/ \A kind \in Kinds : Emptied(o, kind)
    BY <1>2, <1>6, <1>12 DEF Kinds
  <2> QED BY <1>11, <1>12, <2>1, <2>2 DEF Decided
<1> QED BY <1>11, <1>12, <1>15, <1>16, <1>17, <1>18 DEF StanzaInv, Consistent

-----------------------------------------------------------------------------
\* A repository with nothing in it.
LEMMA NewKeeps ==
    ASSUME NEW pg \in Clusters
    PROVE  StanzaInv(NewRepository(pg))
<1> DEFINE o == NewRepository(pg)
<1>1. /\ o.todo = << >> /\ o.kills = 0 /\ o.faults = 0 /\ o.did = "new"
      /\ o.stored = [archive |-> {}, backup |-> {}]
      /\ \A p \in Places : o.file[p] = Missing
  BY DEF NewRepository
<1>2. o \in Stanzas
  <2>1. Missing \in Files
    BY DEF Missing, Files
  <2>2. [archive |-> {}, backup |-> {}] \in [Kinds -> SUBSET Nat] /\ [p \in Places |-> Missing] \in [Places -> Files]
    BY <2>1 DEF Kinds
  <2> QED BY <2>2 DEF NewRepository, Stanzas, Dids
<1>3. \A kind \in Kinds : o.stored[kind] = {} /\ \A part \in Parts : << kind, part >> \in Places
  BY <1>1, PlacesAre DEF Kinds
<1> HIDE DEF o
<1>4. \A p \in Places : Queued(o, p) = {} /\ Now(o, p) = {} /\ Alive(o, p) = {} /\ Final(o, p) = {}
  <2>1. \A p \in Places : Queued(o, p) = {} /\ Now(o, p) = {}
    BY <1>1 DEF Queued, QueuedAt, Now, Missing
  <2> QED BY <2>1, AliveIs
<1>5. HistoriesNumbered(o) /\ OneHistory(o)
  BY <1>4 DEF HistoriesNumbered, OneHistory
<1>6. OnePass(o)
  <2>1. 0 \in Nat
    OBVIOUS
  <2> QED BY <1>3, <1>4, <2>1 DEF OnePass
<1>7. CopyBehind(o) /\ CopyEqual(o) /\ BackupBehind(o) /\ MainLast(o)
  <2>1. "main" \in Parts /\ "copy" \in Parts /\ "archive" \in Kinds /\ "backup" \in Kinds
    BY DEF Parts, Kinds
  <2> QED BY <1>3, <1>4, <2>1 DEF CopyBehind, CopyEqual, BackupBehind, MainLast
<1>8. Orderly(o.todo) /\ RemoveOrder(o) /\ Decided(o)
  BY <1>1 DEF Orderly, RemoveOrder, RemovedAt, Decided
<1> QED BY <1>2, <1>5, <1>6, <1>7, <1>8 DEF StanzaInv, o

\* cmdStanzaCreate() on any repository.
LEMMA CreateKeeps ==
    ASSUME NEW o, StanzaInv(o), o.todo = << >>, NEW n \in Create(o)
    PROVE  StanzaInv(n)
<1> DEFINE There(kind) == InfoExists(o, kind, "main") \/ InfoExists(o, kind, "copy")
<1>1. CASE ~There("archive") /\ ~There("backup")
  <2>1. NothingStored(o) /\ n = [BeginStanza(o, "create", ArchiveSaveFile(NewInfo(o, 1)) \o BackupSaveFile(NewInfo(o, 2))) EXCEPT !.passes = @ + 2]
    BY <1>1 DEF Create
  <2>2. \A kind \in Kinds, part \in Parts : ~InfoExists(o, kind, part)
    BY <1>1 DEF Kinds, Parts
  <2> QED BY <2>1, <2>2, CreateNewKeeps
<1>2. CASE There("archive") \/ There("backup")
  <2>1. /\ There("archive") /\ There("backup") /\ InfoFitsPg(o, o.pg)
        /\ n = BeginStanza(o, "create", CopyOf(o, "archive") \o CopyOf(o, "backup"))
    BY <1>2 DEF Create
  <2>2. \A kind \in Kinds : InfoExists(o, kind, "main") \/ InfoExists(o, kind, "copy")
    BY <2>1 DEF Kinds
  <2> QED BY <2>1, <2>2, CreateCopyKeeps
<1> QED BY <1>1, <1>2

\* The next write of a command, whatever it is.
LEMMA StepKeeps ==
    ASSUME NEW o, StanzaInv(o), o.todo # << >>
    PROVE  StanzaInv(StanzaStep(o))
BY WriteKeeps, RemovalKeeps

\* A step that works on the stanza there is.
Works ==
    \E n : /\ StanzaInv(n)
           /\ call' = [call EXCEPT !.obj = n]

\* A step that keeps the invariant of the stanza keeps it for the call.
LEMMA WorksKeep == call = Made("stanza", call.obj) /\ Works => call' = Made("stanza", call'.obj) /\ StanzaInv(call'.obj)
<1> SUFFICES ASSUME call = Made("stanza", call.obj), Works
             PROVE  call' = Made("stanza", call'.obj) /\ StanzaInv(call'.obj)
  OBVIOUS
<1>1. PICK n : StanzaInv(n) /\ call' = [call EXCEPT !.obj = n]
  BY DEF Works
<1>2. call' = Made("stanza", n)
  BY <1>1 DEF Made
<1>3. call'.obj = n
  BY <1>2 DEF Made
<1> QED BY <1>1, <1>2, <1>3

\* Other calls are about something else.
OtherCall ==
    \/ IniCall \/ InfoFileCall \/ InfoLoadCall \/ RowCall \/ ReconstructCall \/ SizeCall \/ AnnotationCall \/ AnnotateCall
    \/ ArchiveIdCall \/ CheckCall \/ PgValidateCall \/ ReportCall

\* They do not return a stanza.
LEMMA OtherCalls == OtherCall => ~Returns("stanza")'
<1> DEFINE Other == \E op, a, result : op # "stanza" /\ call' = Called(op, a, result)
<1>1. Other => ~Returns("stanza")'
  BY DEF Called, Returns
<1> USE "ini" # "stanza", "infofile" # "stanza", "infoload" # "stanza", "row" # "stanza", "reconstruct" # "stanza",
        "sizes" # "stanza", "annotation" # "stanza", "annotaterepos" # "stanza", "archiveid" # "stanza",
        "check" # "stanza", "pgvalidate" # "stanza", "report" # "stanza"
<1>2. IniCall => Other
  BY DEF IniCall
<1>3. InfoFileCall => Other
  BY DEF InfoFileCall
<1>4. InfoLoadCall => Other
  BY DEF InfoLoadCall
<1>5. RowCall => Other
  BY DEF RowCall
<1>6. ReconstructCall => Other
  BY DEF ReconstructCall
<1>7. SizeCall => Other
  BY DEF SizeCall
<1>8. AnnotationCall => Other
  BY DEF AnnotationCall
<1>9. AnnotateCall => Other
  BY DEF AnnotateCall
<1>10. ArchiveIdCall => Other
  BY DEF ArchiveIdCall
<1>11. CheckCall => Other
  BY DEF CheckCall
<1>12. PgValidateCall => Other
  BY DEF PgValidateCall
<1>13. ReportCall => Other
  BY DEF ReportCall
<1> QED BY <1>1, <1>2, <1>3, <1>4, <1>5, <1>6, <1>7, <1>8, <1>9, <1>10, <1>11, <1>12, <1>13 DEF OtherCall

\* No stanza is made yet.
LEMMA StanzaInit == NoCall => StanzaIInv
BY DEF NoCall, StanzaIInv, Returns, None

\* Every step keeps the invariant.
LEMMA StanzaStepKeeps == StanzaIInv /\ [StanzaNext]_call => StanzaIInv'
<1> SUFFICES ASSUME StanzaIInv, [StanzaNext]_call, Returns("stanza")'
             PROVE  call' = Made("stanza", call'.obj) /\ StanzaInv(call'.obj)
  BY DEF StanzaIInv
<1>1. ASSUME Returns("stanza")
      PROVE  call = Made("stanza", call.obj) /\ StanzaInv(call.obj)
  BY <1>1 DEF StanzaIInv
<1>2. ASSUME Returns("stanza"), Works
      PROVE  call' = Made("stanza", call'.obj) /\ StanzaInv(call'.obj)
  BY <1>1, <1>2, WorksKeep
<1>3. CASE StanzaNew
  <2>1. PICK pg \in Clusters : call' = Made("stanza", NewRepository(pg))
    BY <1>3 DEF StanzaNew
  <2>2. call'.obj = NewRepository(pg)
    BY <2>1 DEF Made
  <2> QED BY <2>1, <2>2, NewKeeps
<1>4. CASE StanzaCreate
  <2>1. Returns("stanza") /\ Works
    BY <1>1, <1>4, CreateKeeps DEF StanzaCreate, Idle, Becomes, Become, Works
  <2> QED BY <1>2, <2>1
<1>5. CASE StanzaUpgrade
  <2>1. Returns("stanza") /\ Works
    BY <1>1, <1>5, UpgradeKeeps DEF StanzaUpgrade, Idle, Becomes, Become, Works
  <2> QED BY <1>2, <2>1
<1>6. CASE StanzaDelete
  <2>1. Returns("stanza") /\ Works
    BY <1>1, <1>6, DeleteKeeps DEF StanzaDelete, Idle, Becomes, Become, Works
  <2> QED BY <1>2, <2>1
<1>7. CASE StanzaBackup
  <2>1. Returns("stanza") /\ Works
    BY <1>1, <1>7, BackupKeeps DEF StanzaBackup, Idle, Becomes, Become, Works
  <2> QED BY <1>2, <2>1
<1>8. CASE StanzaStop
  <2>1. Returns("stanza") /\ call.obj.todo = << >>
    BY <1>8 DEF StanzaStop, Idle
  <2>2. PICK stop \in BOOLEAN : call' = [call EXCEPT !.obj = [call.obj EXCEPT !.stop = stop]]
    BY <1>8 DEF StanzaStop, Become
  <2>3. StanzaInv([call.obj EXCEPT !.stop = stop])
    BY <1>1, <2>1, StopKeeps
  <2>4. Works
    BY <2>2, <2>3 DEF Works
  <2> QED BY <1>2, <2>1, <2>4
<1>9. CASE StanzaCluster
  <2>1. Returns("stanza") /\ call.obj.todo = << >>
    BY <1>9 DEF StanzaCluster, Idle
  <2>2. PICK pg \in Clusters : call' = [call EXCEPT !.obj = [call.obj EXCEPT !.pg = pg, !.did = "cluster"]]
    BY <1>9 DEF StanzaCluster, Become
  <2>3. StanzaInv([call.obj EXCEPT !.pg = pg, !.did = "cluster"])
    BY <1>1, <2>1, ClusterKeeps
  <2>4. Works
    BY <2>2, <2>3 DEF Works
  <2> QED BY <1>2, <2>1, <2>4
<1>10. CASE StanzaPush
  <2>1. Returns("stanza") /\ Works
    BY <1>1, <1>10, PushKeeps DEF StanzaPush, Becomes, Become, Works
  <2> QED BY <1>2, <2>1
<1>11. CASE StanzaWrite
  <2>1. Returns("stanza") /\ Works
    BY <1>1, <1>11, StepKeeps DEF StanzaWrite, Become, Works
  <2> QED BY <1>2, <2>1
<1>12. CASE StanzaKill
  <2>1. Returns("stanza") /\ Works
    BY <1>1, <1>12, KillKeeps DEF StanzaKill, Becomes, Become, Works
  <2> QED BY <1>2, <2>1
<1>13. CASE StanzaDamage
  <2>1. Returns("stanza") /\ Works
    BY <1>1, <1>13, FaultKeeps DEF StanzaDamage, Becomes, Become, Works
  <2> QED BY <1>2, <2>1
<1>14. CASE UNCHANGED call
  BY <1>1, <1>14 DEF Returns
<1>15. ~OtherCall
  BY OtherCalls
<1>16. CASE StanzaNext
  BY <1>3, <1>4, <1>5, <1>6, <1>7, <1>8, <1>9, <1>10, <1>11, <1>12, <1>13, <1>15, <1>16 DEF StanzaNext, OtherCall
<1> QED BY <1>14, <1>16

\* What an ended command leaves, and what can be read at any time.
LEMMA KeptWhen ==
    ASSUME NEW o, StanzaInv(o)
    PROVE  LET ended == o.todo = << >>
               archive == LoadPair(o, "archive")
               backup == LoadPair(o, "backup")
           IN  /\ Loads(o, "archive") /\ Loads(o, "backup") /\ (o.kills = 0 \/ (o.faults = 0 /\ Mains(o))) =>
                     IsSuffix(backup.history, archive.history) /\ Len(archive.history) <= Len(backup.history) + 1
               /\ ended /\ o.did \in {"create", "upgrade"} => InfoFitsPg(o, o.pg)
               /\ ended /\ o.did = "create" => \A p \in Places : o.file[p].is # "missing"
               /\ ended /\ o.did = "delete" => ~Loads(o, "archive") /\ ~Loads(o, "backup") /\ NothingStored(o)
               /\ \A kind \in {"archive", "backup"} :
                     LET main == o.file[<< kind, "main" >>]
                         copy == o.file[<< kind, "copy" >>]
                     IN  /\ main.is = "ok" /\ copy.is = "ok" => IsSuffix(copy.history, main.history) /\ main.pass = copy.pass /\ copy.n <= main.n
                         /\ ended /\ o.kills = 0 /\ main.is = "ok" /\ copy.is = "ok" => main = copy
                         /\ Loads(o, kind) => o.stored[kind] \subseteq {LoadPair(o, kind).pass}
<1> DEFINE archive == LoadPair(o, "archive")
           backup == LoadPair(o, "backup")
<1>1. o \in Stanzas /\ "archive" \in Kinds /\ "backup" \in Kinds /\ "main" \in Parts /\ "copy" \in Parts
  BY DEF StanzaInv, Kinds, Parts
<1>2. \A kind \in Kinds, x \in Parts : << kind, x >> \in Places /\ o.file[<< kind, x >>] \in Files
  BY <1>1, PlacesAre DEF Stanzas
<1>3. \A kind \in Kinds : Loads(o, kind) =>
         \E part \in Parts : /\ LoadPair(o, kind) = o.file[<< kind, part >>] /\ LoadPair(o, kind) \in Files
                             /\ Now(o, << kind, part >>) = {LoadPair(o, kind)}
                             /\ part = "copy" => Now(o, << kind, "main" >>) = {}
  BY <1>1, LoadedIs
<1>4. \A p \in Places : \A f \in Now(o, p) : f \in Alive(o, p)
  BY AliveIs
<1>5. o.todo = << >> => \A p \in Places : Queued(o, p) = {} /\ Final(o, p) = Now(o, p)
  <2>1. o.todo = << >> => \A p \in Places : Queued(o, p) = {}
    BY DEF Queued, QueuedAt
  <2> QED BY <2>1, AliveIs
<1>6. ASSUME Loads(o, "archive"), Loads(o, "backup"), o.kills = 0 \/ (o.faults = 0 /\ Mains(o))
      PROVE  IsSuffix(backup.history, archive.history) /\ Len(archive.history) <= Len(backup.history) + 1
  <2>1. PICK x \in Parts : archive \in Files /\ Now(o, << "archive", x >>) = {archive} /\ (x = "copy" => Now(o, << "archive", "main" >>) = {})
    BY <1>1, <1>3, <1>6
  <2>2. PICK y \in Parts : backup \in Files /\ Now(o, << "backup", y >>) = {backup} /\ (y = "copy" => Now(o, << "backup", "main" >>) = {})
    BY <1>1, <1>3, <1>6
  <2>3. o.kills = 0 \/ (o.faults = 0 /\ x = "main" /\ y = "main")
    <3>1. Mains(o) => Now(o, << "archive", "main" >>) # {} /\ Now(o, << "backup", "main" >>) # {}
      BY DEF Mains, Now
    <3> QED BY <1>6, <2>1, <2>2, <3>1 DEF Parts
  <2> HIDE DEF archive, backup
  <2>4. archive \in Alive(o, << "archive", x >>) /\ backup \in Alive(o, << "backup", y >>) /\ backup \in Now(o, << "backup", y >>)
    BY <1>1, <1>2, <1>4, <2>1, <2>2
  <2>5. Near(archive, backup)
    BY <2>3, <2>4 DEF StanzaInv, BackupBehind
  <2>6. Suffix(archive.history, backup.history) \/ Suffix(backup.history, archive.history)
    BY <1>1, <1>2, <2>4 DEF StanzaInv, OneHistory
  <2>7. archive.history \in Seq(Entries) /\ backup.history \in Seq(Entries)
    BY <2>1, <2>2 DEF Files
  <2>8. Suffix(backup.history, archive.history)
    <3>1. CASE Suffix(archive.history, backup.history)
      <4>1. Len(archive.history) = Len(backup.history)
        BY <2>5, <2>7, <3>1 DEF Near, Suffix
      <4>2. archive.history = backup.history
        BY <2>7, <3>1, <4>1, SuffixFacts
      <4> QED BY <3>1, <4>2
    <3> QED BY <2>6, <3>1
  <2> QED BY <2>5, <2>7, <2>8, SuffixSame DEF Near
<1>7. ASSUME o.todo = << >>, o.did \in {"create", "upgrade"}
      PROVE  InfoFitsPg(o, o.pg)
  <2>1. \A kind \in Kinds : FinalPair(o, kind) # {}
    BY <1>7 DEF StanzaInv, Decided
  <2>2. \A kind \in Kinds : FinalPair(o, kind) = IF Now(o, << kind, "main" >>) # {} THEN Now(o, << kind, "main" >>) ELSE Now(o, << kind, "copy" >>)
    BY <1>1, <1>2, <1>5, <1>7 DEF FinalPair
  <2>3. ASSUME NEW kind \in Kinds PROVE Loads(o, kind) /\ FinalPair(o, kind) = {LoadPair(o, kind)}
    <3>1. Loads(o, kind)
      <4>1. o.file[<< kind, "main" >>].is = "ok" \/ o.file[<< kind, "copy" >>].is = "ok"
        BY <2>1, <2>2 DEF Now
      <4> QED BY <1>1, <4>1, LoadPairIs DEF Loads
    <3>2. PICK part \in Parts : /\ Now(o, << kind, part >>) = {LoadPair(o, kind)}
                                /\ part = "copy" => Now(o, << kind, "main" >>) = {}
      BY <1>3, <3>1
    <3> QED BY <2>2, <3>1, <3>2 DEF Parts
  <2>4. archive.history[1] = backup.history[1] /\ archive.history[1].pg = o.pg
    BY <1>1, <1>7, <2>3 DEF StanzaInv, Decided
  <2> QED BY <1>1, <2>3, <2>4 DEF InfoFitsPg, InfoAgree, CurrentPg
<1>8. o.todo = << >> /\ o.did = "create" => \A p \in Places : o.file[p].is # "missing"
  BY <1>5 DEF StanzaInv, Decided
<1>9. ASSUME o.todo = << >>, o.did = "delete"
      PROVE  ~Loads(o, "archive") /\ ~Loads(o, "backup") /\ NothingStored(o)
  <2>1. \A kind \in Kinds : Emptied(o, kind)
    BY <1>9 DEF StanzaInv, Decided, PathAt
  <2>2. \A kind \in Kinds : LoadPair(o, kind) = Missing
    BY <1>1, <2>1, LoadPairIs DEF Emptied
  <2> QED BY <1>1, <2>1, <2>2 DEF Loads, Missing, Emptied, NothingStored
<1>10. ASSUME NEW kind \in Kinds
       PROVE  LET main == o.file[<< kind, "main" >>]
                  copy == o.file[<< kind, "copy" >>]
              IN  /\ main.is = "ok" /\ copy.is = "ok" => IsSuffix(copy.history, main.history) /\ main.pass = copy.pass /\ copy.n <= main.n
                  /\ o.todo = << >> /\ o.kills = 0 /\ main.is = "ok" /\ copy.is = "ok" => main = copy
                  /\ Loads(o, kind) => o.stored[kind] \subseteq {LoadPair(o, kind).pass}
  <2> DEFINE main == o.file[<< kind, "main" >>]
             copy == o.file[<< kind, "copy" >>]
  <2>1. << kind, "main" >> \in Places /\ << kind, "copy" >> \in Places /\ main \in Files /\ copy \in Files
    BY <1>1, <1>2
  <2>2. /\ main.is = "ok" => main \in Now(o, << kind, "main" >>)
        /\ copy.is = "ok" => copy \in Now(o, << kind, "copy" >>)
    BY DEF Now
  <2>3. PICK x \in Nat : o.stored[kind] \subseteq {x} /\ \A part \in Parts : \A f \in Alive(o, << kind, part >>) : f.pass = x
    BY DEF StanzaInv, OnePass
  <2> HIDE DEF main, copy
  <2>4. ASSUME main.is = "ok", copy.is = "ok"
        PROVE  /\ IsSuffix(copy.history, main.history) /\ main.pass = copy.pass /\ copy.n <= main.n
               /\ o.todo = << >> /\ o.kills = 0 => main = copy
    <3>1. main \in Alive(o, << kind, "main" >>) /\ copy \in Alive(o, << kind, "copy" >>)
      BY <1>4, <2>1, <2>2, <2>4
    <3>2. Behind(copy, main)
      BY <2>2, <2>4, <3>1 DEF StanzaInv, CopyBehind
    <3>3. main.pass = copy.pass
      BY <1>1, <2>3, <3>1
    <3>4. main.history \in Seq(Entries) /\ copy.history \in Seq(Entries)
      BY <2>1 DEF Files
    <3>5. o.todo = << >> /\ o.kills = 0 => main = copy
      BY <1>5, <2>1, <2>2, <2>4 DEF StanzaInv, CopyEqual
    <3> QED BY <3>2, <3>3, <3>4, <3>5, SuffixSame DEF Behind
  <2>5. Loads(o, kind) => o.stored[kind] \subseteq {LoadPair(o, kind).pass}
    <3>1. SUFFICES ASSUME Loads(o, kind) PROVE o.stored[kind] \subseteq {LoadPair(o, kind).pass}
      OBVIOUS
    <3>2. PICK part \in Parts : Now(o, << kind, part >>) = {LoadPair(o, kind)}
      BY <1>3, <3>1
    <3>3. LoadPair(o, kind) \in Alive(o, << kind, part >>)
      BY <1>2, <1>4, <3>2
    <3>4. LoadPair(o, kind).pass = x
      BY <2>3, <3>3
    <3> QED BY <2>3, <3>4
  <2> QED BY <2>4, <2>5 DEF main, copy
<1> QED BY <1>6, <1>7, <1>8, <1>9, <1>10 DEF Kinds

\* Whatever files of a stanza are lost or damaged and wherever commands are
\* killed: archive.info and backup.info have seen the same clusters but for
\* the last one, a command that ends leaves what it promises, a copy is never
\* ahead of its file, and all that is stored has the passphrase of the info
\* file.  This is for any clusters, upgrades, faults and kills.
THEOREM StanzaAlways == NoCall /\ [][StanzaNext]_call => []StanzaKept
<1>1. StanzaIInv => StanzaKept
  BY KeptWhen DEF StanzaIInv, StanzaKept
<1> QED BY <1>1, StanzaInit, StanzaStepKeeps, PTL
=============================================================================
