---------------------------- MODULE RestoreProof ----------------------------
(***************************************************************************)
(* Proofs about Restore for any entries, backups, options, workers and     *)
(* numbers of faults, and about RestorePlan for any options, repositories, *)
(* timelines, links, databases and bundles.                                *)
(***************************************************************************)
EXTENDS Restore, RestorePlan, SequenceTheorems, FiniteSetTheorems, WellFoundedInduction, TLAPS

Pcs == {"idle", "check", "control", "controlSync", "clean", "jobs", "recovery", "recoveryClose",
        "signal", "manifest", "sync", "rename", "globalSync"}

\* The clean is over; the files are there; the settings of PostgreSQL are.
Cleaned == {"jobs", "recovery", "recoveryClose", "signal", "manifest", "sync", "rename", "globalSync"}
Copied == Cleaned \ {"jobs"}
Configured == {"manifest", "sync", "rename", "globalSync"}

\* There is work only for workers, and a queue only for a command.
Phases ==
    /\ pc \in Pcs
    /\ pc # "jobs" => work = NoJobs
    /\ pc = "idle" => queue = << >>

TypeInv == TypeOK /\ Phases

\* From its removal to the rename pg_control is not there.
ControlAway ==
    pc \in {"controlSync", "clean"} \cup (Cleaned \ {"globalSync"}) => ~Exists(Control)

\* As long as pg_control is there nothing has changed.
Untouched == "host" \notin kind => (Exists(Control) => ent = whole)

\* What is not there has no time and no mark.
Solid == \A e \in Entry : /\ ent[e].ver = Absent => ent[e] = Nothing
                          /\ disk[e].ver = Absent => disk[e] = Nothing

\* A time tells the contents of a file, but for what was zeroed.
TellsTime(c, s, f) ==
    LET m == Backup[s].file[f]
    IN  c.ver # Absent /\ c.time = m.time /\ m.time < Backup[s].copyStart
            => c.ver \in {m.ver, Zero} /\ c.mark = m.mark
Timely == \A s \in Set : \A f \in Timed(s) : TellsTime(ent[f], s, f) /\ TellsTime(disk[f], s, f)

\* What the clean leaves.
Named == File \cup Manifest.path \cup Preserved \cup {AutoConf, Signal, SavedManifest, ControlTmp}
NoStray == \A x \in Entry \ Named : Dir[x] \in {PgData} \cup Manifest.path => ~Exists(x)
PathsThere == \A p \in Manifest.path : Exists(p) /\ ent[p].mark # "other"
Clear ==
    pc \in Cleaned =>
        /\ NoStray /\ PathsThere
        /\ Control \notin File => ~Exists(ControlTmp)
        /\ opt.type # "preserve" /\ pc \notin Configured => ~Exists(Signal)

\* Files that are still to be restored, and those that are.
Pending(f) ==
    \/ \E i \in DOMAIN queue : f \in Range(queue[i])
    \/ \E c \in Client : f \in Range(work[c].check) \cup Range(work[c].copy)
VerDone(f, c) ==
    \/ c.ver = IF f \in opt.zero THEN Zero ELSE Manifest.file[f].ver
    \/ opt.delta /\ opt.force /\ c.ver = Zero
Done(f, c) == VerDone(f, c) /\ c.mark = Manifest.file[f].mark
ControlDone(c) ==
    VerDone(Control, c) /\ c.mark = IF Manifest.online THEN "invalid" ELSE Manifest.file[Control].mark

\* pg_control is made anew.
TmpNew ==
    pc = "jobs" /\ Control \in File =>
        ent[ControlTmp] \in {Nothing, Made(Partial, Now, "none"), Content(Control)}

FilesDone ==
    /\ pc = "jobs" => \A f \in File \ {AutoConf} : Pending(f) \/ Done(f, ent[PgPath(f)])
    /\ pc \in Copied => \A f \in File \ {AutoConf, Control} : Done(f, ent[f])
    /\ pc \in Copied \ {"rename", "globalSync"} /\ Control \in File => Done(Control, ent[ControlTmp])
    /\ pc = "rename" /\ Control \in File => ControlDone(ent[ControlTmp])
    /\ pc = "globalSync" /\ Control \in File => ControlDone(ent[Control])

Settled ==
    /\ pc \in {"signal"} \cup Configured /\ opt.type # "preserve" => ent[AutoConf].mark = opt.type
    /\ pc \in Configured /\ opt.type # "preserve" => Exists(Signal) = (opt.type # "none")
    /\ pc \in {"sync", "rename", "globalSync"} => ~Exists(SavedManifest)
    /\ pc = "globalSync" => ~Exists(ControlTmp)

\* restore has the right to remove what it finds, or finds nothing.
Own == Exists(PgVersion) \/ Exists(SavedManifest)
Allowed ==
    /\ pc = "check" /\ Clean => Own
    /\ pc \in {"control", "controlSync", "clean"} => Own \/ (Invalid = {} /\ ~Exists(Control))
    /\ pc = "jobs" => Exists(SavedManifest)

\* A directory PostgreSQL can be started on, or runs in, has PG_VERSION for good.
Lasting == Exists(PgVersion) /\ disk[PgVersion].ver # Absent
OfPostgres ==
    /\ \A e \in {Control, Pid} : Exists(e) \/ disk[e].ver # Absent => Lasting
    /\ (pc = "sync" /\ PgData \notin sync) \/ pc \in {"rename", "globalSync"} => Lasting

\* Without PG_VERSION and backup.manifest no file has been touched.
NotBegun ==
    "host" \notin kind /\ ~Own => \A s \in Set : \A f \in DOMAIN Backup[s].file : ent[f] = whole[f]

\* What a crash of the host cannot change, and what nobody sees of what it can.
Fixed(x) == disk[x] = ent[x]
Hidden(x) == Dir[x] \in Path /\ ~Exists(Dir[x])
Steady(x) == Fixed(x) \/ Hidden(x)

\* pg_control is not there and does not come back.
Guarded == ~Exists(Control) /\ disk[Control].ver = Absent

\* Directories that are synced before the rename, and those that are by now.
ToSync == ({PgData} \cup Manifest.path) \ {Global}
InSync == IF pc = "sync" THEN ToSync \ sync ELSE ToSync

\* As long as only the host crashes: it brings pg_control back when nothing has
\* changed yet, and takes it away again when the rename was not synced.
OnlyCrashes == "kill" \notin kind /\ Ordered
CrashSafe ==
    OnlyCrashes =>
        /\ pc \in {"idle", "check", "control"} =>
              Guarded \/ (Exists(Control) /\ Seen(ent) = Seen(whole) /\ \A x \in Entry : Steady(x))
        /\ pc = "controlSync" =>
              /\ \A x \in Entry \ {Control} : Steady(x)
              /\ Seen([ent EXCEPT ![Control] = disk[Control]]) = Seen(whole)
        /\ pc \in {"clean"} \cup (Cleaned \ {"globalSync"}) => Guarded
        /\ pc \in {"sync", "rename"} => \A x \in Entry : Dir[x] \in InSync => Fixed(x)
        /\ pc = "globalSync" =>
              /\ ent = whole /\ disk[Control].ver = Absent
              /\ \A x \in Entry : Dir[x] # Global => Steady(x)

-----------------------------------------------------------------------------
(* Sequences.                                                               *)

LEMMA SubSeqRange ==
    ASSUME NEW S, NEW q \in Seq(S), NEW n \in 1..Len(q)
    PROVE  /\ SubSeq(q, 1, n) \in Seq(S) /\ SubSeq(q, n + 1, Len(q)) \in Seq(S)
           /\ Range(q) = Range(SubSeq(q, 1, n)) \cup Range(SubSeq(q, n + 1, Len(q)))
<1>1. Len(q) \in Nat /\ \A i \in 1..Len(q) : q[i] \in S
  BY LenProperties, ElementOfSeq
<1>2. SubSeq(q, 1, n) \in Seq(S)
  BY <1>1, SubSeqProperties
<1>3. SubSeq(q, n + 1, Len(q)) \in Seq(S)
  BY <1>1, SubSeqProperties
<1>4. SubSeq(q, 1, n) \o SubSeq(q, n + 1, Len(q)) = q
  BY <1>1, ConcatAdjacentSubSeq, SubSeqFull
<1>5. Range(SubSeq(q, 1, n) \o SubSeq(q, n + 1, Len(q)))
        = Range(SubSeq(q, 1, n)) \cup Range(SubSeq(q, n + 1, Len(q)))
  BY <1>2, <1>3, RangeConcatenation
<1> QED BY <1>2, <1>3, <1>4, <1>5

LEMMA OneRange ==
    ASSUME NEW S, NEW e \in S
    PROVE  << e >> \in Seq(S) /\ Range(<< e >>) = {e}
<1>1. << e >> \in Seq(S)
  OBVIOUS
<1>2. DOMAIN << e >> = {1} /\ << e >>[1] = e
  OBVIOUS
<1> QED BY <1>1, <1>2 DEF Range

LEMMA HeadTailRange ==
    ASSUME NEW S, NEW q \in Seq(S), q # << >>
    PROVE  /\ Head(q) \in S /\ Tail(q) \in Seq(S)
           /\ Range(q) = {Head(q)} \cup Range(Tail(q))
<1> DEFINE h == << Head(q) >>
<1>1. Head(q) \in S /\ Tail(q) \in Seq(S)
  BY HeadTailProperties
<1>2. Len(q) \in 1..Len(q)
  BY EmptySeq
<1>3. SubSeq(q, 1, Len(q)) = << q[1] >> \o SubSeq(q, 2, Len(q))
  BY <1>2, SubSeqRecursiveFirst
<1>4. q = h \o Tail(q)
  BY <1>3, SubSeqFull, TailIsSubSeq
<1>5. h \in Seq(S) /\ Range(h) = {Head(q)}
  BY <1>1, OneRange
<1> HIDE DEF h
<1>6. Range(h \o Tail(q)) = Range(h) \cup Range(Tail(q))
  BY <1>1, <1>5, RangeConcatenation, ZenonT(40)
<1> QED BY <1>1, <1>4, <1>5, <1>6

LEMMA AppendRange ==
    ASSUME NEW S, NEW q \in Seq(S), NEW e \in S
    PROVE  /\ Append(q, e) \in Seq(S) /\ Append(q, e) # << >>
           /\ Range(Append(q, e)) = Range(q) \cup {e}
<1>1. << e >> \in Seq(S) /\ Range(<< e >>) = {e}
  BY OneRange
<1>2. Append(q, e) = q \o << e >>
  BY AppendIsConcat
<1>3. Range(q \o << e >>) = Range(q) \cup Range(<< e >>)
  BY <1>1, RangeConcatenation, ZenonT(40)
<1> QED BY <1>1, <1>2, <1>3, AppendProperties

LEMMA EmptyRange == Range(<< >>) = {}
  BY DEF Range

\* Every element of a finite set is in the sequence of it.
LEMMA SetToSeqRange ==
    ASSUME NEW S, IsFiniteSet(S)
    PROVE  SetToSeq(S) \in Seq(S) /\ Range(SetToSeq(S)) = S
<1> DEFINE n == Cardinality(S)
           f == SetToSeq(S)
<1>1. n \in Nat /\ ExistsBijection(1..n, S)
  BY FS_CardinalityType
<1>2. \E g \in [1..n -> S] : IsInjective(g)
  BY <1>1 DEF ExistsBijection, Bijection, Injection
<1>3. f \in [1..n -> S] /\ IsInjective(f)
  BY <1>2 DEF SetToSeq
<1>4. f \in Injection(1..n, S)
  BY <1>3 DEF Injection
<1>5. Cardinality(1..n) = n
  BY <1>1, FS_Interval
<1>6. f \in Surjection(1..n, S)
  BY <1>4, <1>5, FS_Injection
<1>7. Range(f) = S
  BY <1>3, <1>6 DEF Range, Surjection
<1>8. f \in Seq(S)
  BY <1>1, <1>3, SeqDef
<1> QED BY <1>7, <1>8

-----------------------------------------------------------------------------
(* The backup, the queues and the contents.                                 *)

LEMMA TheBackup ==
    ASSUME opt \in OptionType
    PROVE  /\ opt.set \in Set /\ opt.set \in 1..Live /\ opt.type \in RecoveryType
           /\ opt.delta \in BOOLEAN /\ opt.force \in BOOLEAN
           /\ Global \in Manifest.path /\ Manifest.path \subseteq Path
           /\ PgVersion \in File /\ File \subseteq DOMAIN Manifest.file
           /\ File \subseteq Entry \ (Path \cup {ControlTmp, Signal, SavedManifest, Pid})
           /\ \A x \in File \cup Manifest.path : Dir[x] \in {PgData} \cup Manifest.path
           /\ Manifest.copyStart \in 0..Now /\ Manifest.online \in BOOLEAN
           /\ DOMAIN Manifest.file \subseteq Entry \ (Path \cup {ControlTmp, Signal, SavedManifest, Pid})
           /\ DOMAIN Manifest.file \ File \subseteq {AutoConf}
           /\ \A f \in DOMAIN Manifest.file :
                /\ Manifest.file[f].ver \in 1..Live
                /\ Manifest.file[f].time \in 0..Now
                /\ Manifest.file[f].mark \in RecoveryType
<1>1. opt.set \in Set /\ opt.type \in RecoveryType /\ opt.delta \in BOOLEAN /\ opt.force \in BOOLEAN
  BY DEF OptionType
<1>2. PgVersion \notin {AutoConf, Signal}
  BY DEF PgVersion, AutoConf, Signal
<1> QED BY <1>1, <1>2, BackupAssumption DEF Manifest, File, Preserved

LEMMA EntryContents ==
    /\ Now \in 0..Now /\ "none" \in RecoveryType
    /\ Nothing \in EntryType
    /\ \A v \in -2..Live, m \in RecoveryType : Made(v, Now, m) \in EntryType
    /\ \A c \in EntryType : /\ \A t \in 0..Now : [c EXCEPT !.time = t] \in EntryType
                            /\ \A k \in {"none", "invalid"} : [c EXCEPT !.mark = k] \in EntryType
<1>1. Now \in 0..Now /\ 0 \in 0..Now
  BY RestoreAssumption
<1>2. "none" \in RecoveryType
  BY DEF RecoveryType
<1>3. Nothing \in EntryType
  BY <1>1 DEF Nothing, EntryType, Absent, Live, RecoveryType
<1>4. \A v \in -2..Live, m \in RecoveryType : Made(v, Now, m) \in EntryType
  BY <1>1 DEF Made, EntryType
<1>5. ASSUME NEW c \in EntryType, NEW t \in 0..Now, NEW k \in {"none", "invalid"}
      PROVE  [c EXCEPT !.time = t] \in EntryType /\ [c EXCEPT !.mark = k] \in EntryType
  BY <1>2 DEF EntryType
<1> QED BY <1>1, <1>2, <1>3, <1>4, <1>5

LEMMA ContentType ==
    ASSUME opt \in OptionType, NEW f \in File
    PROVE  Content(f) \in EntryType /\ PgPath(f) \in Entry
<1>1. Manifest.file[f].ver \in 1..Live /\ Manifest.file[f].time \in 0..Now /\ Manifest.file[f].mark \in RecoveryType
  BY TheBackup
<1>2. Content(f) \in EntryType
  BY <1>1 DEF Content, Made, EntryType, Zero, Live
<1> QED BY <1>2, TheBackup, DirAssumption DEF PgPath

LEMMA OrdersRange ==
    ASSUME NEW s, NEW S, IsFiniteSet(S), NEW q \in Orders(s, S)
    PROVE  q \in Seq(S) /\ Range(q) = S
<1>1. Cardinality(S) \in Nat
  BY FS_CardinalityType
<1> QED BY <1>1, SeqDef DEF Orders

LEMMA FileFinite ==
    ASSUME opt \in OptionType
    PROVE  IsFiniteSet(File) /\ IsFiniteSet(Manifest.path \cap Links)
           /\ \A t : IsFiniteSet(FilesOf(opt.set, Preserved, t))
<1>1. File \subseteq Entry /\ Manifest.path \cap Links \subseteq Entry
  BY TheBackup, DirAssumption
<1>2. \A t : FilesOf(opt.set, Preserved, t) \subseteq Entry
  BY <1>1 DEF FilesOf, File, Manifest
<1> QED BY <1>1, <1>2, FS_Subset, DirAssumption

LEMMA TargetsRange ==
    ASSUME opt \in OptionType
    PROVE  /\ Targets(opt.set) \in Seq({PgData} \cup Links)
           /\ Range(Targets(opt.set)) = {PgData} \cup (Manifest.path \cap Links)
<1> DEFINE p == << PgData >>
           l == SetToSeq(Manifest.path \cap Links)
<1>1. p \in Seq({PgData} \cup Links) /\ Range(p) = {PgData}
  BY OneRange
<1>2. l \in Seq(Manifest.path \cap Links) /\ Range(l) = Manifest.path \cap Links
  BY FileFinite, SetToSeqRange
<1>3. l \in Seq({PgData} \cup Links)
  BY <1>2, SeqMonotonic
<1>4. Targets(opt.set) = p \o l
  BY DEF Targets, Manifest
<1> HIDE DEF p, l
<1>5. p \o l \in Seq({PgData} \cup Links)
  BY <1>1, <1>3, ConcatProperties
<1>6. Range(p \o l) = Range(p) \cup Range(l)
  BY <1>1, <1>3, RangeConcatenation
<1> QED BY <1>1, <1>2, <1>4, <1>5, <1>6

\* Every file of the backup gets into a queue, whatever order the sort gives it.
LEMMA QueuesHoldFiles ==
    ASSUME opt \in OptionType, NEW q \in ProcessQueues
    PROVE  q \in Seq(Seq(File)) /\ \A f \in File : \E i \in DOMAIN q : f \in Range(q[i])
<1> DEFINE n == Len(Targets(opt.set))
           t(i) == Targets(opt.set)[i]
           F(d) == FilesOf(opt.set, Preserved, d)
<1>1. n \in Nat /\ DOMAIN Targets(opt.set) = 1..n
  BY TargetsRange, LenProperties
<1>2. q \in Queues(opt.set, Preserved)
  <2>1. opt.set \in Set /\ Preserved \in {{}, {AutoConf, Signal}}
    BY TheBackup DEF Preserved
  <2> QED BY <2>1 DEF ProcessQueues, AllQueues
<1>3. q \in [1..n -> UNION {Orders(opt.set, F(d)) : d \in Range(Targets(opt.set))}]
      /\ \A i \in 1..n : q[i] \in Orders(opt.set, F(t(i)))
  BY <1>1, <1>2 DEF Queues
<1>4. \A i \in 1..n : q[i] \in Seq(F(t(i))) /\ Range(q[i]) = F(t(i))
  BY <1>3, FileFinite, OrdersRange
<1>5. q \in Seq(Seq(File))
  <2>1. \A d : F(d) \subseteq File
    BY DEF FilesOf, File, Manifest
  <2>2. \A i \in 1..n : q[i] \in Seq(File)
    BY <1>4, <2>1, SeqMonotonic
  <2>3. q \in [1..n -> Seq(File)]
    BY <1>3, <2>2
  <2> QED BY <1>1, <2>3, SeqDef
<1>6. ASSUME NEW f \in File PROVE \E i \in DOMAIN q : f \in Range(q[i])
  <2>1. PICK d \in Range(Targets(opt.set)) : f \in F(d)
    <3>1. CASE Dir[f] \in Links
      <4>1. Dir[f] \in Manifest.path
        BY <3>1, TheBackup, DirAssumption
      <4>2. Dir[f] \in Range(Targets(opt.set)) /\ f \in F(Dir[f])
        BY <3>1, <4>1, TargetsRange DEF FilesOf, File, Manifest
      <4> QED BY <4>2
    <3>2. CASE Dir[f] \notin Links
      <4>1. PgData \in Range(Targets(opt.set)) /\ f \in F(PgData)
        BY <3>2, TargetsRange DEF FilesOf, File, Manifest
      <4> QED BY <4>1
    <3> QED BY <3>1, <3>2
  <2>2. PICK i \in 1..n : d = t(i)
    BY <1>1 DEF Range
  <2> QED BY <1>3, <1>4, <2>1, <2>2
<1> QED BY <1>5, <1>6

-----------------------------------------------------------------------------
(* Type correctness.                                                        *)

LEMMA NoJobsType ==
    /\ NoJobs \in [Client -> [check : Seq(File), copy : Seq(File), open : BOOLEAN]]
    /\ \A c \in Client : ~NoJobs[c].open
    /\ << >> \in Seq(Seq(File))
<1>1. \A S : << >> \in Seq(S)
  BY EmptySeq
<1> QED BY <1>1 DEF NoJobs, NoWork

LEMMA InitTypeInv == Init => TypeInv
<1> SUFFICES ASSUME Init PROVE TypeInv
  OBVIOUS
<1>1. {ent, disk, whole} \subseteq [Entry -> EntryType]
  BY ClusterAssumption DEF Init
<1>2. NoOption \in OptionType
  BY RestoreAssumption DEF NoOption
<1>3. faults \in 0..MaxFault
  BY RestoreAssumption DEF Init
<1> QED BY <1>1, <1>2, <1>3, NoJobsType DEF Init, TypeInv, TypeOK, Phases, Pcs

\* The end of the command.
LEMMA EndType ==
    ASSUME TypeInv, End, {ent', disk', whole'} \subseteq [Entry -> EntryType],
           kind' = kind, faults' \in 0..MaxFault
    PROVE  TypeInv'
<1>1. NoOption \in OptionType
  BY RestoreAssumption DEF NoOption
<1>2. queue' = << >> /\ queue' \in Seq(Seq(File))'
  <2>1. \A S : << >> \in Seq(S)
    BY EmptySeq
  <2> QED BY <2>1 DEF End
<1>3. work' = NoJobs /\ work' \in [Client -> [check : Seq(File), copy : Seq(File), open : BOOLEAN]]'
      /\ \A c \in Client : ~work'[c].open
  <2>1. \A S : << >> \in Seq(S)
    BY EmptySeq
  <2> QED BY <2>1 DEF End, NoJobs, NoWork
<1> QED BY <1>1, <1>2, <1>3 DEF End, TypeInv, TypeOK, Phases, Pcs

\* A step of the command that leaves its options and the faults alone.
LEMMA StepType ==
    ASSUME TypeInv, {ent', disk', whole'} \subseteq [Entry -> EntryType],
           UNCHANGED << opt, Fault >>, pc' \in Pcs \ {"idle"},
           queue' \in Seq(Seq(File)),
           work' \in [Client -> [check : Seq(File), copy : Seq(File), open : BOOLEAN]],
           \A c \in Client : work'[c].open => work'[c].copy # << >>,
           pc' # "jobs" => work' = NoJobs,
           sync' \subseteq {PgData} \cup Path
    PROVE  TypeInv'
<1>1. File' = File
  BY DEF File, Manifest, Preserved
<1>2. TypeOK'
  BY <1>1 DEF TypeInv, TypeOK, Fault
<1> QED BY <1>2 DEF TypeInv, Phases

\* A change of the directory in a step that is not a worker's.
LEMMA PutType ==
    ASSUME TypeInv, UNCHANGED << Command, Fault >>, pc' \in Pcs \ {"idle"},
           pc \notin {"jobs", "idle"}, pc' # "jobs",
           {ent', disk', whole'} \subseteq [Entry -> EntryType]
    PROVE  TypeInv'
<1>1. work' = work /\ work = NoJobs /\ queue' = queue /\ sync' = sync
  BY DEF TypeInv, Phases, Command
<1>2. opt' = opt
  BY DEF Command
<1> QED BY <1>1, <1>2, StepType DEF TypeInv, TypeOK

LEMMA KeptType ==
    ASSUME TypeInv, ent' \in [Entry -> EntryType], NEW e \in Entry
    PROVE  Kept(e) \in [Entry -> EntryType]
  BY DEF TypeInv, TypeOK, Kept

LEMMA SyncedType ==
    ASSUME TypeInv, NEW d
    PROVE  Synced(d) \in [Entry -> EntryType]
  BY DEF TypeInv, TypeOK, Synced

LEMMA PutEntry ==
    ASSUME TypeInv, NEW e \in Entry, NEW c \in EntryType, Put(e, c)
    PROVE  ent' \in [Entry -> EntryType]
  BY DEF TypeInv, TypeOK, Put

\* What a crash of the host leaves.
LEMMA CrashLeaves ==
    ASSUME TypeInv, NEW c \in AfterCrash
    PROVE  \E r \in [Entry -> EntryType] :
              /\ c = WithPaths(r) /\ c \in [Entry -> EntryType]
              /\ \A x \in Entry : r[x] \in {ent[x], disk[x]} /\ c[x] \in {r[x], Nothing}
              /\ \A x \in Entry : Dir[x] = PgData => c[x] = r[x]
              /\ Ordered /\ Exists(Control) /\ r[Control] # disk[Control]
                    => \A x \in Entry : Dir[x] = Global => r[x] = ent[x]
<1> DEFINE lost == {e \in Entry : disk[e] # ent[e]}
           R(S) == [e \in Entry |-> IF e \in S THEN disk[e] ELSE ent[e]]
<1>1. ent \in [Entry -> EntryType] /\ disk \in [Entry -> EntryType] /\ Nothing \in EntryType /\ Control \in Entry
  BY EntryContents, DirAssumption DEF TypeInv, TypeOK
<1>2. PICK S \in SUBSET lost :
         /\ c = WithPaths(R(S))
         /\ Ordered /\ Exists(Control) /\ Control \in lost \ S => \A e \in S : Dir[e] # Global
  BY DEF AfterCrash
<1>3. R(S) \in [Entry -> EntryType] /\ \A x \in Entry : R(S)[x] = IF x \in S THEN disk[x] ELSE ent[x]
  BY <1>1
<1> DEFINE r == R(S)
<1> HIDE DEF R
<1>4. c \in [Entry -> EntryType]
      /\ \A x \in Entry : c[x] = IF Dir[x] \in Path \ Links /\ r[Dir[x]].ver = Absent THEN Nothing ELSE r[x]
  BY <1>1, <1>2, <1>3 DEF WithPaths
<1>5. PgData \notin Path
  BY DirAssumption
<1>6. Ordered /\ Exists(Control) /\ r[Control] # disk[Control] => \A x \in Entry : Dir[x] = Global => r[x] = ent[x]
  BY <1>1, <1>2, <1>3
<1> QED BY <1>2, <1>3, <1>4, <1>5, <1>6

LEMMA EnvironmentType ==
    ASSUME TypeInv, Abort \/ HostCrash \/ PgStart \/ PgStop
    PROVE  TypeInv'
<1>1. Made(1, Now, "none") \in EntryType /\ Made(Live, Now, "none") \in EntryType /\ Nothing \in EntryType
  BY EntryContents DEF Live
<1>2. CASE Abort
  <2>1. faults' \in 0..MaxFault
    BY <1>2, RestoreAssumption DEF Abort, TypeInv, TypeOK
  <2>2. {ent', disk', whole'} \subseteq [Entry -> EntryType]
    BY <1>2 DEF Abort, Directory, TypeInv, TypeOK
  <2> QED BY <1>2, <2>1, <2>2, EndType DEF Abort
<1>3. CASE HostCrash
  <2>1. faults' \in 0..MaxFault
    BY <1>3, RestoreAssumption DEF HostCrash, TypeInv, TypeOK
  <2>2. AfterCrash \subseteq [Entry -> EntryType]
    BY CrashLeaves
  <2>3. {ent', disk', whole'} \subseteq [Entry -> EntryType]
    BY <1>3, <2>2 DEF HostCrash, TypeInv, TypeOK
  <2> QED BY <1>3, <2>1, <2>3, EndType DEF HostCrash
<1>4. ASSUME {ent', disk', whole'} \subseteq [Entry -> EntryType], UNCHANGED << pc, Command, Fault >>
      PROVE  TypeInv'
  BY <1>4 DEF TypeInv, TypeOK, Phases, Command, Fault, File, Manifest, Preserved
<1>5. CASE PgStart
  <2>1. ent \in [Entry -> EntryType] /\ Control \in Entry /\ Pid \in Entry /\ Signal \in Entry
    BY DirAssumption DEF TypeInv, TypeOK
  <2> DEFINE a == [ent EXCEPT ![Pid] = Made(1, Now, "none")]
             b == [a EXCEPT ![Signal] = Nothing]
  <2>2. b \in [Entry -> EntryType]
    BY <1>1, <2>1
  <2>3. ent' = [b EXCEPT ![Control].mark = "none"]
    BY <1>5 DEF PgStart
  <2> HIDE DEF b
  <2>4. b[Control] \in EntryType
    BY <2>1, <2>2
  <2>5. [b[Control] EXCEPT !.mark = "none"] \in EntryType
    BY <2>4, EntryContents
  <2>6. ent' \in [Entry -> EntryType]
    BY <2>1, <2>2, <2>3, <2>5
  <2> QED BY <1>4, <1>5, <2>6 DEF PgStart
<1>6. CASE PgStop
  <2>1. ent' \in [Entry -> EntryType]
    BY <1>1, <1>6 DEF PgStop, TypeInv, TypeOK
  <2> QED BY <1>4, <1>6, <2>1 DEF PgStop
<1> QED BY <1>2, <1>3, <1>5, <1>6

LEMMA StartType ==
    ASSUME TypeInv, NEW o \in Options, RestoreStart(o)
    PROVE  TypeInv'
<1>1. DeltaOf(o) \in OptionType
  BY RestoreAssumption DEF DeltaOf, OptionType
<1>2. queue' = << >> /\ work' = NoJobs /\ sync' = sync /\ pc' = "check"
  BY DEF RestoreStart, TypeInv, Phases, At, Go
<1>3. work' \in [Client -> [check : Seq(File), copy : Seq(File), open : BOOLEAN]]'
  <2>1. \A S : << >> \in Seq(S)
    BY EmptySeq
  <2> QED BY <1>2, <2>1 DEF NoJobs, NoWork
<1>4. queue' \in Seq(Seq(File))'
  <2>1. \A S : << >> \in Seq(S)
    BY EmptySeq
  <2> QED BY <1>2, <2>1
<1>5. \A c \in Client : ~work'[c].open
  BY <1>2, NoJobsType
<1> QED BY <1>1, <1>2, <1>3, <1>4, <1>5 DEF RestoreStart, TypeInv, TypeOK, Phases, Pcs, Directory, Fault

\* The steps before and after those of the workers.
LEMMA CommandType ==
    ASSUME TypeInv, \/ PathNotEmpty \/ CleanCheck \/ ControlRemove \/ ControlSync \/ ControlMissing
                    \/ CleanRemove \/ CleanBuild \/ RecoveryOpen \/ RecoveryClose \/ RecoveryPreserve
                    \/ SignalWrite \/ ControlInvalidate \/ ControlRename \/ GlobalSync
    PROVE  TypeInv'
<1>1. /\ {ent, disk, whole} \subseteq [Entry -> EntryType] /\ faults \in 0..MaxFault
      /\ {Control, ControlTmp, AutoConf, Signal} \subseteq Entry
      /\ opt \in OptionType /\ opt.type \in RecoveryType
      /\ Nothing \in EntryType
      /\ Made(1, Now, "none") \in EntryType /\ Made(Partial, Now, "none") \in EntryType
  <2>1. 1 \in -2..Live /\ Partial \in -2..Live /\ "none" \in RecoveryType
    BY DEF Partial, Live, RecoveryType
  <2>2. Nothing \in EntryType /\ Made(1, Now, "none") \in EntryType /\ Made(Partial, Now, "none") \in EntryType
    BY <2>1, EntryContents
  <2> QED BY <2>2, TheBackup, DirAssumption DEF TypeInv, TypeOK
<1>2. CASE PathNotEmpty \/ GlobalSync
  <2>1. {ent', disk', whole'} \subseteq [Entry -> EntryType]
    BY <1>1, <1>2, SyncedType DEF PathNotEmpty, GlobalSync, Directory
  <2> QED BY <1>1, <1>2, <2>1, EndType DEF PathNotEmpty, GlobalSync, Fault
<1>3. CASE CleanCheck
  BY <1>1, <1>3, PutType DEF CleanCheck, Directory, Go, At, Pcs
<1>4. CASE ControlRemove
  <2>1. ent' \in [Entry -> EntryType]
    BY <1>1, <1>4, PutEntry DEF ControlRemove
  <2> QED BY <1>1, <1>4, <2>1, PutType DEF ControlRemove, Go, At, Pcs
<1>5. CASE ControlSync
  BY <1>1, <1>5, SyncedType, PutType DEF ControlSync, Go, At, Pcs
<1>6. CASE ControlMissing
  BY <1>1, <1>6, PutType DEF ControlMissing, Directory, Go, At, Pcs
<1>7. CASE CleanRemove
  <2>1. ent' \in [Entry -> EntryType]
    BY <1>1, <1>7 DEF CleanRemove
  <2> QED BY <1>1, <1>7, <2>1, PutType DEF CleanRemove, Go, At, Pcs
<1>8. CASE CleanBuild
  <2>1. ent' \in [Entry -> EntryType]
    BY <1>1, <1>8, PutEntry, TheBackup, DirAssumption DEF CleanBuild, Missing
  <2> QED BY <1>1, <1>8, <2>1, PutType DEF CleanBuild, Go, At, Pcs
<1>9. CASE RecoveryOpen
  <2>1. ent' \in [Entry -> EntryType]
    BY <1>1, <1>9, PutEntry DEF RecoveryOpen
  <2> QED BY <1>1, <1>9, <2>1, PutType DEF RecoveryOpen, Go, At, Pcs
<1>10. CASE RecoveryClose
  <2>1. AutoVer \in 1..Live
    BY <1>1, TheBackup DEF AutoVer, Live
  <2>2. Made(AutoVer, Now, opt.type) \in EntryType
    BY <1>1, <2>1, EntryContents DEF Live
  <2>3. ent' \in [Entry -> EntryType]
    BY <1>1, <1>10, <2>2, PutEntry DEF RecoveryClose
  <2>4. disk' \in [Entry -> EntryType]
    BY <1>1, <1>10, <2>3, KeptType DEF RecoveryClose
  <2> QED BY <1>1, <1>10, <2>3, <2>4, PutType DEF RecoveryClose, Go, At, Pcs
<1>11. CASE RecoveryPreserve
  BY <1>1, <1>11, PutType DEF RecoveryPreserve, Directory, Go, At, Pcs
<1>12. CASE SignalWrite
  <2>1. ent' \in [Entry -> EntryType]
    BY <1>1, <1>12, PutEntry DEF SignalWrite
  <2> QED BY <1>1, <1>12, <2>1, PutType DEF SignalWrite, Go, At, Pcs
<1>13. CASE ControlInvalidate
  <2>1. [ent[ControlTmp] EXCEPT !.mark = "invalid"] \in EntryType
    BY <1>1, EntryContents
  <2>2. ent' \in [Entry -> EntryType]
    BY <1>1, <1>13, <2>1, PutEntry DEF ControlInvalidate
  <2>3. disk' \in [Entry -> EntryType]
    BY <1>1, <1>13, <2>2, KeptType DEF ControlInvalidate
  <2> QED BY <1>1, <1>13, <2>2, <2>3, PutType DEF ControlInvalidate, Go, At, Pcs
<1>14. CASE ControlRename
  <2>1. ent' \in [Entry -> EntryType]
    BY <1>1, <1>14 DEF ControlRename
  <2> QED BY <1>1, <1>14, <2>1, PutType DEF ControlRename, Go, At, Pcs
<1> QED BY <1>2, <1>3, <1>4, <1>5, <1>6, <1>7, <1>8, <1>9, <1>10, <1>11, <1>12, <1>13, <1>14

LEMMA ManifestType ==
    ASSUME TypeInv, ManifestSave \/ ManifestRemove
    PROVE  TypeInv'
<1>1. /\ {ent, disk, whole} \subseteq [Entry -> EntryType] /\ SavedManifest \in Entry
      /\ opt \in OptionType /\ Nothing \in EntryType /\ queue \in Seq(Seq(File))
      /\ \A c \in Client : work[c].open => work[c].copy # << >>
  BY EntryContents, DirAssumption DEF TypeInv, TypeOK
<1>2. work = NoJobs /\ NoJobs \in [Client -> [check : Seq(File), copy : Seq(File), open : BOOLEAN]]
  BY NoJobsType DEF ManifestSave, ManifestRemove, TypeInv, Phases, At
<1>3. CASE ManifestSave
  <2>1. Made(opt.set, Now, "none") \in EntryType
    <3>1. opt.set \in 1..Live
      BY <1>1, TheBackup
    <3>2. opt.set \in -2..Live
      BY <3>1 DEF Live
    <3> QED BY <3>2, EntryContents
  <2>2. ent' \in [Entry -> EntryType]
    BY <1>1, <1>3, <2>1, PutEntry DEF ManifestSave
  <2>3. disk' \in [Entry -> EntryType]
    BY <1>1, <1>3, <2>2 DEF ManifestSave
  <2>4. queue' \in Seq(Seq(File))
    BY <1>1, <1>3, QueuesHoldFiles DEF ManifestSave
  <2>5. sync' \subseteq {PgData} \cup Path
    BY <1>3 DEF ManifestSave, TypeInv, TypeOK
  <2> QED BY <1>1, <1>2, <1>3, <2>2, <2>3, <2>4, <2>5, StepType DEF ManifestSave, Go, Pcs
<1>4. CASE ManifestRemove
  <2>1. ent' \in [Entry -> EntryType]
    BY <1>1, <1>4, PutEntry DEF ManifestRemove
  <2>2. sync' \subseteq {PgData} \cup Path
    BY <1>1, <1>4, TheBackup DEF ManifestRemove
  <2> QED BY <1>1, <1>2, <1>4, <2>1, <2>2, StepType DEF ManifestRemove, Go, Pcs
<1> QED BY <1>3, <1>4

LEMMA SyncType ==
    ASSUME TypeInv, PathSync \/ JobsDone
    PROVE  TypeInv'
<1>1. /\ {ent, disk, whole} \subseteq [Entry -> EntryType] /\ queue \in Seq(Seq(File))
      /\ sync \subseteq {PgData} \cup Path
      /\ work \in [Client -> [check : Seq(File), copy : Seq(File), open : BOOLEAN]]
      /\ \A c \in Client : work[c].open => work[c].copy # << >>
  BY DEF TypeInv, TypeOK
<1>2. CASE PathSync
  <2>1. disk' \in [Entry -> EntryType] /\ sync' \subseteq {PgData} \cup Path
    BY <1>1, <1>2, SyncedType DEF PathSync
  <2>2. work = NoJobs
    BY <1>2 DEF PathSync, At, TypeInv, Phases
  <2> QED BY <1>1, <1>2, <2>1, <2>2, StepType DEF PathSync, At, Pcs
<1>3. CASE JobsDone
  <2>1. work = NoJobs
    BY <1>1, <1>3 DEF JobsDone, Idle, NoJobs
  <2> QED BY <1>1, <1>3, <2>1, StepType DEF JobsDone, Go, Pcs, Directory, Command
<1> QED BY <1>2, <1>3

\* Any job of a worker that is not idle is one of the jobs of the command.
LEMMA Working ==
    ASSUME TypeInv, NEW c \in Client, work[c] # NoWork
    PROVE  pc = "jobs" /\ opt \in OptionType
  BY DEF TypeInv, TypeOK, Phases, NoJobs

LEMMA QueueScanIn ==
    ASSUME TypeInv, NEW c \in Client, NEW k \in DOMAIN queue
    PROVE  QueueScan(c, k) \in DOMAIN queue
<1>1. Len(queue) \in Nat /\ DOMAIN queue = 1..Len(queue)
  BY LenProperties DEF TypeInv, TypeOK
<1>2. Len(queue) > 0 /\ c \in Nat /\ k \in Nat
  BY <1>1, RestoreAssumption DEF Client
<1>3. \A i \in Int : i % Len(queue) \in 0..(Len(queue) - 1)
  BY <1>1, <1>2
<1> DEFINE n == Len(queue)
           x == IF c % 2 = 0 THEN (c % n) + k - 1 ELSE (c % n) + n - k + 1
<1>4. x \in Int
  <2>1. c % n \in Int
    BY <1>2, <1>3
  <2> QED BY <1>1, <1>2, <2>1
<1>5. QueueScan(c, k) = (x % n) + 1
  BY DEF QueueScan
<1>6. x % n \in 0..(n - 1)
  BY <1>3, <1>4
<1> HIDE DEF x
<1> QED BY <1>1, <1>5, <1>6

\* What a worker takes out of the queues.
LEMMA CallbackTakes ==
    ASSUME TypeInv, NEW c \in Client, JobCallback(c)
    PROVE  \E i \in DOMAIN queue : \E n \in Nat :
              /\ queue[i] \in Seq(File) /\ n \in 1..Len(queue[i])
              /\ work' = [work EXCEPT ![c].check = SubSeq(queue[i], 1, n)]
              /\ queue' = [queue EXCEPT ![i] = SubSeq(queue[i], n + 1, Len(queue[i]))]
<1>1. PICK k \in DOMAIN queue :
          \E n \in DOMAIN queue[QueueScan(c, k)] :
              /\ work' = [work EXCEPT ![c].check = SubSeq(queue[QueueScan(c, k)], 1, n)]
              /\ queue' = [queue EXCEPT ![QueueScan(c, k)] = SubSeq(@, n + 1, Len(@))]
  BY DEF JobCallback
<1>2. PICK i \in DOMAIN queue : i = QueueScan(c, k)
  BY QueueScanIn
<1>3. queue[i] \in Seq(File)
  BY <1>2, LenProperties, ElementOfSeq DEF TypeInv, TypeOK
<1>4. DOMAIN queue[i] = 1..Len(queue[i])
  BY <1>3, LenProperties
<1>5. PICK n \in DOMAIN queue[i] :
        /\ work' = [work EXCEPT ![c].check = SubSeq(queue[i], 1, n)]
        /\ queue' = [queue EXCEPT ![i] = SubSeq(queue[i], n + 1, Len(queue[i]))]
  BY <1>1, <1>2
<1>6. n \in Nat /\ n \in 1..Len(queue[i])
  BY <1>3, <1>4, <1>5, LenProperties
<1> QED BY <1>3, <1>5, <1>6

LEMMA CallbackType ==
    ASSUME TypeInv, NEW c \in Client, JobCallback(c)
    PROVE  TypeInv'
<1>1. PICK i \in DOMAIN queue, n \in Nat :
              /\ queue[i] \in Seq(File) /\ n \in 1..Len(queue[i])
              /\ work' = [work EXCEPT ![c].check = SubSeq(queue[i], 1, n)]
              /\ queue' = [queue EXCEPT ![i] = SubSeq(queue[i], n + 1, Len(queue[i]))]
  BY CallbackTakes
<1>2. SubSeq(queue[i], 1, n) \in Seq(File) /\ SubSeq(queue[i], n + 1, Len(queue[i])) \in Seq(File)
  BY <1>1, SubSeqRange
<1>3. queue' \in Seq(Seq(File))
  <2>1. queue \in Seq(Seq(File)) /\ i \in 1..Len(queue)
    BY LenProperties DEF TypeInv, TypeOK
  <2> QED BY <1>1, <1>2, <2>1, ExceptSeq
<1>4. /\ work \in [Client -> [check : Seq(File), copy : Seq(File), open : BOOLEAN]]
      /\ \A d \in Client : work[d].open => work[d].copy # << >>
  BY DEF TypeInv, TypeOK
<1>5. /\ work' \in [Client -> [check : Seq(File), copy : Seq(File), open : BOOLEAN]]
      /\ \A d \in Client : work'[d].open => work'[d].copy # << >>
  BY <1>1, <1>2, <1>4
<1> QED BY <1>3, <1>5, StepType DEF JobCallback, At, Directory, Fault, Pcs, TypeInv, TypeOK

\* A step of a worker changes its own job and the file that job is at.
LEMMA WorkerStep ==
    ASSUME TypeInv, NEW c \in Client, FileCheck(c) \/ FileOpen(c) \/ FileClose(c)
    PROVE  /\ pc = "jobs" /\ pc' = pc /\ UNCHANGED << whole, opt, queue, sync, Fault >>
           /\ opt \in OptionType
           /\ work[c].check \in Seq(File) /\ work[c].copy \in Seq(File)
           /\ \A d \in Client : work[d].open => work[d].copy # << >>
           /\ {ent, disk, whole} \subseteq [Entry -> EntryType]
           /\ work \in [Client -> [check : Seq(File), copy : Seq(File), open : BOOLEAN]]
<1>1. work[c] # NoWork
  BY DEF FileCheck, FileOpen, FileClose, Copying, NoWork
<1> QED BY <1>1, Working DEF TypeInv, TypeOK, FileCheck, FileOpen, FileClose

LEMMA CheckType ==
    ASSUME TypeInv, NEW c \in Client, FileCheck(c)
    PROVE  TypeInv'
<1> DEFINE f == Head(work[c].check)
           e == PgPath(f)
<1>1. f \in File /\ Tail(work[c].check) \in Seq(File)
  BY WorkerStep, HeadTailRange DEF FileCheck
<1>2. e \in Entry /\ Content(f) \in EntryType /\ Manifest.file[f].time \in 0..Now
  BY <1>1, WorkerStep, ContentType, TheBackup
<1>3. [ent[e] EXCEPT !.time = Manifest.file[f].time] \in EntryType
  <2>1. ent[e] \in EntryType
    BY <1>2, WorkerStep
  <2> QED BY <1>2, <2>1, EntryContents
<1>4. ent' \in [Entry -> EntryType]
  BY <1>2, <1>3, WorkerStep, PutEntry DEF FileCheck
<1>5. disk' \in [Entry -> EntryType]
  BY <1>2, <1>4, WorkerStep, KeptType DEF FileCheck
<1>6. Append(work[c].copy, f) \in Seq(File) /\ Append(work[c].copy, f) # << >>
  BY <1>1, WorkerStep, AppendRange
<1>7. \/ work' = [work EXCEPT ![c].check = Tail(work[c].check)]
      \/ work' = [work EXCEPT ![c].check = Tail(work[c].check), ![c].copy = Append(work[c].copy, f)]
  BY WorkerStep DEF FileCheck
<1>8. /\ work' \in [Client -> [check : Seq(File), copy : Seq(File), open : BOOLEAN]]
      /\ \A d \in Client : work'[d].open => work'[d].copy # << >>
  <2>1. /\ work \in [Client -> [check : Seq(File), copy : Seq(File), open : BOOLEAN]]
        /\ \A d \in Client : work[d].open => work[d].copy # << >>
    BY WorkerStep
  <2> HIDE DEF f, e
  <2>2. CASE work' = [work EXCEPT ![c].check = Tail(work[c].check)]
    BY <1>1, <2>1, <2>2
  <2>3. CASE work' = [work EXCEPT ![c].check = Tail(work[c].check), ![c].copy = Append(work[c].copy, f)]
    <3> DEFINE t == Tail(work[c].check)
               a == Append(work[c].copy, f)
    <3>1. t \in Seq(File) /\ a \in Seq(File) /\ a # << >>
      BY <1>1, <1>6
    <3>2. work' = [work EXCEPT ![c].check = t, ![c].copy = a]
      BY <2>3
    <3> HIDE DEF t, a
    <3> QED BY <2>1, <3>1, <3>2
  <2> QED BY <1>7, <2>2, <2>3
<1> QED BY <1>4, <1>5, <1>8, WorkerStep, StepType DEF Pcs, TypeInv, TypeOK

LEMMA OpenCloseType ==
    ASSUME TypeInv, NEW c \in Client, FileOpen(c) \/ FileClose(c)
    PROVE  TypeInv'
<1> DEFINE f == Head(work[c].copy)
           e == PgPath(f)
<1>1. f \in File /\ Tail(work[c].copy) \in Seq(File) /\ work[c].copy # << >>
  BY WorkerStep, HeadTailRange DEF FileOpen, FileClose, Copying
<1>2. e \in Entry /\ Content(f) \in EntryType /\ Made(Partial, Now, "none") \in EntryType
  <2>1. Partial \in -2..Live /\ "none" \in RecoveryType
    BY DEF Partial, Live, RecoveryType
  <2> QED BY <1>1, <2>1, WorkerStep, ContentType, EntryContents
<1>3. ent' \in [Entry -> EntryType]
  BY <1>2, PutEntry DEF FileOpen, FileClose
<1>4. disk' \in [Entry -> EntryType]
  BY <1>2, <1>3, WorkerStep, KeptType DEF FileOpen, FileClose
<1>5. \/ work' = [work EXCEPT ![c].open = TRUE]
      \/ work' = [work EXCEPT ![c].copy = Tail(work[c].copy), ![c].open = FALSE]
  BY WorkerStep DEF FileOpen, FileClose
<1>6. /\ work' \in [Client -> [check : Seq(File), copy : Seq(File), open : BOOLEAN]]
      /\ \A d \in Client : work'[d].open => work'[d].copy # << >>
  <2>1. /\ work \in [Client -> [check : Seq(File), copy : Seq(File), open : BOOLEAN]]
        /\ \A d \in Client : work[d].open => work[d].copy # << >>
    BY WorkerStep
  <2> DEFINE t == Tail(work[c].copy)
  <2>2. t \in Seq(File) /\ work[c].copy # << >>
    BY <1>1
  <2>3. \/ work' = [work EXCEPT ![c].open = TRUE]
        \/ work' = [work EXCEPT ![c].copy = t, ![c].open = FALSE]
    BY <1>5
  <2> HIDE DEF f, e, t
  <2>4. CASE work' = [work EXCEPT ![c].open = TRUE]
    BY <2>1, <2>2, <2>4
  <2>5. CASE work' = [work EXCEPT ![c].copy = t, ![c].open = FALSE]
    BY <2>1, <2>2, <2>5
  <2> QED BY <2>3, <2>4, <2>5
<1> QED BY <1>3, <1>4, <1>6, WorkerStep, StepType DEF Pcs, TypeInv, TypeOK

LEMMA ErrorType ==
    ASSUME TypeInv, NEW c \in Client, FileError(c)
    PROVE  TypeInv'
  BY EndType DEF FileError, Directory, Fault, TypeInv, TypeOK

LEMMA NextType ==
    TypeInv /\ [Next]_vars => TypeInv'
<1> SUFFICES ASSUME TypeInv, [Next]_vars PROVE TypeInv'
  OBVIOUS
<1>1. CASE Next
  <2>1. ASSUME NEW c \in Client, Worker(c) PROVE TypeInv'
    BY <2>1, CallbackType, CheckType, OpenCloseType, ErrorType DEF Worker
  <2>2. CASE Step
    BY <2>1, <2>2, CommandType, ManifestType, SyncType DEF Step
  <2> QED BY <1>1, <2>2, EnvironmentType, StartType DEF Next
<1>2. CASE UNCHANGED vars
  BY <1>2 DEF vars, TypeInv, TypeOK, Phases, File, Manifest, Preserved
<1> QED BY <1>1, <1>2

\* The variables keep their types: a job is of files of the backup, there is
\* work only for workers, and a file that is open is one that is to be copied.
THEOREM TypeCorrect == Spec => []TypeOK
<1>1. TypeInv => TypeOK
  BY DEF TypeInv
<1> QED BY <1>1, InitTypeInv, NextType, PTL DEF Spec

-----------------------------------------------------------------------------
(* What a step of the command changes.                                      *)

\* A step that changes one entry gives entry e the contents c.
Writes(e, c) ==
    \/ pc = "control" /\ Exists(Control) /\ e = Control /\ c = Nothing
    \/ pc = "clean" /\ Invalid = {} /\ e \in Missing /\ c = Made(1, Now, "none")
    \/ pc = "clean" /\ pc' = "jobs" /\ e = SavedManifest /\ c = Made(opt.set, Now, "none")
    \/ /\ pc = "jobs"
       /\ \E f \in File :
             /\ e = PgPath(f)
             /\ \/ c = Made(Partial, Now, "none")
                \/ c = Content(f)
                \/ Preserve(f) /\ c = [ent[e] EXCEPT !.time = Manifest.file[f].time]
    \/ pc = "recovery" /\ e = AutoConf /\ c = Made(Partial, Now, "none") /\ opt.type # "preserve"
    \/ pc = "recoveryClose" /\ e = AutoConf /\ c = Made(AutoVer, Now, opt.type)
    \/ pc = "signal" /\ e = Signal /\ c = Made(1, Now, "none") /\ opt.type # "none"
    \/ pc = "manifest" /\ e = SavedManifest /\ c = Nothing
    \/ /\ pc = "sync" /\ pc' = "rename" /\ e = ControlTmp /\ Exists(ControlTmp) /\ Manifest.online
       /\ c = [ent[ControlTmp] EXCEPT !.mark = "invalid"]

LEMMA StepWrites ==
    ASSUME TypeInv, Step
    PROVE  \/ ent' = ent
           \/ CleanRemove
           \/ ControlRename
           \/ \E e \in Entry : \E c : Put(e, c) /\ Writes(e, c)
<1>1. {Control, ControlTmp, AutoConf, Signal, SavedManifest} \subseteq Entry
  BY DirAssumption
<1>2. opt \in OptionType
  BY DEF TypeInv, TypeOK
<1>3. CASE PathNotEmpty \/ CleanCheck \/ ControlSync \/ ControlMissing \/ JobsDone \/ RecoveryPreserve
           \/ PathSync \/ GlobalSync
  BY <1>3 DEF PathNotEmpty, CleanCheck, ControlSync, ControlMissing, JobsDone, RecoveryPreserve,
              PathSync, GlobalSync, Directory
<1>4. CASE ControlRemove
  BY <1>1, <1>4 DEF ControlRemove, At, Writes
<1>5. CASE CleanBuild
  <2>1. Missing \subseteq Entry
    BY <1>2, TheBackup, DirAssumption DEF Missing
  <2> QED BY <1>5, <2>1 DEF CleanBuild, At, Writes
<1>6. CASE ManifestSave \/ ManifestRemove
  BY <1>1, <1>6 DEF ManifestSave, ManifestRemove, At, Go, Writes
<1>7. ASSUME NEW w \in Client, Worker(w)
      PROVE  ent' = ent \/ \E e \in Entry : \E c : Put(e, c) /\ Writes(e, c)
  <2>1. CASE JobCallback(w) \/ FileError(w)
    BY <2>1 DEF JobCallback, FileError, Directory
  <2>2. CASE FileCheck(w)
    <3> DEFINE f == Head(work[w].check)
    <3>1. f \in File /\ pc = "jobs" /\ PgPath(f) \in Entry
      BY <2>2, WorkerStep, HeadTailRange, ContentType DEF FileCheck
    <3>2. \/ ent' = ent
          \/ Put(PgPath(f), Content(f))
          \/ Preserve(f) /\ Put(PgPath(f), [ent[PgPath(f)] EXCEPT !.time = Manifest.file[f].time])
      BY <2>2 DEF FileCheck
    <3> HIDE DEF f
    <3> QED BY <3>1, <3>2, SMTT(30) DEF Writes
  <2>3. CASE FileOpen(w) \/ FileClose(w)
    <3> DEFINE f == Head(work[w].copy)
    <3>1. f \in File /\ pc = "jobs" /\ PgPath(f) \in Entry
      BY <2>3, WorkerStep, HeadTailRange, ContentType DEF FileOpen, FileClose, Copying
    <3>2. Put(PgPath(f), Content(f)) \/ Put(PgPath(f), Made(Partial, Now, "none"))
      BY <2>3 DEF FileOpen, FileClose
    <3> HIDE DEF f
    <3> QED BY <3>1, <3>2 DEF Writes
  <2> QED BY <1>7, <2>1, <2>2, <2>3 DEF Worker
<1>8. CASE RecoveryOpen
  BY <1>1, <1>8 DEF RecoveryOpen, At, Writes
<1>9. CASE RecoveryClose
  BY <1>1, <1>9 DEF RecoveryClose, At, Writes
<1>10. CASE SignalWrite
  BY <1>1, <1>10 DEF SignalWrite, At, Writes
<1>11. CASE ControlInvalidate
  BY <1>1, <1>11 DEF ControlInvalidate, At, Go, Writes
<1> QED BY <1>3, <1>4, <1>5, <1>6, <1>7, <1>8, <1>9, <1>10, <1>11 DEF Step

\* Where the steps of the command lead.
LEMMA StepPhases ==
    ASSUME TypeInv, Step
    PROVE  /\ UNCHANGED << kind, faults >>
           /\ pc' # "idle" => opt' = opt
           /\ \/ pc' = "idle" /\ whole' = whole /\ ent' = ent /\ pc \in {"check", "jobs", "globalSync"}
              \/ pc' = pc /\ pc \in {"clean", "jobs", "sync"} /\ whole' = whole
              \/ pc = "check" /\ CleanCheck /\ pc' = "control"
              \/ pc = "control" /\ ControlRemove /\ pc' = "controlSync"
              \/ pc = "control" /\ ControlMissing /\ pc' = "clean"
              \/ pc = "controlSync" /\ ControlSync /\ pc' = "clean"
              \/ pc = "clean" /\ ManifestSave /\ pc' = "jobs"
              \/ pc = "jobs" /\ JobsDone /\ pc' = "recovery"
              \/ pc = "recovery" /\ RecoveryOpen /\ pc' = "recoveryClose"
              \/ pc = "recovery" /\ RecoveryPreserve /\ pc' = "manifest"
              \/ pc = "recoveryClose" /\ RecoveryClose /\ pc' = "signal"
              \/ pc = "signal" /\ SignalWrite /\ pc' = "manifest"
              \/ pc = "manifest" /\ ManifestRemove /\ pc' = "sync"
              \/ pc = "sync" /\ ControlInvalidate /\ pc' = "rename"
              \/ pc = "rename" /\ ControlRename /\ pc' = "globalSync"
           /\ whole' = whole \/ ControlRename
<1>1. CASE PathNotEmpty \/ GlobalSync
  BY <1>1 DEF PathNotEmpty, GlobalSync, End, At, Directory, Fault
<1>2. CASE CleanCheck \/ ControlRemove \/ ControlSync \/ ControlMissing
  BY <1>2 DEF CleanCheck, ControlRemove, ControlSync, ControlMissing, At, Go, Directory, Command, Fault
<1>3. CASE CleanRemove \/ CleanBuild \/ ManifestSave
  BY <1>3 DEF CleanRemove, CleanBuild, ManifestSave, At, Go, Command, Fault
<1>4. ASSUME NEW w \in Client, Worker(w)
      PROVE  /\ pc = "jobs" /\ whole' = whole /\ UNCHANGED << kind, faults >>
             /\ (pc' = pc /\ opt' = opt) \/ (pc' = "idle" /\ ent' = ent)
  <2>1. CASE JobCallback(w)
    BY <2>1 DEF JobCallback, At, Directory, Fault
  <2>2. CASE FileCheck(w) \/ FileOpen(w) \/ FileClose(w)
    <3>1. pc = "jobs" /\ pc' = pc /\ UNCHANGED << whole, opt, queue, sync, Fault >>
      BY <2>2, WorkerStep
    <3>2. whole' = whole /\ opt' = opt /\ Fault' = Fault
      BY <3>1
    <3>3. kind' = kind /\ faults' = faults
      BY <3>2 DEF Fault
    <3> QED BY <3>1, <3>2, <3>3
  <2>3. CASE FileError(w)
    <3>1. work[w] # NoWork
      BY <2>3 DEF FileError, Copying, NoWork
    <3> QED BY <2>3, <3>1, Working DEF FileError, End, Directory, Fault
  <2> QED BY <1>4, <2>1, <2>2, <2>3 DEF Worker
<1>5. CASE JobsDone \/ RecoveryOpen \/ RecoveryClose \/ RecoveryPreserve \/ SignalWrite \/ ManifestRemove
  BY <1>5 DEF JobsDone, RecoveryOpen, RecoveryClose, RecoveryPreserve, SignalWrite, ManifestRemove,
              At, Go, Directory, Command, Fault
<1>6. CASE PathSync \/ ControlInvalidate \/ ControlRename
  BY <1>6 DEF PathSync, ControlInvalidate, ControlRename, At, Go, Command, Fault
<1> QED BY <1>1, <1>2, <1>3, <1>4, <1>5, <1>6 DEF Step

LEMMA Names ==
    /\ Control \notin {PgVersion, ControlTmp, AutoConf, Signal, SavedManifest, Pid, Global}
    /\ ControlTmp \notin {PgVersion, AutoConf, Signal, SavedManifest, Pid, Global}
    /\ Pid \notin {PgVersion, AutoConf, Signal, SavedManifest, Global}
    /\ SavedManifest \notin {PgVersion, AutoConf, Signal, Global}
    /\ Signal \notin {PgVersion, AutoConf, Global}
    /\ AutoConf \notin {PgVersion, Global}
    /\ PgVersion # Global
  BY DEF Control, ControlTmp, PgVersion, AutoConf, Signal, SavedManifest, Pid, Global

LEMMA EntFunction ==
    ASSUME TypeInv
    PROVE  /\ ent \in [Entry -> EntryType] /\ disk \in [Entry -> EntryType] /\ whole \in [Entry -> EntryType]
           /\ opt \in OptionType
           /\ \A e, c : Put(e, c) => \A x \in Entry : ent'[x] = IF x = e THEN c ELSE ent[x]
  BY DEF TypeInv, TypeOK, Put

\* restore does not write postmaster.pid, and pg_control not by its name.
LEMMA WritesPlaces ==
    ASSUME TypeInv, NEW e, NEW c, Writes(e, c)
    PROVE  e # Pid /\ (e = Control => c = Nothing)
<1>1. opt \in OptionType
  BY EntFunction
<1>2. Control \notin Missing /\ Pid \notin Missing
  BY <1>1, TheBackup, DirAssumption DEF Missing
<1>3. \A f \in File : PgPath(f) \notin {Control, Pid}
  BY <1>1, TheBackup, Names DEF PgPath
<1> QED BY <1>2, <1>3, Names DEF Writes

-----------------------------------------------------------------------------
(* pg_control goes first and comes last.                                    *)

\* No step but the rename makes pg_control.
LEMMA ControlStays ==
    ASSUME TypeInv, Step, ~ControlRename
    PROVE  ent'[Control] \in {ent[Control], Nothing}
<1>1. Control \in Entry
  BY DirAssumption
<1>2. ASSUME CleanRemove PROVE ent'[Control] \in {ent[Control], Nothing}
  BY <1>1, <1>2 DEF CleanRemove
<1>3. ASSUME NEW e \in Entry, NEW c, Put(e, c), Writes(e, c)
      PROVE  ent'[Control] \in {ent[Control], Nothing}
  <2>1. ent'[Control] = IF Control = e THEN c ELSE ent[Control]
    BY <1>1, <1>3, EntFunction
  <2> QED BY <1>3, <2>1, WritesPlaces
<1> QED BY <1>2, <1>3, StepWrites

\* While restore works pg_control is away, ...
LEMMA ControlAwayStep ==
    ASSUME TypeInv, ControlAway, [Next]_vars
    PROVE  ControlAway'
<1> DEFINE away == {"controlSync", "clean"} \cup (Cleaned \ {"globalSync"})
<1>1. ~Nothing.ver # Absent
  BY DEF Nothing, Absent
<1>2. CASE Step
  <2> SUFFICES ASSUME pc' \in away PROVE ~Exists(Control)'
    BY DEF ControlAway
  <2>1. CASE ControlRemove
    <3>1. ent'[Control] = Nothing
      BY <2>1, EntFunction, DirAssumption DEF ControlRemove
    <3> QED BY <1>1, <3>1 DEF Exists
  <2>2. CASE ControlMissing
    BY <2>2 DEF ControlMissing, Directory, Exists
  <2>3. CASE ~ControlRemove /\ ~ControlMissing
    <3>1. pc \in away /\ pc' # "globalSync"
      BY <1>2, <2>3, StepPhases DEF Cleaned
    <3>2. ~ControlRename
      BY <3>1 DEF ControlRename, Go
    <3>3. ~Exists(Control)
      BY <3>1 DEF ControlAway
    <3> QED BY <1>1, <1>2, <3>2, <3>3, ControlStays DEF Exists
  <2> QED BY <2>1, <2>2, <2>3
<1>3. CASE Abort \/ HostCrash \/ \E o \in Options : RestoreStart(o)
  BY <1>3 DEF Abort, HostCrash, RestoreStart, End, Go, ControlAway, Cleaned
<1>4. CASE PgStart \/ PgStop
  BY <1>4 DEF PgStart, PgStop, At, ControlAway, Cleaned
<1>5. CASE UNCHANGED vars
  BY <1>5 DEF vars, ControlAway, Exists
<1> QED BY <1>2, <1>3, <1>4, <1>5 DEF Next

\* ... and until it goes nothing else does.
LEMMA UntouchedStep ==
    ASSUME TypeInv, ControlAway, Untouched, [Next]_vars
    PROVE  Untouched'
<1>1. CASE Step
  <2> SUFFICES ASSUME "host" \notin kind, Exists(Control)' PROVE ent' = whole'
    BY <1>1, StepPhases DEF Untouched
  <2>1. CASE ControlRename
    BY <2>1 DEF ControlRename
  <2>2. CASE ~ControlRename
    <3>1. Exists(Control)
      BY <1>1, <2>2, ControlStays DEF Exists, Nothing, Absent
    <3>2. ent = whole /\ whole' = whole
      BY <1>1, <2>2, <3>1, StepPhases DEF Untouched
    <3>3. pc \in {"idle", "check", "control", "globalSync"}
      BY <3>1 DEF ControlAway, TypeInv, Phases, Pcs, Cleaned
    <3>4. ~CleanRemove
      BY <3>3 DEF CleanRemove, At
    <3>5. ASSUME NEW e \in Entry, NEW c, Put(e, c), Writes(e, c) PROVE FALSE
      <4>1. e = Control /\ c = Nothing
        BY <3>3, <3>5 DEF Writes
      <4>2. ent'[Control] = Nothing
        BY <3>5, <4>1, EntFunction
      <4> QED BY <4>2 DEF Exists, Nothing, Absent
    <3>6. ent' = ent
      BY <1>1, <2>2, <3>4, <3>5, StepWrites
    <3> QED BY <3>2, <3>6
  <2> QED BY <2>1, <2>2
<1>2. CASE Abort \/ \E o \in Options : RestoreStart(o)
  BY <1>2 DEF Abort, RestoreStart, Directory, Fault, Untouched, Exists
<1>3. CASE HostCrash
  BY <1>3 DEF HostCrash, Untouched
<1>4. CASE PgStart \/ PgStop
  BY <1>4 DEF PgStart, PgStop, Untouched
<1>5. CASE UNCHANGED vars
  BY <1>5 DEF vars, Untouched, Exists
<1> QED BY <1>1, <1>2, <1>3, <1>4, <1>5 DEF Next

-----------------------------------------------------------------------------
(* What entries may hold.                                                   *)

\* Where the contents of an entry come from.
LEMMA ContentsStep ==
    ASSUME TypeInv, [Next]_vars, NEW e \in Entry
    PROVE  /\ disk'[e] \in {disk[e], ent[e], ent'[e]}
           /\ \/ ent'[e] \in {ent[e], disk[e], Nothing}
              \/ Step /\ Writes(e, ent'[e])
              \/ ControlRename /\ e = Control /\ Exists(ControlTmp) /\ ent'[e] = ent[ControlTmp]
              \/ PgStart /\ e = Pid /\ ent'[e] = Made(1, Now, "none")
              \/ e = Control /\ Exists(Control) /\ ent'[e] = [ent[e] EXCEPT !.mark = "none"]
              \/ Exists(e) /\ ent'[e] = Made(Live, Now, "none")
<1> DEFINE D == disk'[e] \in {disk[e], ent[e], ent'[e]}
<1>1. /\ ent \in [Entry -> EntryType] /\ disk \in [Entry -> EntryType]
      /\ {Control, ControlTmp, Pid, Signal} \subseteq Entry
  BY EntFunction, DirAssumption
<1>2. ASSUME disk' = disk PROVE D
  BY <1>2
<1>3. ASSUME NEW x, disk' = Kept(x) PROVE D
  BY <1>1, <1>3 DEF Kept
<1>4. ASSUME NEW x, disk' = Synced(x) PROVE D
  BY <1>1, <1>4 DEF Synced
<1>5. CASE Step
  <2>1. D
    <3>1. CASE PathNotEmpty \/ CleanCheck \/ ControlRemove \/ ControlMissing \/ CleanRemove \/ CleanBuild
               \/ JobsDone \/ RecoveryOpen \/ RecoveryPreserve \/ SignalWrite \/ ManifestRemove \/ ControlRename
      BY <1>2, <3>1 DEF PathNotEmpty, CleanCheck, ControlRemove, ControlMissing, CleanRemove, CleanBuild,
              JobsDone, RecoveryOpen, RecoveryPreserve, SignalWrite, ManifestRemove, ControlRename, Directory
    <3>2. CASE ControlSync \/ PathSync \/ GlobalSync
      BY <1>4, <3>2 DEF ControlSync, PathSync, GlobalSync
    <3>3. CASE RecoveryClose \/ ControlInvalidate
      BY <1>3, <3>3 DEF RecoveryClose, ControlInvalidate
    <3>4. CASE ManifestSave
      BY <1>1, <3>4 DEF ManifestSave
    <3>5. ASSUME NEW w \in Client, Worker(w) PROVE D
      <4>1. CASE JobCallback(w) \/ FileOpen(w) \/ FileError(w)
        BY <1>2, <4>1 DEF JobCallback, FileOpen, FileError, Directory
      <4>2. CASE FileCheck(w) \/ FileClose(w)
        <5>1. disk' = disk \/ disk' = Kept(PgPath(Head(work[w].check)))
                \/ disk' = Kept(PgPath(Head(work[w].copy)))
          BY <4>2 DEF FileCheck, FileClose
        <5> QED BY <1>2, <1>3, <5>1
      <4> QED BY <3>5, <4>1, <4>2 DEF Worker
    <3> QED BY <1>5, <3>1, <3>2, <3>3, <3>4, <3>5 DEF Step
  <2>2. ASSUME CleanRemove PROVE ent'[e] \in {ent[e], Nothing}
    BY <2>2 DEF CleanRemove
  <2>3. ASSUME ControlRename
        PROVE  \/ ent'[e] \in {ent[e], Nothing}
               \/ e = Control /\ Exists(ControlTmp) /\ ent'[e] = ent[ControlTmp]
    BY <1>1, <2>3, Names DEF ControlRename
  <2>4. ASSUME NEW x \in Entry, NEW c, Put(x, c), Writes(x, c)
        PROVE  ent'[e] = ent[e] \/ Writes(e, ent'[e])
    <3>1. ent'[e] = IF e = x THEN c ELSE ent[e]
      BY <1>1, <2>4, EntFunction
    <3> QED BY <2>4, <3>1
  <2> QED BY <1>5, <2>1, <2>2, <2>3, <2>4, StepWrites
<1>6. CASE HostCrash
  <2>1. PICK c \in AfterCrash : ent' = c /\ disk' = c
    BY <1>6 DEF HostCrash
  <2>2. c[e] \in {ent[e], disk[e], Nothing}
    BY <2>1, CrashLeaves
  <2> QED BY <2>1, <2>2
<1>7. CASE PgStart
  <2>1. disk' = ent'
    BY <1>7 DEF PgStart
  <2>2. /\ e = Pid => ent'[e] = Made(1, Now, "none")
        /\ e = Signal => ent'[e] = Nothing
        /\ e = Control => ent'[e] = [ent[e] EXCEPT !.mark = "none"]
        /\ e \notin {Pid, Signal, Control} => ent'[e] = ent[e]
    BY <1>1, <1>7, Names DEF PgStart
  <2> QED BY <1>7, <2>1, <2>2 DEF PgStart, Startable
<1>8. CASE PgStop
  BY <1>8 DEF PgStop
<1>9. CASE Abort \/ (\E o \in Options : RestoreStart(o)) \/ UNCHANGED vars
  BY <1>9 DEF Abort, RestoreStart, Directory, vars
<1> QED BY <1>5, <1>6, <1>7, <1>8, <1>9 DEF Next

\* Only pg_control and backup.manifest are written to be gone.
LEMMA WritesSolid ==
    ASSUME TypeInv, NEW e \in Entry, NEW c, Writes(e, c)
    PROVE  c.ver # Absent \/ (c = Nothing /\ e \in {Control, SavedManifest})
<1>1. opt \in OptionType /\ ent[e] \in EntryType /\ ent[ControlTmp] \in EntryType
  BY EntFunction, DirAssumption
<1>2. ASSUME \/ c = Made(1, Now, "none") \/ c = Made(Partial, Now, "none")
             \/ c = Made(opt.set, Now, "none") \/ c = Made(AutoVer, Now, opt.type)
      PROVE  c.ver # Absent
  <2>1. opt.set \in 1..Live /\ AutoVer \in 1..Live
    BY <1>1, TheBackup DEF AutoVer, Live
  <2> QED BY <1>2, <2>1 DEF Made, Absent, Partial, Live
<1>3. \A f \in File : Content(f).ver # Absent
  BY <1>1, TheBackup DEF Content, Made, Absent, Zero
<1>4. ASSUME NEW f \in File, e = PgPath(f), Preserve(f), c = [ent[e] EXCEPT !.time = Manifest.file[f].time]
      PROVE  c.ver # Absent
  <2>1. c.ver = ent[e].ver
    BY <1>1, <1>4 DEF EntryType
  <2> QED BY <1>4, <2>1 DEF Preserve, Exists
<1>5. ASSUME e = ControlTmp, Exists(ControlTmp), c = [ent[ControlTmp] EXCEPT !.mark = "invalid"]
      PROVE  c.ver # Absent
  <2>1. c.ver = ent[ControlTmp].ver
    BY <1>1, <1>5 DEF EntryType
  <2> QED BY <1>5, <2>1 DEF Exists
<1> QED BY <1>2, <1>3, <1>4, <1>5 DEF Writes

LEMMA SolidStep ==
    ASSUME TypeInv, Solid, [Next]_vars
    PROVE  Solid'
<1> SUFFICES ASSUME NEW e \in Entry
             PROVE  /\ ent'[e].ver = Absent => ent'[e] = Nothing
                    /\ disk'[e].ver = Absent => disk'[e] = Nothing
  BY DEF Solid
<1>1. ent[e] \in EntryType /\ Control \in Entry /\ ControlTmp \in Entry
  BY EntFunction, DirAssumption
<1>2. ent'[e].ver = Absent => ent'[e] = Nothing
  <2>1. Made(1, Now, "none").ver # Absent /\ Made(Live, Now, "none").ver # Absent
    BY DEF Made, Absent, Live
  <2>2. ASSUME Exists(Control), e = Control, ent'[e] = [ent[e] EXCEPT !.mark = "none"]
        PROVE  ent'[e].ver # Absent
    <3>1. ent'[e].ver = ent[e].ver
      BY <1>1, <2>2 DEF EntryType
    <3> QED BY <2>2, <3>1 DEF Exists
  <2> QED BY <1>1, <2>1, <2>2, WritesSolid, ContentsStep DEF Solid
<1>3. disk'[e] \in {disk[e], ent[e], ent'[e]}
  BY ContentsStep
<1> QED BY <1>2, <1>3 DEF Solid

\* Nothing is written now with a time before the copy of a backup.
LEMMA Young ==
    ASSUME NEW s \in Set, NEW f \in DOMAIN Backup[s].file, NEW c, c.time = Now
    PROVE  TellsTime(c, s, f)
<1>1. Backup[s].copyStart \in 0..Now /\ Backup[s].file[f].time \in 0..Now
  BY BackupAssumption
<1> QED BY <1>1, RestoreAssumption DEF TellsTime

LEMMA TimelyStep ==
    ASSUME TypeInv, Timely, [Next]_vars
    PROVE  Timely'
<1> SUFFICES ASSUME NEW s \in Set, NEW f \in Timed(s)
             PROVE  TellsTime(ent'[f], s, f) /\ TellsTime(disk'[f], s, f)
  BY DEF Timely
<1>1. /\ f \in DOMAIN Backup[s].file /\ f \in Entry
      /\ f \notin Path \cup {Control, ControlTmp, AutoConf, Signal, SavedManifest, Pid}
  BY BackupAssumption DEF Timed
<1>2. TellsTime(ent[f], s, f) /\ TellsTime(disk[f], s, f) /\ TellsTime(Nothing, s, f)
  BY DEF Timely, TellsTime, Nothing
<1>3. \A v, k : TellsTime(Made(v, Now, k), s, f)
  BY <1>1, Young DEF Made
<1>4. opt \in OptionType /\ opt.set \in Set /\ ent[f] \in EntryType
  BY <1>1, EntFunction, TheBackup
<1>5. ASSUME NEW c, Writes(f, c)
      PROVE  TellsTime(c, s, f)
  <2>1. f \notin Missing
    BY <1>1, <1>4, TheBackup DEF Missing
  <2>2. ASSUME NEW g \in File, f = PgPath(g)
        PROVE  g = f /\ f \in Timed(opt.set) /\ Agrees(Manifest.file[f], s, f)
    <3>1. g = f
      BY <1>1, <2>2 DEF PgPath
    <3>2. f \in Timed(opt.set)
      BY <1>1, <1>4, <2>2, <3>1, TheBackup DEF Timed, Manifest
    <3> QED BY <1>4, <3>1, <3>2, TimeAssumption DEF Manifest
  <2>3. ASSUME f \in File, Agrees(Manifest.file[f], s, f), c = Content(f)
        PROVE  TellsTime(c, s, f)
    <3>1. Manifest.file[f].ver # Absent
      BY <1>4, <2>3, TheBackup DEF Absent
    <3> QED BY <2>3, <3>1 DEF Agrees, TellsTime, Content, Made
  <2>4. ASSUME f \in File, Agrees(Manifest.file[f], s, f), Preserve(f), PgPath(f) = f,
               c = [ent[f] EXCEPT !.time = Manifest.file[f].time]
        PROVE  TellsTime(c, s, f)
    <3>1. c.ver = ent[f].ver /\ c.mark = ent[f].mark /\ c.time = Manifest.file[f].time
      BY <1>4, <2>4 DEF EntryType
    <3>2. CASE opt.force
      <4>1. ent[f].time = Manifest.file[f].time
        BY <2>4, <3>2 DEF Preserve, SameTime
      <4> QED BY <1>2, <3>1, <4>1 DEF TellsTime
    <3>3. CASE ~opt.force
      <4>1. ent[f].ver = Manifest.file[f].ver /\ ent[f].mark = Manifest.file[f].mark
        BY <2>4, <3>3 DEF Preserve, SameChecksum
      <4>2. Manifest.file[f].ver # Absent
        BY <1>4, <2>4, TheBackup DEF Absent
      <4> QED BY <2>4, <3>1, <4>1, <4>2 DEF Agrees, TellsTime
    <3> QED BY <3>2, <3>3
  <2> QED BY <1>1, <1>3, <1>5, <2>1, <2>2, <2>3, <2>4 DEF Writes
<1>6. TellsTime(ent'[f], s, f)
  BY <1>1, <1>2, <1>3, <1>5, ContentsStep
<1>7. disk'[f] \in {disk[f], ent[f], ent'[f]}
  BY <1>1, ContentsStep
<1> QED BY <1>2, <1>6, <1>7

LEMMA InitTimely == Init => Solid /\ Timely
<1> SUFFICES ASSUME Init PROVE Solid /\ Timely
  OBVIOUS
<1>1. ent \in Clusters /\ disk = ent
  BY DEF Init
<1>2. Solid
  BY <1>1, ClusterAssumption DEF Solid
<1>3. Timely
  <2>1. \A s \in Set : \A f \in Timed(s) : Agrees(ent[f], s, f)
    BY <1>1, TimeAssumption
  <2> QED BY <1>1, <2>1 DEF Timely, Agrees, TellsTime
<1> QED BY <1>2, <1>3

-----------------------------------------------------------------------------
(* What the clean leaves.                                                   *)

LEMMA SameBackup ==
    ASSUME opt' = opt
    PROVE  /\ Manifest' = Manifest /\ File' = File /\ Preserved' = Preserved /\ Named' = Named
           /\ \A f : Content(f)' = Content(f)
  BY DEF Manifest, File, Preserved, Named, Content

\* A step in one of these phases writes no directory and nothing stray.
LEMMA CleanedWrites ==
    ASSUME TypeInv, Clear, Step, pc \in Cleaned, NEW e \in Entry, ent'[e] # ent[e]
    PROVE  \/ ControlRename /\ Control \in File /\ Exists(ControlTmp)
              /\ ((e = Control /\ ent'[e] = ent[ControlTmp]) \/ (e = ControlTmp /\ ent'[e] = Nothing))
           \/ pc \in Cleaned \ {"rename", "globalSync"} /\ Writes(e, ent'[e]) /\ e \in Named \ Path
<1>1. opt \in OptionType /\ pc \notin {"clean", "control"} /\ e \in DOMAIN ent
  BY EntFunction DEF Cleaned
<1>2. CASE ControlRename
  <2>1. Exists(ControlTmp) /\ ent' = [ent EXCEPT ![Control] = ent[ControlTmp], ![ControlTmp] = Nothing]
    BY <1>2 DEF ControlRename
  <2>2. Control \in File
    BY <2>1 DEF Clear
  <2>3. e \in {Control, ControlTmp} /\ (e = Control => ent'[e] = ent[ControlTmp])
        /\ (e = ControlTmp => ent'[e] = Nothing)
    BY <1>1, <2>1, EntFunction, Names
  <2> QED BY <1>2, <2>1, <2>2, <2>3
<1>3. CASE ~ControlRename
  <2>1. ~CleanRemove
    BY <1>1 DEF CleanRemove, At
  <2>2. PICK x \in Entry : \E c : Put(x, c) /\ Writes(x, c)
    BY <1>3, <2>1, StepWrites
  <2>3. Put(x, ent'[x]) /\ Writes(x, ent'[x]) /\ e = x
    BY <2>2, EntFunction
  <2>4. \A f \in File : PgPath(f) \in Named \ Path
    BY <1>1, TheBackup, DirAssumption DEF PgPath, Named
  <2>5. {AutoConf, Signal, SavedManifest, ControlTmp} \subseteq Named \ Path
    BY DirAssumption DEF Named
  <2>6. pc \notin {"rename", "globalSync"} /\ e \in Named \ Path
    BY <1>1, <2>2, <2>3, <2>4, <2>5 DEF Writes
  <2> QED BY <2>2, <2>3, <2>6
<1> QED BY <1>2, <1>3

\* The clean ends when there is nothing left to remove or to make.
LEMMA CleanEnds ==
    ASSUME TypeInv, Invalid = {}, Missing = {}
    PROVE  NoStray /\ PathsThere /\ ~Exists(ControlTmp) /\ (opt.type # "preserve" => ~Exists(Signal))
<1>1. opt \in OptionType
  BY EntFunction
<1>2. \A e \in Entry : e \notin Ignored /\ Exists(e) /\ Dir[e] \in {PgData} \cup Manifest.path
          => e \in File \/ (e \in Manifest.path /\ ent[e].mark # "other")
  BY DEF Invalid, Looked
<1>3. NoStray
  BY <1>2 DEF NoStray, Named, Ignored
<1>4. PathsThere
  <2> SUFFICES ASSUME NEW p \in Manifest.path PROVE Exists(p) /\ ent[p].mark # "other"
    BY DEF PathsThere
  <2>1. p \in Entry /\ p \in Path /\ Dir[p] \in {PgData} \cup Manifest.path /\ p \notin File
    BY <1>1, TheBackup, DirAssumption
  <2>2. p \notin Ignored
    BY <2>1, DirAssumption DEF Ignored, Preserved
  <2>3. Exists(p)
    BY DEF Missing
  <2> QED BY <1>2, <2>1, <2>2, <2>3
<1>5. ~Exists(ControlTmp)
  <2>1. ControlTmp \in Entry /\ Dir[ControlTmp] = Global /\ Global \in Manifest.path
        /\ ControlTmp \notin File \cup Manifest.path
    BY <1>1, TheBackup, DirAssumption
  <2>2. ControlTmp \notin Ignored
    BY Names DEF Ignored, Preserved
  <2> QED BY <1>2, <2>1, <2>2
<1>6. ASSUME opt.type # "preserve" PROVE ~Exists(Signal)
  <2>1. Signal \in Entry /\ Dir[Signal] = PgData /\ Signal \notin File \cup Manifest.path
    BY <1>1, TheBackup, DirAssumption
  <2>2. Signal \notin Ignored
    BY <1>6, Names DEF Ignored, Preserved
  <2> QED BY <1>2, <2>1, <2>2
<1> QED BY <1>3, <1>4, <1>5, <1>6

LEMMA ClearStep ==
    ASSUME TypeInv, Clear, [Next]_vars
    PROVE  Clear'
<1>1. opt \in OptionType /\ {Control, ControlTmp, Signal, SavedManifest} \subseteq Entry
  BY EntFunction, DirAssumption
<1>2. CASE Step
  <2> SUFFICES ASSUME pc' \in Cleaned
               PROVE  /\ NoStray' /\ PathsThere'
                      /\ Control \notin File => ~Exists(ControlTmp)'
                      /\ opt.type # "preserve" /\ pc' \notin Configured => ~Exists(Signal)'
    <3>1. CASE pc' \in Cleaned
      <4>1. opt' = opt
        BY <1>2, <3>1, StepPhases DEF Cleaned
      <4>2. opt' = opt /\ File' = File
        BY <4>1, SameBackup
      <4> QED BY <3>1, <4>2 DEF Clear
    <3>2. CASE pc' \notin Cleaned
      BY <3>2 DEF Clear, Cleaned
    <3> QED BY <3>1, <3>2
  <2>1. opt' = opt /\ Manifest' = Manifest /\ Named' = Named
    <3>1. opt' = opt
      BY <1>2, StepPhases DEF Cleaned
    <3> QED BY <3>1, SameBackup
  <2>2. CASE ManifestSave
    <3>1. \A x \in Entry : x # SavedManifest => ent'[x] = ent[x]
      BY <1>1, <2>2, EntFunction DEF ManifestSave
    <3>2. NoStray /\ PathsThere /\ ~Exists(ControlTmp) /\ (opt.type # "preserve" => ~Exists(Signal))
      BY <2>2, CleanEnds DEF ManifestSave
    <3>3. SavedManifest \in Named /\ SavedManifest \notin Manifest.path \cup {ControlTmp, Signal}
      BY <1>1, TheBackup, DirAssumption, Names DEF Named
    <3>4. NoStray'
      BY <2>1, <3>1, <3>2, <3>3 DEF NoStray, Exists
    <3>5. PathsThere'
      BY <1>1, <2>1, <3>1, <3>2, <3>3, TheBackup, DirAssumption DEF PathsThere, Exists
    <3> QED BY <1>1, <3>1, <3>2, <3>3, <3>4, <3>5 DEF Exists
  <2>3. CASE ~ManifestSave
    <3>1. pc \in Cleaned
      BY <1>2, <2>3, StepPhases DEF Cleaned
    <3>2. /\ NoStray /\ PathsThere
          /\ Control \notin File => ~Exists(ControlTmp)
          /\ opt.type # "preserve" /\ pc \notin Configured => ~Exists(Signal)
      BY <3>1 DEF Clear
    <3>3. ASSUME NEW e \in Entry, ent'[e] # ent[e] PROVE e \in Named \ Path
      <4>1. {Control, ControlTmp} \cap Path = {} /\ (Control \in File => Control \in Named) /\ ControlTmp \in Named
        BY DirAssumption DEF Named
      <4> QED BY <1>2, <3>1, <3>3, <4>1, CleanedWrites
    <3>4. NoStray'
      BY <2>1, <3>2, <3>3 DEF NoStray, Exists
    <3>5. PathsThere'
      BY <1>1, <2>1, <3>2, <3>3, TheBackup, DirAssumption DEF PathsThere, Exists
    <3>6. ASSUME Control \notin File PROVE ~Exists(ControlTmp)'
      <4>1. \A c : ~Writes(ControlTmp, c)
        <5>1. \A f \in File : PgPath(f) # ControlTmp
          BY <1>1, <3>6, TheBackup DEF PgPath
        <5>2. ControlTmp \notin Missing
          BY <1>1, TheBackup, DirAssumption DEF Missing
        <5> QED BY <3>2, <3>6, <5>1, <5>2, Names DEF Writes
      <4>2. ent'[ControlTmp] = ent[ControlTmp]
        BY <1>1, <1>2, <3>1, <3>6, <4>1, CleanedWrites
      <4> QED BY <3>2, <3>6, <4>2 DEF Exists
    <3>7. ASSUME opt.type # "preserve", pc' \notin Configured PROVE ~Exists(Signal)'
      <4>1. pc \in {"jobs", "recovery", "recoveryClose"}
        BY <1>2, <3>1, <3>7, StepPhases DEF Cleaned, Configured
      <4>2. \A f \in File : PgPath(f) # Signal
        BY <1>1, TheBackup, Names DEF PgPath
      <4>3. \A c : ~Writes(Signal, c)
        BY <4>1, <4>2, Names DEF Writes
      <4>4. ent'[Signal] = ent[Signal]
        BY <1>1, <1>2, <3>1, <4>3, CleanedWrites, Names
      <4> QED BY <3>2, <3>7, <4>1, <4>4 DEF Exists, Configured
    <3> QED BY <3>4, <3>5, <3>6, <3>7
  <2> QED BY <2>2, <2>3
<1>3. CASE Abort \/ HostCrash \/ \E o \in Options : RestoreStart(o)
  BY <1>3 DEF Abort, HostCrash, RestoreStart, End, Go, Clear, Cleaned
<1>4. CASE PgStart \/ PgStop
  BY <1>4 DEF PgStart, PgStop, At, Clear, Cleaned
<1>5. CASE UNCHANGED vars
  BY <1>5 DEF vars, Clear, NoStray, PathsThere, Exists, Named, File, Preserved, Manifest
<1> QED BY <1>2, <1>3, <1>4, <1>5 DEF Next

-----------------------------------------------------------------------------
(* The files.                                                               *)

LEMMA PathOfFile ==
    ASSUME opt \in OptionType
    PROVE  /\ \A f, g \in File : PgPath(f) = PgPath(g) => f = g
           /\ \A f \in File : f # Control => PgPath(f) = f
           /\ PgPath(Control) = ControlTmp
           /\ \A f \in File \ {AutoConf} :
                 PgPath(f) \in Entry \ (Path \cup {Control, AutoConf, Signal, SavedManifest, Pid})
<1>1. \A f \in File : f \in Entry \ (Path \cup {ControlTmp, Signal, SavedManifest, Pid})
  BY TheBackup
<1>2. ControlTmp \in Entry \ Path
  BY DirAssumption
<1> QED BY <1>1, <1>2, Names DEF PgPath

\* A file that is kept is the file of the backup or was zeroed, whatever it was
\* judged by.
LEMMA PreserveIsDone ==
    ASSUME TypeInv, Timely, TmpNew, pc = "jobs",
           NEW f \in File \ {AutoConf}, Preserve(f),
           NEW c, c = [ent[PgPath(f)] EXCEPT !.time = Manifest.file[f].time]
    PROVE  Done(f, c) /\ (f = Control => c = Content(f))
<1> DEFINE e == PgPath(f)
           b == Manifest.file[f]
<1>1. opt \in OptionType /\ e \in Entry /\ ent[e] \in EntryType /\ opt.set \in Set
  BY EntFunction, PathOfFile, TheBackup
<1>2. c = [ver |-> ent[e].ver, time |-> b.time, mark |-> ent[e].mark]
  BY <1>1 DEF EntryType
<1>3. f \notin opt.zero /\ ent[e].ver # Absent /\ opt.delta
  BY DEF Preserve, Exists
<1>4. b.ver \in 1..Live /\ b.time \in 0..Now /\ Manifest.copyStart \in 0..Now
  BY <1>1, TheBackup
<1>5. CASE f = Control
  <2>1. e = ControlTmp
    BY <1>5 DEF PgPath
  <2>2. ent[e] \in {Nothing, Made(Partial, Now, "none"), Content(Control)}
    BY <1>5, <2>1 DEF TmpNew
  <2>3. Content(Control) = [ver |-> b.ver, time |-> b.time, mark |-> b.mark]
    BY <1>3, <1>5 DEF Content, Made
  <2>4. ent[e] # Made(Partial, Now, "none")
    <3>1. CASE opt.force
      <4>1. ent[e].time = b.time /\ b.time < Manifest.copyStart
        BY <3>1 DEF Preserve, SameTime
      <4> QED BY <1>4, <4>1, RestoreAssumption DEF Made
    <3>2. CASE ~opt.force
      <4>1. ent[e].ver = b.ver
        BY <3>2 DEF Preserve, SameChecksum
      <4> QED BY <1>4, <4>1 DEF Made, Partial, Live
    <3> QED BY <3>1, <3>2
  <2>5. ent[e] = Content(Control)
    BY <1>3, <2>2, <2>4 DEF Nothing
  <2>6. c = Content(Control)
    BY <1>2, <2>3, <2>5
  <2> QED BY <1>3, <1>5, <2>3, <2>6 DEF Done, VerDone
<1>6. CASE f # Control
  <2>1. e = f /\ f \in Timed(opt.set)
    BY <1>1, <1>6, TheBackup DEF PgPath, Timed, Manifest
  <2>2. TellsTime(ent[f], opt.set, f)
    BY <1>1, <2>1 DEF Timely
  <2>3. CASE opt.force
    <3>1. ent[f].time = b.time /\ b.time < Manifest.copyStart
      BY <2>1, <2>3 DEF Preserve, SameTime
    <3>2. ent[f].ver \in {b.ver, Zero} /\ ent[f].mark = b.mark
      BY <1>3, <2>1, <2>2, <3>1 DEF TellsTime, Manifest
    <3> QED BY <1>2, <1>3, <1>6, <2>1, <2>3, <3>2 DEF Done, VerDone
  <2>4. CASE ~opt.force
    <3>1. ent[f].ver = b.ver /\ ent[f].mark = b.mark
      BY <2>1, <2>4 DEF Preserve, SameChecksum
    <3> QED BY <1>2, <1>3, <1>6, <2>1, <3>1 DEF Done, VerDone
  <2> QED BY <2>3, <2>4
<1> QED BY <1>5, <1>6

LEMMA ContentIsDone ==
    ASSUME NEW f
    PROVE  Done(f, Content(f))
  BY DEF Done, VerDone, Content, Made

LEMMA TmpNewStep ==
    ASSUME TypeInv, Solid, Timely, TmpNew, [Next]_vars
    PROVE  TmpNew'
<1>1. opt \in OptionType /\ ControlTmp \in Entry /\ Control # AutoConf
  BY EntFunction, DirAssumption, Names
<1>2. CASE Step
  <2> SUFFICES ASSUME pc' = "jobs", Control \in File'
               PROVE  ent'[ControlTmp] \in {Nothing, Made(Partial, Now, "none"), Content(Control)'}
    BY DEF TmpNew
  <2>1. opt' = opt
    BY <1>2, StepPhases
  <2>2. Control \in File /\ Content(Control)' = Content(Control)
    BY <2>1, SameBackup
  <2>3. CASE ManifestSave
    <3>1. ent'[ControlTmp] = ent[ControlTmp]
      BY <1>1, <2>3, EntFunction, Names DEF ManifestSave
    <3>2. ~Exists(ControlTmp)
      BY <2>3, CleanEnds DEF ManifestSave
    <3> QED BY <1>1, <3>1, <3>2 DEF Solid, Exists
  <2>4. CASE ~ManifestSave
    <3>1. pc = "jobs" /\ ~CleanRemove /\ ~ControlRename
      BY <1>2, <2>4, StepPhases DEF CleanRemove, ControlRename, At, Go
    <3>2. ent[ControlTmp] \in {Nothing, Made(Partial, Now, "none"), Content(Control)}
      BY <2>2, <3>1 DEF TmpNew
    <3>3. ASSUME NEW c, Put(ControlTmp, c), Writes(ControlTmp, c)
          PROVE  c \in {Made(Partial, Now, "none"), Content(Control)}
      <4>1. PICK f \in File :
                /\ ControlTmp = PgPath(f)
                /\ \/ c = Made(Partial, Now, "none")
                   \/ c = Content(f)
                   \/ Preserve(f) /\ c = [ent[ControlTmp] EXCEPT !.time = Manifest.file[f].time]
        BY <3>1, <3>3 DEF Writes
      <4>2. f = Control
        BY <1>1, <2>2, <4>1, PathOfFile
      <4>3. ASSUME Preserve(f), c = [ent[ControlTmp] EXCEPT !.time = Manifest.file[f].time]
            PROVE  c = Content(Control)
        BY <1>1, <2>2, <3>1, <4>1, <4>2, <4>3, PreserveIsDone
      <4> QED BY <4>1, <4>2, <4>3
    <3>4. ASSUME NEW e \in Entry, NEW c, Put(e, c), Writes(e, c)
          PROVE  ent'[ControlTmp] \in {ent[ControlTmp], Made(Partial, Now, "none"), Content(Control)}
      <4>1. ent'[ControlTmp] = IF ControlTmp = e THEN c ELSE ent[ControlTmp]
        BY <1>1, <3>4, EntFunction
      <4> QED BY <3>3, <3>4, <4>1
    <3> QED BY <1>2, <2>2, <3>1, <3>2, <3>4, StepWrites
  <2> QED BY <2>3, <2>4
<1>3. CASE Abort \/ HostCrash \/ \E o \in Options : RestoreStart(o)
  BY <1>3 DEF Abort, HostCrash, RestoreStart, End, Go, TmpNew
<1>4. CASE PgStart \/ PgStop
  BY <1>4 DEF PgStart, PgStop, At, TmpNew
<1>5. CASE UNCHANGED vars
  BY <1>5, SameBackup DEF vars, TmpNew
<1> QED BY <1>2, <1>3, <1>4, <1>5 DEF Next

\* No file gets lost between the queues and the workers.
LEMMA CallbackPending ==
    ASSUME TypeInv, NEW c \in Client, JobCallback(c), NEW f, Pending(f)
    PROVE  Pending(f)'
<1>1. PICK i \in DOMAIN queue, n \in Nat :
              /\ queue[i] \in Seq(File) /\ n \in 1..Len(queue[i])
              /\ work' = [work EXCEPT ![c].check = SubSeq(queue[i], 1, n)]
              /\ queue' = [queue EXCEPT ![i] = SubSeq(queue[i], n + 1, Len(queue[i]))]
  BY CallbackTakes
<1> DEFINE taken == SubSeq(queue[i], 1, n)
           left == SubSeq(queue[i], n + 1, Len(queue[i]))
<1>2. Range(queue[i]) = Range(taken) \cup Range(left)
  BY <1>1, SubSeqRange
<1>3. /\ work \in [Client -> [check : Seq(File), copy : Seq(File), open : BOOLEAN]]
      /\ work[c] = NoWork
  BY DEF TypeInv, TypeOK, JobCallback, Idle
<1>4. work' = [work EXCEPT ![c].check = taken] /\ queue' = [queue EXCEPT ![i] = left]
  BY <1>1
<1>5. Range(work[c].check) = {} /\ Range(work[c].copy) = {}
  BY <1>3, EmptyRange DEF NoWork
<1> HIDE DEF taken, left
<1>6. /\ work'[c].check = taken
      /\ \A d \in Client \ {c} : work'[d] = work[d]
      /\ DOMAIN queue' = DOMAIN queue /\ queue'[i] = left
      /\ \A j \in DOMAIN queue \ {i} : queue'[j] = queue[j]
  <2>1. work[c] \in [check : Seq(File), copy : Seq(File), open : BOOLEAN]
    BY <1>3
  <2>2. DOMAIN work = Client
    BY <1>3
  <2> QED BY <1>4, <2>1, <2>2
<1>7. CASE \E j \in DOMAIN queue : f \in Range(queue[j])
  <2>1. PICK j \in DOMAIN queue : f \in Range(queue[j])
    BY <1>7
  <2>2. CASE j = i
    BY <1>2, <1>6, <2>1, <2>2 DEF Pending
  <2>3. CASE j # i
    BY <1>6, <2>1, <2>3 DEF Pending
  <2> QED BY <2>2, <2>3
<1>8. CASE \E d \in Client : f \in Range(work[d].check) \cup Range(work[d].copy)
  BY <1>5, <1>6, <1>8 DEF Pending
<1> QED BY <1>7, <1>8 DEF Pending

\* A worker is done with a file when it goes on to the next.
LEMMA WorkerPending ==
    ASSUME TypeInv, Timely, TmpNew, NEW c \in Client, FileCheck(c) \/ FileOpen(c) \/ FileClose(c),
           NEW f \in File \ {AutoConf}, Pending(f)
    PROVE  Pending(f)' \/ Done(f, ent'[PgPath(f)])
<1>1. /\ pc = "jobs" /\ opt \in OptionType /\ queue' = queue
      /\ work[c].check \in Seq(File) /\ work[c].copy \in Seq(File)
      /\ work \in [Client -> [check : Seq(File), copy : Seq(File), open : BOOLEAN]]
  BY WorkerStep
<1>2. work[c] \in [check : Seq(File), copy : Seq(File), open : BOOLEAN] /\ DOMAIN work = Client
  BY <1>1
<1>3. ASSUME NEW w, work' = [work EXCEPT ![c] = w],
             f \in Range(work[c].check) \cup Range(work[c].copy) => f \in Range(w.check) \cup Range(w.copy)
      PROVE  Pending(f)'
  <2>1. work'[c] = w /\ \A d \in Client \ {c} : work'[d] = work[d]
    BY <1>2, <1>3
  <2> QED BY <1>1, <1>3, <2>1 DEF Pending
<1>4. PgPath(f) \in Entry
  BY <1>1, PathOfFile
<1>5. CASE FileCheck(c)
  <2> DEFINE h == Head(work[c].check)
             t == Tail(work[c].check)
             a == Append(work[c].copy, h)
             e == PgPath(h)
             w1 == [check |-> t, copy |-> work[c].copy, open |-> work[c].open]
             w2 == [check |-> t, copy |-> a, open |-> work[c].open]
  <2>1. h \in File /\ t \in Seq(File) /\ Range(work[c].check) = {h} \cup Range(t)
    BY <1>1, <1>5, HeadTailRange DEF FileCheck
  <2>2. Range(a) = Range(work[c].copy) \cup {h}
    BY <1>1, <2>1, AppendRange
  <2>3. \/ Preserve(h) /\ Put(e, [ent[e] EXCEPT !.time = Manifest.file[h].time])
           /\ work' = [work EXCEPT ![c].check = t]
        \/ Put(e, Content(h)) /\ work' = [work EXCEPT ![c].check = t]
        \/ work' = [work EXCEPT ![c].check = t, ![c].copy = a]
    BY <1>5 DEF FileCheck
  <2> HIDE DEF h, t, a
  <2>4. \/ Preserve(h) /\ Put(e, [ent[e] EXCEPT !.time = Manifest.file[h].time])
           /\ work' = [work EXCEPT ![c] = w1]
        \/ Put(e, Content(h)) /\ work' = [work EXCEPT ![c] = w1]
        \/ work' = [work EXCEPT ![c] = w2]
    BY <1>2, <2>3
  <2>5. CASE work' = [work EXCEPT ![c] = w2]
    <3>1. Range(w2.check) \cup Range(w2.copy) = Range(work[c].check) \cup Range(work[c].copy)
      BY <2>1, <2>2
    <3> QED BY <1>3, <2>5, <3>1
  <2>6. CASE h # f /\ work' = [work EXCEPT ![c] = w1]
    <3>1. f \in Range(work[c].check) \cup Range(work[c].copy) => f \in Range(w1.check) \cup Range(w1.copy)
      BY <2>1, <2>6
    <3> QED BY <1>3, <2>6, <3>1
  <2>7. CASE h = f /\ Put(e, Content(h))
    <3>1. ent'[PgPath(f)] = Content(f)
      BY <1>4, <2>7, EntFunction
    <3> QED BY <3>1, ContentIsDone
  <2>8. CASE h = f /\ Preserve(h) /\ Put(e, [ent[e] EXCEPT !.time = Manifest.file[h].time])
    <3>1. ent'[PgPath(f)] = [ent[PgPath(f)] EXCEPT !.time = Manifest.file[f].time]
      BY <1>4, <2>8, EntFunction
    <3> QED BY <1>1, <2>8, <3>1, PreserveIsDone
  <2> QED BY <2>4, <2>5, <2>6, <2>7, <2>8
<1>6. CASE FileOpen(c)
  <2> DEFINE w == [work[c] EXCEPT !.open = TRUE]
  <2>1. w.check = work[c].check /\ w.copy = work[c].copy
    BY <1>2
  <2>2. work' = [work EXCEPT ![c] = w]
    BY <1>6 DEF FileOpen
  <2> HIDE DEF w
  <2> QED BY <1>3, <2>1, <2>2
<1>7. CASE FileClose(c)
  <2> DEFINE h == Head(work[c].copy)
             t == Tail(work[c].copy)
             w == [work[c] EXCEPT !.copy = t, !.open = FALSE]
  <2>1. h \in File /\ t \in Seq(File) /\ Range(work[c].copy) = {h} \cup Range(t)
    BY <1>1, <1>7, HeadTailRange DEF FileClose, Copying
  <2>2. Put(PgPath(h), Content(h)) /\ work' = [work EXCEPT ![c].copy = t, ![c].open = FALSE]
    BY <1>7 DEF FileClose
  <2> HIDE DEF h, t
  <2>3. work' = [work EXCEPT ![c] = w]
    BY <2>2
  <2>4. CASE h = f
    <3>1. ent'[PgPath(f)] = Content(f)
      BY <1>4, <2>2, <2>4, EntFunction
    <3> QED BY <3>1, ContentIsDone
  <2>5. CASE h # f
    <3>1. w.check = work[c].check /\ w.copy = t
      BY <1>2
    <3> HIDE DEF w
    <3>2. f \in Range(work[c].check) \cup Range(work[c].copy) => f \in Range(w.check) \cup Range(w.copy)
      BY <2>1, <2>5, <3>1
    <3> QED BY <1>3, <2>3, <3>2
  <2> QED BY <2>4, <2>5
<1> QED BY <1>5, <1>6, <1>7

\* The jobs are done when nothing is pending.
LEMMA NothingPending ==
    ASSUME TypeInv, JobsDone
    PROVE  \A f : ~Pending(f)
<1>1. \A i \in DOMAIN queue : queue[i] = << >>
  BY DEF JobsDone, Range
<1>2. \A c \in Client : work[c] = NoWork
  BY DEF JobsDone, Idle
<1>3. \A c \in Client : Range(work[c].check) = {} /\ Range(work[c].copy) = {}
  BY <1>2, EmptyRange DEF NoWork
<1> QED BY <1>1, <1>3, EmptyRange DEF Pending

\* It writes no other file.
LEMMA WorkerWrites ==
    ASSUME TypeInv, NEW c \in Client, FileCheck(c) \/ FileOpen(c) \/ FileClose(c),
           NEW f \in File, ~Pending(f)
    PROVE  ent'[PgPath(f)] = ent[PgPath(f)]
<1>1. opt \in OptionType /\ work[c].check \in Seq(File) /\ work[c].copy \in Seq(File)
  BY WorkerStep
<1>2. f \notin Range(work[c].check) \cup Range(work[c].copy)
  BY DEF Pending
<1>3. ASSUME NEW h \in File, NEW v, Put(PgPath(h), v), h # f
      PROVE  ent'[PgPath(f)] = ent[PgPath(f)]
  <2>1. PgPath(h) # PgPath(f)
    BY <1>1, <1>3, PathOfFile
  <2>2. PgPath(f) \in Entry
    BY <1>1, ContentType
  <2> QED BY <1>3, <2>1, <2>2, EntFunction
<1>4. CASE FileCheck(c)
  <2> DEFINE h == Head(work[c].check)
  <2>1. h \in File /\ h # f
    BY <1>1, <1>2, <1>4, HeadTailRange DEF FileCheck
  <2>2. ent' = ent \/ \E v : Put(PgPath(h), v)
    BY <1>4 DEF FileCheck
  <2> HIDE DEF h
  <2> QED BY <1>3, <2>1, <2>2
<1>5. CASE FileOpen(c) \/ FileClose(c)
  <2> DEFINE h == Head(work[c].copy)
  <2>1. h \in File /\ h # f
    BY <1>1, <1>2, <1>5, HeadTailRange DEF FileOpen, FileClose, Copying
  <2>2. \E v : Put(PgPath(h), v)
    BY <1>5 DEF FileOpen, FileClose
  <2> HIDE DEF h
  <2> QED BY <1>3, <2>1, <2>2
<1> QED BY <1>4, <1>5

LEMMA JobsStep ==
    ASSUME TypeInv, Step, pc' = "jobs"
    PROVE  \/ ManifestSave
           \/ \E c \in Client : JobCallback(c) \/ FileCheck(c) \/ FileOpen(c) \/ FileClose(c)
  BY DEF Step, Worker, PathNotEmpty, CleanCheck, ControlRemove, ControlSync, ControlMissing, CleanRemove,
         CleanBuild, FileError, JobsDone, RecoveryOpen, RecoveryClose, RecoveryPreserve, SignalWrite,
         ManifestRemove, PathSync, ControlInvalidate, ControlRename, GlobalSync, End, At, Go

LEMMA SameDone ==
    ASSUME opt' = opt
    PROVE  \A f, c : (Done(f, c)' <=> Done(f, c))
                     /\ (VerDone(f, c)' <=> VerDone(f, c)) /\ (ControlDone(c)' <=> ControlDone(c))
  BY DEF Done, VerDone, ControlDone, Manifest

LEMMA JobsFiles ==
    ASSUME TypeInv, Timely, TmpNew, FilesDone, Step, pc' = "jobs", NEW f \in File \ {AutoConf}
    PROVE  Pending(f)' \/ Done(f, ent'[PgPath(f)])
<1>1. CASE ManifestSave
  <2>1. queue' \in ProcessQueues /\ opt \in OptionType
    BY <1>1, EntFunction DEF ManifestSave
  <2>2. \E i \in DOMAIN queue' : f \in Range(queue'[i])
    BY <2>1, QueuesHoldFiles
  <2> QED BY <2>2 DEF Pending
<1>2. ASSUME NEW c \in Client, JobCallback(c) \/ FileCheck(c) \/ FileOpen(c) \/ FileClose(c)
      PROVE  Pending(f)' \/ Done(f, ent'[PgPath(f)])
  <2>1. pc = "jobs"
    BY <1>2, WorkerStep DEF JobCallback, At
  <2>2. Pending(f) \/ Done(f, ent[PgPath(f)])
    BY <2>1 DEF FilesDone
  <2>3. CASE JobCallback(c)
    <3>1. ent' = ent
      BY <2>3 DEF JobCallback, Directory
    <3> QED BY <2>2, <2>3, <3>1, CallbackPending
  <2>4. CASE (FileCheck(c) \/ FileOpen(c) \/ FileClose(c)) /\ Pending(f)
    BY <2>4, WorkerPending
  <2>5. CASE (FileCheck(c) \/ FileOpen(c) \/ FileClose(c)) /\ ~Pending(f)
    BY <2>2, <2>5, WorkerWrites
  <2> QED BY <1>2, <2>3, <2>4, <2>5
<1> QED BY <1>1, <1>2, JobsStep

\* After that the files are left alone but for pg_control.
LEMMA LaterWrites ==
    ASSUME TypeInv, Clear, Step, pc \in Copied, NEW e \in Entry, ent'[e] # ent[e]
    PROVE  \/ e = AutoConf /\ pc \in {"recovery", "recoveryClose"}
           \/ e = Signal /\ pc = "signal"
           \/ e = SavedManifest /\ pc = "manifest"
           \/ e = ControlTmp /\ pc = "sync" /\ pc' = "rename" /\ Manifest.online /\ Exists(ControlTmp)
              /\ ent'[e] = [ent[e] EXCEPT !.mark = "invalid"]
           \/ e \in {Control, ControlTmp} /\ ControlRename
<1>1. pc \in Cleaned /\ pc \notin {"jobs", "clean", "control"}
  BY DEF Copied, Cleaned
<1>2. CASE ControlRename
  <2>1. pc = "rename"
    BY <1>2 DEF ControlRename, At
  <2> QED BY <1>1, <1>2, <2>1, CleanedWrites
<1>3. CASE ~ControlRename
  <2>1. Writes(e, ent'[e])
    BY <1>1, <1>3, CleanedWrites
  <2> QED BY <1>1, <2>1 DEF Writes
<1> QED BY <1>2, <1>3

LEMMA CopiedStep ==
    ASSUME TypeInv, Step, pc' \in Copied
    PROVE  /\ opt' = opt /\ ~ManifestSave
           /\ pc = "jobs" => JobsDone /\ ent' = ent
           /\ pc \in Copied \cup {"jobs"}
<1>1. /\ opt' = opt /\ ~ManifestSave
      /\ pc = "jobs" => JobsDone
      /\ pc \in Copied \cup {"jobs"}
  BY StepPhases DEF Copied, Cleaned, ManifestSave, Go
<1>2. JobsDone => ent' = ent
  BY DEF JobsDone, Directory
<1> QED BY <1>1, <1>2

LEMMA FilesDoneStep ==
    ASSUME TypeInv, Timely, Clear, TmpNew, FilesDone, [Next]_vars
    PROVE  FilesDone'
<1>1. opt \in OptionType /\ Control \in Entry /\ ControlTmp \in Entry /\ Control # AutoConf
  BY EntFunction, DirAssumption, Names
<1>2. ASSUME pc' \notin Cleaned PROVE FilesDone'
  BY <1>2 DEF FilesDone, Cleaned, Copied
<1>3. CASE Step /\ pc' = "jobs"
  <2>1. opt' = opt /\ File' = File
    <3>1. opt' = opt
      BY <1>3, StepPhases
    <3> QED BY <3>1, SameBackup
  <2>2. \A f \in File \ {AutoConf} : Pending(f)' \/ Done(f, ent'[PgPath(f)])
    BY <1>3, JobsFiles
  <2>3. \A f \in File' \ {AutoConf} : Pending(f)' \/ Done(f, ent[PgPath(f)])'
    BY <2>1, <2>2 DEF Done, VerDone, Manifest
  <2> QED BY <1>3, <2>3 DEF FilesDone, Copied
<1>4. CASE Step /\ pc' \in Copied
  <2>1. opt' = opt /\ pc \in Copied \cup {"jobs"} /\ (pc = "jobs" => JobsDone /\ ent' = ent)
    BY <1>4, CopiedStep
  <2>2. File' = File /\ Manifest' = Manifest
    BY <2>1, SameBackup
  <2>3. pc = "jobs" => \A f \in File \ {AutoConf} : Done(f, ent[PgPath(f)])
    BY <2>1, NothingPending DEF FilesDone
  <2>4. pc' \notin {"rename", "globalSync"} => pc \notin {"rename", "globalSync"}
    BY <1>4, StepPhases DEF Copied, Cleaned
  <2>5. ASSUME NEW f \in File \ {AutoConf, Control} PROVE Done(f, ent'[f])
    <3>1. Done(f, ent[f])
      BY <1>1, <2>1, <2>3, PathOfFile DEF FilesDone
    <3>2. f \in Entry \ {AutoConf, Signal, SavedManifest, ControlTmp, Control}
      BY <1>1, TheBackup
    <3>3. ent'[f] = ent[f]
      BY <1>4, <2>1, <3>2, LaterWrites
    <3> QED BY <3>1, <3>3
  <2>6. ASSUME pc' \notin {"rename", "globalSync"}, Control \in File PROVE Done(Control, ent'[ControlTmp])
    <3>1. Done(Control, ent[ControlTmp])
      BY <1>1, <2>1, <2>3, <2>4, <2>6, PathOfFile DEF FilesDone
    <3>2. ent'[ControlTmp] = ent[ControlTmp]
      <4>1. ~ControlRename
        BY <2>6 DEF ControlRename, Go
      <4> QED BY <1>1, <1>4, <2>1, <2>6, <4>1, LaterWrites, Names
    <3> QED BY <3>1, <3>2
  <2>7. ASSUME pc' = "rename", Control \in File PROVE ControlDone(ent'[ControlTmp])
    <3>1. ControlInvalidate /\ pc = "sync"
      BY <1>4, <2>1, <2>7, StepPhases DEF Copied, Cleaned
    <3>2. Done(Control, ent[ControlTmp]) /\ ent[ControlTmp] \in EntryType
      BY <1>1, <2>7, <3>1, EntFunction DEF FilesDone, Copied, Cleaned
    <3>3. Exists(ControlTmp)
      <4>1. Manifest.file[Control].ver \in 1..Live
        BY <1>1, <2>7, TheBackup
      <4> QED BY <3>2, <4>1 DEF Done, VerDone, Exists, Zero, Absent
    <3>4. CASE Manifest.online
      <4>1. ent'[ControlTmp] = [ent[ControlTmp] EXCEPT !.mark = "invalid"]
        BY <1>1, <3>1, <3>3, <3>4, EntFunction DEF ControlInvalidate
      <4>2. ent'[ControlTmp].ver = ent[ControlTmp].ver /\ ent'[ControlTmp].mark = "invalid"
        BY <3>2, <4>1 DEF EntryType
      <4> QED BY <3>2, <3>4, <4>2 DEF Done, VerDone, ControlDone
    <3>5. CASE ~Manifest.online
      <4>1. ent'[ControlTmp] = ent[ControlTmp]
        BY <3>1, <3>5 DEF ControlInvalidate
      <4> QED BY <3>2, <3>5, <4>1 DEF Done, VerDone, ControlDone
    <3> QED BY <3>4, <3>5
  <2>8. ASSUME pc' = "globalSync", Control \in File PROVE ControlDone(ent'[Control])
    <3>1. ControlRename /\ pc = "rename"
      BY <1>4, <2>1, <2>8, StepPhases DEF Copied, Cleaned
    <3>2. ControlDone(ent[ControlTmp])
      BY <2>8, <3>1 DEF FilesDone
    <3>3. Exists(ControlTmp)
      <4>1. Manifest.file[Control].ver \in 1..Live
        BY <1>1, <2>8, TheBackup
      <4> QED BY <3>2, <4>1 DEF ControlDone, VerDone, Exists, Zero, Absent
    <3>4. ent'[Control] = ent[ControlTmp]
      BY <1>1, <3>1, <3>3, EntFunction, Names DEF ControlRename
    <3> QED BY <3>2, <3>4
  <2>9. /\ \A f \in File' \ {AutoConf, Control} : Done(f, ent[f])'
        /\ pc' \notin {"rename", "globalSync"} /\ Control \in File' => Done(Control, ent[ControlTmp])'
        /\ pc' = "rename" /\ Control \in File' => ControlDone(ent[ControlTmp])'
        /\ pc' = "globalSync" /\ Control \in File' => ControlDone(ent[Control])'
    BY <2>1, <2>2, <2>5, <2>6, <2>7, <2>8 DEF Done, VerDone, ControlDone
  <2>10. pc' # "jobs"
    BY <1>4 DEF Copied, Cleaned
  <2> QED BY <2>9, <2>10 DEF FilesDone
<1>5. CASE Abort \/ HostCrash \/ \E o \in Options : RestoreStart(o)
  BY <1>2, <1>5 DEF Abort, HostCrash, RestoreStart, End, Go, Cleaned
<1>6. CASE PgStart \/ PgStop
  BY <1>2, <1>6 DEF PgStart, PgStop, At, Cleaned
<1>7. CASE UNCHANGED vars
  BY <1>7 DEF vars, FilesDone, Pending, Done, VerDone, ControlDone, File, Preserved, Manifest
<1> QED BY <1>2, <1>3, <1>4, <1>5, <1>6, <1>7 DEF Next, Copied

LEMMA SettledStep ==
    ASSUME TypeInv, Clear, Settled, [Next]_vars
    PROVE  Settled'
<1>1. opt \in OptionType /\ {Control, ControlTmp, AutoConf, Signal, SavedManifest} \subseteq Entry
  BY EntFunction, DirAssumption
<1>2. ASSUME pc' \notin {"signal"} \cup Configured PROVE Settled'
  BY <1>2 DEF Settled, Configured
<1>3. CASE Step /\ pc' \in {"signal"} \cup Configured
  <2>1. pc' \in Copied /\ opt' = opt
    BY <1>3, StepPhases DEF Copied, Cleaned, Configured
  <2>2. pc \in Copied
    BY <1>3, StepPhases DEF Copied, Cleaned, Configured
  <2>3. ASSUME opt.type # "preserve" PROVE ent'[AutoConf].mark = opt.type
    <3>1. CASE RecoveryClose
      BY <1>1, <3>1, EntFunction DEF RecoveryClose, Made
    <3>2. CASE ~RecoveryClose
      <4>1. pc \in {"signal"} \cup Configured
        BY <1>3, <2>3, <3>2, StepPhases DEF Configured, RecoveryPreserve
      <4>2. ent'[AutoConf] = ent[AutoConf]
        BY <1>1, <1>3, <2>2, <4>1, LaterWrites, Names DEF Configured
      <4> QED BY <2>3, <4>1, <4>2 DEF Settled
    <3> QED BY <3>1, <3>2
  <2>4. ASSUME pc' \in Configured, opt.type # "preserve" PROVE Exists(Signal)' = (opt.type # "none")
    <3>1. CASE SignalWrite
      <4>1. ~Exists(Signal)
        BY <2>2, <2>4, <3>1 DEF SignalWrite, At, Clear, Copied, Configured
      <4>2. CASE opt.type = "none"
        BY <3>1, <4>1, <4>2 DEF SignalWrite, Exists
      <4>3. CASE opt.type # "none"
        BY <1>1, <3>1, <4>3, EntFunction DEF SignalWrite, Exists, Made, Absent
      <4> QED BY <4>2, <4>3
    <3>2. CASE ~SignalWrite
      <4>1. pc \in Configured
        BY <1>3, <2>4, <3>2, StepPhases DEF Configured, RecoveryPreserve
      <4>2. ent'[Signal] = ent[Signal]
        BY <1>1, <1>3, <2>2, <4>1, LaterWrites, Names DEF Configured
      <4>3. Exists(Signal)' = Exists(Signal)
        BY <4>2 DEF Exists
      <4> QED BY <2>4, <4>1, <4>3 DEF Settled
    <3> QED BY <3>1, <3>2
  <2>5. ASSUME pc' \in {"sync", "rename", "globalSync"} PROVE ~Exists(SavedManifest)'
    <3>1. CASE ManifestRemove
      BY <1>1, <3>1, EntFunction DEF ManifestRemove, Exists, Nothing
    <3>2. CASE ~ManifestRemove
      <4>1. pc \in {"sync", "rename", "globalSync"}
        BY <1>3, <2>5, <3>2, StepPhases
      <4>2. ent'[SavedManifest] = ent[SavedManifest]
        BY <1>1, <1>3, <2>2, <4>1, LaterWrites, Names
      <4> QED BY <4>1, <4>2 DEF Settled, Exists
    <3> QED BY <3>1, <3>2
  <2>6. ASSUME pc' = "globalSync" PROVE ~Exists(ControlTmp)'
    <3>1. ControlRename
      BY <1>3, <2>6, StepPhases
    <3>2. CASE Exists(ControlTmp)
      BY <1>1, <3>1, <3>2, EntFunction, Names DEF ControlRename, Exists, Nothing
    <3>3. CASE ~Exists(ControlTmp)
      BY <3>1, <3>3 DEF ControlRename, Exists
    <3> QED BY <3>2, <3>3
  <2> QED BY <2>1, <2>3, <2>4, <2>5, <2>6 DEF Settled
<1>4. CASE Abort \/ HostCrash \/ \E o \in Options : RestoreStart(o)
  BY <1>2, <1>4 DEF Abort, HostCrash, RestoreStart, End, Go, Configured
<1>5. CASE PgStart \/ PgStop
  BY <1>2, <1>5 DEF PgStart, PgStop, At, Configured
<1>6. CASE UNCHANGED vars
  BY <1>6 DEF vars, Settled, Exists
<1> QED BY <1>2, <1>3, <1>4, <1>5, <1>6 DEF Next

-----------------------------------------------------------------------------
(* The directory is what was asked for.                                     *)

LEMMA PromiseKept ==
    ASSUME TypeInv, Solid, Clear, FilesDone, Settled, pc = "globalSync"
    PROVE  Promised(ent, opt)
<1>1. opt \in OptionType /\ Backup[opt.set] = Manifest
  BY EntFunction DEF Manifest
<1> DEFINE kept == IF opt.type = "preserve" THEN {AutoConf, Signal} ELSE {}
           Ver(f) == IF f \in opt.zero THEN Zero ELSE Manifest.file[f].ver
           Mark(f) == IF f = Control /\ Manifest.online THEN "invalid" ELSE Manifest.file[f].mark
<1>2. NoStray /\ PathsThere
  BY DEF Clear, Cleaned
<1>3. ASSUME NEW f \in DOMAIN Manifest.file \ {AutoConf}
      PROVE  /\ ent[f].ver = Ver(f) \/ (opt.delta /\ opt.force /\ ent[f].ver = Zero)
             /\ ent[f].mark = Mark(f)
  <2>1. f \in File
    BY <1>1, TheBackup
  <2>2. CASE f = Control
    BY <2>1, <2>2 DEF FilesDone, ControlDone, VerDone
  <2>3. CASE f # Control
    <3>1. Done(f, ent[f])
      BY <2>1, <2>3 DEF FilesDone, Copied, Cleaned
    <3> QED BY <2>3, <3>1 DEF Done, VerDone
  <2> QED BY <2>2, <2>3
<1>4. \A p \in Manifest.path : ent[p].ver # Absent /\ ent[p].mark # "other"
  BY <1>2 DEF PathsThere, Exists
<1>5. ASSUME NEW x \in Entry \ (DOMAIN Manifest.file \cup Manifest.path \cup kept \cup {AutoConf, Signal}),
             Dir[x] \in {PgData} \cup Manifest.path
      PROVE  ent[x] = Nothing
  <2>1. ~Exists(x)
    <3>1. CASE x \in {SavedManifest, ControlTmp}
      BY <3>1 DEF Settled
    <3>2. CASE x \notin {SavedManifest, ControlTmp}
      <4>1. x \notin Named
        BY <1>1, <1>5, <3>2, TheBackup DEF Named, Preserved
      <4> QED BY <1>2, <1>5, <4>1 DEF NoStray
    <3> QED BY <3>1, <3>2
  <2> QED BY <1>5, <2>1 DEF Solid, Exists
<1>6. ASSUME opt.type # "preserve"
      PROVE  ent[AutoConf].mark = opt.type /\ (ent[Signal].ver # Absent) = (opt.type # "none")
  BY <1>6 DEF Settled, Configured, Exists
<1> QED BY <1>1, <1>3, <1>4, <1>5, <1>6 DEF Promised

-----------------------------------------------------------------------------
(* What restore removes.                                                    *)

\* PG_VERSION is in every backup: it is never removed.
LEMMA PgVersionStays ==
    ASSUME TypeInv, [Next]_vars, ~HostCrash, Exists(PgVersion)
    PROVE  Exists(PgVersion)'
<1>1. /\ opt \in OptionType /\ {PgVersion, Control, ControlTmp} \subseteq Entry
      /\ PgVersion \in File /\ PgVersion \notin Path /\ PgVersion \notin {Control, Pid, Signal, SavedManifest}
  BY EntFunction, TheBackup, DirAssumption, Names
<1>2. CASE Step
  <2>1. CASE CleanRemove
    <3>1. PICK e \in Invalid :
            ent' = [x \in Entry |-> IF x = e \/ (Dir[x] = e /\ e \notin Links) THEN Nothing ELSE ent[x]]
      BY <2>1 DEF CleanRemove
    <3>2. e # PgVersion /\ e # Dir[PgVersion]
      BY <1>1, TheBackup, DirAssumption DEF Invalid, Looked
    <3> QED BY <1>1, <3>1, <3>2 DEF Exists
  <2>2. CASE ControlRename
    <3>1. ent'[PgVersion] = ent[PgVersion]
      BY <1>1, <2>2, EntFunction, Names DEF ControlRename
    <3> QED BY <3>1 DEF Exists
  <2>3. ASSUME NEW e \in Entry, NEW c, Put(e, c), Writes(e, c) PROVE Exists(PgVersion)'
    <3>1. ent'[PgVersion] = IF PgVersion = e THEN c ELSE ent[PgVersion]
      BY <1>1, <2>3, EntFunction
    <3> QED BY <1>1, <2>3, <3>1, WritesSolid DEF Exists
  <2> QED BY <1>2, <2>1, <2>2, <2>3, StepWrites DEF Exists
<1>3. CASE Abort \/ (\E o \in Options : RestoreStart(o)) \/ UNCHANGED vars
  BY <1>3 DEF Abort, RestoreStart, Directory, vars, Exists
<1>4. CASE PgStart
  <2>1. ent'[PgVersion] = ent[PgVersion]
    BY <1>1, <1>4, EntFunction DEF PgStart
  <2> QED BY <2>1 DEF Exists
<1>5. CASE PgStop
  BY <1>1, <1>5 DEF PgStop, Exists, Made, Live, Absent
<1> QED BY <1>2, <1>3, <1>4, <1>5 DEF Next

LEMMA LastingStays ==
    ASSUME TypeInv, [Next]_vars, Lasting
    PROVE  Lasting'
<1>1. PgVersion \in Entry
  BY DirAssumption
<1>2. ent'[PgVersion].ver # Absent
  <2>1. CASE HostCrash
    <3>1. PICK c \in AfterCrash : ent' = c
      BY <2>1 DEF HostCrash
    <3>2. ent'[PgVersion] \in {ent[PgVersion], disk[PgVersion]}
      BY <1>1, <3>1, CrashLeaves, DirAssumption
    <3> QED BY <3>2 DEF Lasting, Exists
  <2>2. CASE ~HostCrash
    BY <2>2, PgVersionStays DEF Lasting, Exists
  <2> QED BY <2>1, <2>2
<1>3. disk'[PgVersion] \in {disk[PgVersion], ent[PgVersion], ent'[PgVersion]}
  BY <1>1, ContentsStep
<1> QED BY <1>2, <1>3 DEF Lasting, Exists

LEMMA SyncStep ==
    ASSUME TypeInv, Step, pc' = "sync"
    PROVE  ManifestRemove \/ PathSync
<1>1. ASSUME NEW c \in Client, Worker(c) PROVE pc' # "sync"
  BY <1>1, WorkerStep DEF Worker, JobCallback, FileError, End, At
<1> QED
  BY <1>1 DEF Step, PathNotEmpty, CleanCheck, ControlRemove, ControlSync, ControlMissing, CleanRemove,
         CleanBuild, ManifestSave, JobsDone, RecoveryOpen, RecoveryClose, RecoveryPreserve, SignalWrite,
         ControlInvalidate, ControlRename, GlobalSync, End, At, Go

\* PG_VERSION is there for good before pg_control gets its name.
LEMMA OfPostgresStep ==
    ASSUME TypeInv, FilesDone, OfPostgres, [Next]_vars
    PROVE  OfPostgres'
<1>1. /\ opt \in OptionType /\ {PgVersion, Control, Pid} \subseteq Entry /\ Dir[PgVersion] = PgData
      /\ PgVersion \in File \ {AutoConf, Control} /\ PgData # Global
  BY EntFunction, TheBackup, DirAssumption, Names
<1>2. ASSUME NEW e \in {Control, Pid}, Exists(e)' \/ disk'[e].ver # Absent
      PROVE  Lasting'
  <2>1. CASE \E x \in {Control, Pid} : Exists(x) \/ disk[x].ver # Absent
    BY <2>1, LastingStays DEF OfPostgres
  <2>2. CASE \A x \in {Control, Pid} : ~Exists(x) /\ disk[x].ver = Absent
    <3>1. e \in Entry /\ ent[e].ver = Absent /\ disk[e].ver = Absent
      BY <1>1, <2>2 DEF Exists
    <3>2. ent'[e].ver # Absent
      BY <1>2, <3>1, ContentsStep DEF Exists
    <3>3. ~PgStart
      BY <2>2 DEF PgStart, Startable
    <3>4. ~Writes(e, ent'[e])
      BY <1>2, <3>2, WritesPlaces DEF Nothing
    <3>5. ~Exists(e) /\ ent'[e] \notin {ent[e], disk[e], Nothing}
      BY <3>1, <3>2 DEF Exists, Nothing
    <3>6. ControlRename
      BY <1>2, <3>1, <3>3, <3>4, <3>5, ContentsStep
    <3> QED BY <3>6, LastingStays DEF ControlRename, At, OfPostgres
  <2> QED BY <2>1, <2>2
<1>3. ASSUME (pc' = "sync" /\ PgData \notin sync') \/ pc' \in {"rename", "globalSync"}
      PROVE  Lasting'
  <2>1. CASE Step
    <3>1. CASE pc' = "sync"
      <4>1. CASE ManifestRemove
        BY <1>1, <1>3, <3>1, <4>1 DEF ManifestRemove
      <4>2. CASE PathSync
        <5>1. PICK d \in sync : disk' = Synced(d) /\ sync' = sync \ {d} /\ ent' = ent /\ pc = "sync"
          BY <4>2 DEF PathSync, At
        <5>2. CASE PgData \notin sync
          BY <5>1, <5>2, LastingStays DEF OfPostgres
        <5>3. CASE d = PgData
          <6>1. Done(PgVersion, ent[PgVersion])
            BY <1>1, <5>1 DEF FilesDone, Copied, Cleaned
          <6>2. Exists(PgVersion)
            <7>1. Manifest.file[PgVersion].ver \in 1..Live
              BY <1>1, TheBackup
            <7> QED BY <6>1, <7>1 DEF Done, VerDone, Exists, Zero, Absent
          <6>3. disk'[PgVersion] = ent[PgVersion]
            BY <1>1, <5>1, <5>3 DEF Synced
          <6> QED BY <5>1, <6>2, <6>3 DEF Lasting, Exists
        <5> QED BY <1>3, <3>1, <5>1, <5>2, <5>3
      <4> QED BY <2>1, <3>1, <4>1, <4>2, SyncStep
    <3>2. CASE pc' = "rename"
      <4>1. pc = "sync" /\ PgData \notin sync
        BY <2>1, <3>2, StepPhases DEF ControlInvalidate
      <4> QED BY <4>1, LastingStays DEF OfPostgres
    <3>3. CASE pc' = "globalSync"
      BY <2>1, <3>3, StepPhases, LastingStays DEF OfPostgres
    <3> QED BY <1>3, <3>1, <3>2, <3>3
  <2>2. CASE Abort \/ HostCrash \/ \E o \in Options : RestoreStart(o)
    BY <1>3, <2>2 DEF Abort, HostCrash, RestoreStart, End, Go
  <2>3. CASE PgStart \/ PgStop
    BY <1>3, <2>3 DEF PgStart, PgStop, At
  <2>4. CASE UNCHANGED vars
    BY <1>3, <2>4, LastingStays DEF vars, OfPostgres
  <2> QED BY <2>1, <2>2, <2>3, <2>4 DEF Next
<1> QED BY <1>2, <1>3 DEF OfPostgres

\* Only the end of the files lets backup.manifest go.
LEMMA OwnStays ==
    ASSUME TypeInv, Clear, FilesDone, Step, Own
    PROVE  Own'
<1>1. /\ opt \in OptionType /\ {PgVersion, SavedManifest} \subseteq Entry
      /\ SavedManifest \notin {Control, ControlTmp}
  BY EntFunction, DirAssumption, Names
<1>2. ~HostCrash
  <2>1. UNCHANGED << kind, faults >> /\ faults \in Nat
    BY StepPhases, RestoreAssumption DEF TypeInv, TypeOK
  <2> QED BY <2>1 DEF HostCrash
<1>3. CASE Exists(PgVersion)
  BY <1>2, <1>3, PgVersionStays DEF Next, Own
<1>4. CASE Exists(SavedManifest)
  <2>1. CASE CleanRemove
    <3>1. PICK e \in Invalid :
            ent' = [x \in Entry |-> IF x = e \/ (Dir[x] = e /\ e \notin Links) THEN Nothing ELSE ent[x]]
      BY <2>1 DEF CleanRemove
    <3>2. e # SavedManifest /\ e # Dir[SavedManifest]
      BY DirAssumption DEF Invalid, Looked, Ignored
    <3> QED BY <1>1, <1>4, <3>1, <3>2 DEF Exists, Own
  <2>2. CASE ControlRename
    <3>1. ent'[SavedManifest] = ent[SavedManifest]
      BY <1>1, <2>2, EntFunction DEF ControlRename
    <3> QED BY <1>4, <3>1 DEF Exists, Own
  <2>3. CASE pc = "manifest"
    <3>1. Done(PgVersion, ent[PgVersion]) /\ Manifest.file[PgVersion].ver \in 1..Live
      BY <1>1, <2>3, TheBackup, Names DEF FilesDone, Copied, Cleaned
    <3>2. Exists(PgVersion)
      BY <3>1 DEF Done, VerDone, Exists, Zero, Absent
    <3> QED BY <1>2, <3>2, PgVersionStays DEF Next, Own
  <2>4. ASSUME pc # "manifest", NEW e \in Entry, NEW c, Put(e, c), Writes(e, c)
        PROVE  Exists(SavedManifest)'
    <3>1. ent'[SavedManifest] = IF SavedManifest = e THEN c ELSE ent[SavedManifest]
      BY <1>1, <2>4, EntFunction
    <3>2. e = SavedManifest => c # Nothing
      <4>1. \A f \in File : PgPath(f) # SavedManifest
        BY <1>1, TheBackup, Names DEF PgPath
      <4>2. Made(1, Now, "none") # Nothing /\ Made(opt.set, Now, "none") # Nothing
        BY <1>1, TheBackup DEF Made, Nothing, Absent
      <4> QED BY <1>1, <2>4, <4>1, <4>2, Names DEF Writes
    <3>3. e = SavedManifest => c.ver # Absent
      BY <2>4, <3>2, WritesSolid
    <3> QED BY <1>4, <3>1, <3>3 DEF Exists
  <2> QED BY <1>4, <2>1, <2>2, <2>3, <2>4, StepWrites DEF Own, Exists
<1> QED BY <1>3, <1>4 DEF Own

LEMMA AllowedStep ==
    ASSUME TypeInv, Clear, FilesDone, Allowed, [Next]_vars
    PROVE  Allowed'
<1>1. /\ opt \in OptionType /\ {PgVersion, SavedManifest, Control} \subseteq Entry
      /\ Control \notin Path /\ Dir[Control] = Global /\ Global \in Manifest.path
  BY EntFunction, TheBackup, DirAssumption
<1>2. CASE Step
  <2>1. CASE pc' \in {"control", "controlSync", "clean"}
    <3>1. opt' = opt /\ pc \in {"check", "control", "controlSync", "clean"}
      BY <1>2, <2>1, StepPhases
    <3>2. CASE Own
      BY <1>2, <2>1, <3>2, OwnStays DEF Allowed
    <3>3. CASE ~Own
      <4>1. Invalid = {} /\ ~Exists(Control)
        <5>1. CASE pc = "check"
          <6>1. CleanCheck /\ ~Clean
            BY <1>2, <2>1, <3>3, <5>1, StepPhases DEF Allowed
          <6>2. Looked = {}
            BY <6>1 DEF CleanCheck, NotEmpty
          <6>3. Control \notin Ignored
            BY Names DEF Ignored, Preserved
          <6> QED BY <1>1, <6>2, <6>3 DEF Invalid, Looked
        <5>2. CASE pc # "check"
          BY <3>1, <3>3, <5>2 DEF Allowed
        <5> QED BY <5>1, <5>2
      <4>2. ~CleanRemove /\ ~ControlRename
        BY <3>1, <4>1 DEF CleanRemove, ControlRename, At
      <4>3. ~Exists(Control)'
        BY <1>2, <4>1, <4>2, ControlStays DEF Exists, Nothing
      <4>4. Invalid' = {}
        <5>1. ASSUME NEW e \in Invalid' PROVE ent'[e] # ent[e]
          <6>1. Manifest' = Manifest /\ File' = File /\ Ignored' = Ignored
            BY <3>1 DEF Manifest, File, Preserved, Ignored
          <6> QED BY <4>1, <5>1, <6>1 DEF Invalid, Looked, Exists
        <5>2. ASSUME NEW x \in Entry, NEW c, Put(x, c), Writes(x, c) PROVE Invalid' = {}
          <6> SUFFICES ASSUME NEW e \in Invalid' PROVE FALSE
            OBVIOUS
          <6>1. e \in Entry /\ ent'[e] # ent[e] /\ Exists(e)'
            BY <5>1 DEF Invalid, Looked
          <6>2. e = x /\ ent'[e] = c
            BY <5>2, <6>1, EntFunction
          <6>3. x \in Missing /\ c = Made(1, Now, "none")
            <7>1. c # Nothing
              BY <6>1, <6>2 DEF Exists, Nothing
            <7>2. pc \in {"check", "control", "controlSync", "clean"} /\ pc' # "jobs"
              BY <2>1, <3>1
            <7> QED BY <5>2, <7>1, <7>2 DEF Writes
          <6>4. e \in Manifest'.path
            BY <3>1, <6>2, <6>3 DEF Missing, Manifest
          <6>5. ent'[e].mark = "other"
            BY <6>4 DEF Invalid
          <6> QED BY <6>2, <6>3, <6>5 DEF Made
        <5>3. CASE ent' = ent
          BY <5>1, <5>3
        <5> QED BY <1>2, <4>2, <5>2, <5>3, StepWrites
      <4> QED BY <2>1, <4>3, <4>4 DEF Allowed
    <3> QED BY <3>2, <3>3
  <2>2. CASE pc' = "jobs"
    <3>1. CASE ManifestSave
      <4>1. ent'[SavedManifest] = Made(opt.set, Now, "none") /\ opt.set \in 1..Live
        BY <1>1, <3>1, EntFunction, TheBackup DEF ManifestSave
      <4> QED BY <2>2, <4>1 DEF Allowed, Exists, Made, Absent
    <3>2. CASE ~ManifestSave
      <4>1. pc = "jobs" /\ Exists(SavedManifest)
        BY <1>2, <2>2, <3>2, StepPhases DEF Allowed
      <4>2. ~Writes(SavedManifest, ent'[SavedManifest])
        <5>1. \A f \in File : PgPath(f) # SavedManifest
          BY <1>1, TheBackup, Names DEF PgPath
        <5> QED BY <4>1, <5>1 DEF Writes
      <4>3. ent'[SavedManifest] = ent[SavedManifest]
        BY <1>1, <1>2, <4>1, <4>2, CleanedWrites, Names DEF Cleaned
      <4> QED BY <2>2, <4>1, <4>3 DEF Allowed, Exists
    <3> QED BY <3>1, <3>2
  <2>3. CASE pc' \notin {"control", "controlSync", "clean", "jobs"}
    <3>1. pc' # "check"
      BY <1>2, StepPhases
    <3> QED BY <2>3, <3>1 DEF Allowed
  <2> QED BY <2>1, <2>2, <2>3
<1>3. ASSUME NEW o \in Options, RestoreStart(o) PROVE Allowed'
  <2>1. ent' = ent /\ pc' = "check" /\ opt' = DeltaOf(o)
    BY <1>3 DEF RestoreStart, Go, Directory
  <2>2. ~Own => ~opt'.delta /\ ~opt'.force
    <3>1. o \in OptionType
      BY RestoreAssumption
    <3> QED BY <2>1, <3>1 DEF DeltaOf, Own, OptionType
  <2>3. Own' = Own
    BY <2>1 DEF Own, Exists
  <2> QED BY <2>1, <2>2, <2>3 DEF Allowed, Clean
<1>4. CASE Abort \/ HostCrash
  BY <1>4 DEF Abort, HostCrash, End, Allowed
<1>5. CASE PgStart \/ PgStop
  BY <1>5 DEF PgStart, PgStop, At, Allowed
<1>6. CASE UNCHANGED vars
  BY <1>6 DEF vars, Allowed, Clean, Own, Exists, Invalid, Looked, Ignored, Manifest, File, Preserved
<1> QED BY <1>2, <1>3, <1>4, <1>5, <1>6 DEF Next

\* What has happened to a directory that restore may not remove from.
LEMMA NotOwnStep ==
    ASSUME TypeInv, Clear, FilesDone, Allowed, Step, ~Own
    PROVE  /\ pc \notin Cleaned /\ ~CleanRemove /\ ~ControlRename
           /\ \A e \in Entry : ent'[e] # ent[e] => e \in Path \cup {SavedManifest}
<1>1. opt \in OptionType /\ PgVersion \in File \ {AutoConf, Control}
  BY EntFunction, TheBackup, Names
<1>2. pc # "jobs"
  BY DEF Allowed, Own
<1>3. pc \notin Copied
  <2> SUFFICES ASSUME pc \in Copied PROVE Exists(PgVersion)
    BY DEF Own
  <2>1. Done(PgVersion, ent[PgVersion]) /\ Manifest.file[PgVersion].ver \in 1..Live
    BY <1>1, TheBackup DEF FilesDone
  <2> QED BY <2>1 DEF Done, VerDone, Exists, Zero, Absent
<1>4. ~CleanRemove /\ ~ControlRename
  BY <1>3 DEF CleanRemove, ControlRename, At, Allowed, Copied, Cleaned
<1>5. ASSUME NEW e \in Entry, NEW c, Put(e, c), Writes(e, c), NEW x \in Entry, ent'[x] # ent[x]
      PROVE  x \in Path \cup {SavedManifest}
  <2>1. x = e /\ ent'[e] = c
    BY <1>5, EntFunction
  <2>2. CASE pc = "control"
    <3>1. ~Exists(Control)
      BY <2>2 DEF Allowed
    <3> QED BY <1>5, <2>2, <3>1 DEF Writes
  <2>3. CASE pc # "control"
    <3>1. Missing \subseteq Path
      BY <1>1, TheBackup DEF Missing
    <3> QED BY <1>2, <1>3, <1>5, <2>1, <2>3, <3>1 DEF Writes, Copied, Cleaned
  <2> QED BY <2>2, <2>3
<1> QED BY <1>2, <1>3, <1>4, <1>5, StepWrites DEF Copied

LEMMA NotBegunStep ==
    ASSUME TypeInv, Clear, FilesDone, Allowed, NotBegun, [Next]_vars
    PROVE  NotBegun'
<1>1. CASE Step
  <2> SUFFICES ASSUME "host" \notin kind, ~Own', NEW s \in Set, NEW f \in DOMAIN Backup[s].file
               PROVE  ent'[f] = whole'[f]
    BY <1>1, StepPhases DEF NotBegun
  <2>1. ~Own
    BY <1>1, OwnStays
  <2>2. f \in Entry /\ f \notin Path \cup {SavedManifest}
    BY BackupAssumption
  <2>3. ent'[f] = ent[f] /\ ~ControlRename
    BY <1>1, <2>1, <2>2, NotOwnStep
  <2>4. ent[f] = whole[f]
    BY <2>1 DEF NotBegun
  <2>5. whole' = whole
    BY <1>1, <2>3, StepPhases
  <2> QED BY <2>3, <2>4, <2>5
<1>2. CASE Abort \/ \E o \in Options : RestoreStart(o)
  <2>1. ent' = ent /\ whole' = whole /\ kind' = kind
    BY <1>2 DEF Abort, RestoreStart, Directory, Fault
  <2> QED BY <2>1 DEF NotBegun, Own, Exists
<1>3. CASE HostCrash
  BY <1>3 DEF HostCrash, NotBegun
<1>4. CASE PgStart \/ PgStop
  BY <1>4 DEF PgStart, PgStop, NotBegun
<1>5. CASE UNCHANGED vars
  BY <1>5 DEF vars, NotBegun, Own, Exists
<1> QED BY <1>1, <1>2, <1>3, <1>4, <1>5 DEF Next

LEMMA RemovesOwnStep ==
    ASSUME TypeInv, Clear, FilesDone, Allowed, OfPostgres, Next
    PROVE  RemovesOwn
<1> SUFFICES ASSUME NEW e \in Entry, Exists(e), ent'[e] = Nothing, faults' = faults, ~Own
             PROVE  FALSE
  BY DEF RemovesOwn, Own
<1>1. ent'[e] # ent[e] /\ {Control, Pid, Signal} \subseteq Entry
  BY DirAssumption DEF Exists, Nothing
<1>2. CASE Step
  <2>1. e \in Path \cup {SavedManifest} /\ ~CleanRemove /\ ~ControlRename /\ pc \notin Cleaned
    BY <1>1, <1>2, NotOwnStep
  <2>2. Writes(e, Nothing)
    <3>1. PICK x \in Entry : \E c : Put(x, c) /\ Writes(x, c)
      BY <1>1, <1>2, <2>1, StepWrites
    <3>2. Writes(x, ent'[x]) /\ x = e
      BY <1>1, <3>1, EntFunction
    <3> QED BY <3>2
  <2>3. e \in {Control, SavedManifest}
    BY <2>2, WritesSolid DEF Nothing
  <2>4. e # SavedManifest
    BY DEF Own
  <2>5. Control \notin Path \cup {SavedManifest}
    BY DirAssumption, Names
  <2> QED BY <2>1, <2>3, <2>4, <2>5
<1>3. CASE Abort \/ HostCrash
  <2>1. faults' = faults + 1 /\ faults \in Nat
    BY <1>3, RestoreAssumption DEF Abort, HostCrash, TypeInv, TypeOK
  <2> QED BY <2>1
<1>4. CASE PgStart
  BY <1>4 DEF PgStart, Startable, OfPostgres, Lasting, Own
<1>5. CASE PgStop
  BY <1>5 DEF PgStop, OfPostgres, Lasting, Own
<1>6. CASE \E o \in Options : RestoreStart(o)
  BY <1>1, <1>6 DEF RestoreStart, Directory
<1> QED BY <1>2, <1>3, <1>4, <1>5, <1>6 DEF Next

LEMMA InitAllowed ==
    ASSUME Init
    PROVE  Clear /\ TmpNew /\ FilesDone /\ Settled /\ Allowed /\ OfPostgres /\ NotBegun
<1>1. ent \in Clusters /\ disk = ent /\ whole = ent /\ pc = "idle"
  BY DEF Init
<1>2. Clear /\ TmpNew /\ FilesDone /\ Settled /\ Allowed
  BY <1>1 DEF Clear, TmpNew, FilesDone, Settled, Allowed, Cleaned, Copied, Configured
<1>3. OfPostgres
  BY <1>1, ClusterAssumption DEF OfPostgres, Lasting, Exists
<1> QED BY <1>1, <1>2, <1>3 DEF NotBegun

\* All that holds while restores, PostgreSQL and faults follow each other.
RestoreInv ==
    /\ TypeInv /\ Solid /\ Timely
    /\ Clear /\ TmpNew /\ FilesDone /\ Settled
    /\ Allowed /\ OfPostgres /\ NotBegun

LEMMA Inductive ==
    /\ Init => RestoreInv
    /\ RestoreInv /\ [Next]_vars => RestoreInv'
<1>1. Init => RestoreInv
  BY InitTypeInv, InitTimely, InitAllowed DEF RestoreInv
<1>2. RestoreInv /\ [Next]_vars => RestoreInv'
  BY NextType, SolidStep, TimelyStep, ClearStep, TmpNewStep, FilesDoneStep, SettledStep,
     AllowedStep, OfPostgresStep, NotBegunStep DEF RestoreInv
<1> QED BY <1>1, <1>2

-----------------------------------------------------------------------------
(* Crashes of the host.                                                     *)

\* Only what is in directories that are not there may differ.
LEMMA SeenAlike ==
    ASSUME NEW a \in [Entry -> EntryType], NEW b \in [Entry -> EntryType],
           \A x \in Entry : a[x] = b[x] \/ (Dir[x] \in Path /\ b[Dir[x]].ver = Absent)
    PROVE  Seen(a) = Seen(b) /\ Seen(WithPaths(a)) = Seen(b)
<1>1. \A x \in Entry : Dir[x] \in Path =>
         Dir[x] \in Entry /\ Dir[Dir[x]] = PgData /\ PgData \notin Path
  BY DirAssumption
<1>2. \A x \in Entry : Dir[x] \in Path => a[Dir[x]] = b[Dir[x]]
  BY <1>1
<1>3. Seen(a) = Seen(b)
  BY <1>1, <1>2 DEF Seen
<1> DEFINE c == WithPaths(a)
<1>4. \A x \in Entry : c[x] = IF Dir[x] \in Path \ Links /\ a[Dir[x]].ver = Absent THEN Nothing ELSE a[x]
  BY DEF WithPaths
<1> HIDE DEF c
<1>5. \A x \in Entry : Dir[x] \in Path => c[Dir[x]] = a[Dir[x]]
  BY <1>1, <1>4
<1>6. \A x \in Entry :
         (IF Dir[x] \in Path /\ c[Dir[x]].ver = Absent THEN Nothing ELSE c[x])
           = IF Dir[x] \in Path /\ b[Dir[x]].ver = Absent THEN Nothing ELSE b[x]
  BY <1>1, <1>2, <1>4, <1>5
<1>7. Seen(c) = Seen(b)
  BY <1>6 DEF Seen
<1> QED BY <1>3, <1>7 DEF c

\* A crash while pg_control is there with all that belongs to it, or when it
\* may come back or be lost.
LEMMA CrashKeeps ==
    ASSUME TypeInv, ControlAway, OnlyCrashes, CrashSafe, NEW c \in AfterCrash, c[Control].ver # Absent
    PROVE  Seen(c) = Seen(whole)
<1>1. PICK r \in [Entry -> EntryType] :
         /\ c = WithPaths(r)
         /\ \A x \in Entry : r[x] \in {ent[x], disk[x]} /\ c[x] \in {r[x], Nothing}
         /\ Ordered /\ Exists(Control) /\ r[Control] # disk[Control]
               => \A x \in Entry : Dir[x] = Global => r[x] = ent[x]
  BY CrashLeaves
<1>2. /\ ent \in [Entry -> EntryType] /\ disk \in [Entry -> EntryType]
      /\ Control \in Entry /\ Control \notin Path /\ pc \in Pcs
  BY EntFunction, DirAssumption DEF TypeInv, Phases
<1>3. r[Control].ver # Absent
  BY <1>1, <1>2 DEF Nothing
<1>4. ~Guarded
  BY <1>1, <1>2, <1>3 DEF Guarded, Exists
<1>5. CASE pc \in {"idle", "check", "control"}
  <2>1. Seen(ent) = Seen(whole) /\ \A x \in Entry : Steady(x)
    BY <1>4, <1>5 DEF CrashSafe
  <2>2. \A x \in Entry : r[x] = ent[x] \/ (Dir[x] \in Path /\ ent[Dir[x]].ver = Absent)
    BY <1>1, <2>1 DEF Steady, Fixed, Hidden, Exists
  <2> QED BY <1>1, <1>2, <2>1, <2>2, SeenAlike
<1>6. CASE pc = "controlSync"
  <2> DEFINE b == [ent EXCEPT ![Control] = disk[Control]]
  <2>1. Seen(b) = Seen(whole) /\ \A x \in Entry \ {Control} : Steady(x)
    BY <1>6 DEF CrashSafe
  <2>2. b \in [Entry -> EntryType] /\ \A x \in Entry : b[x] = IF x = Control THEN disk[Control] ELSE ent[x]
    BY <1>2
  <2>3. r[Control] = disk[Control]
    BY <1>1, <1>2, <1>3, <1>6 DEF ControlAway, Exists
  <2> HIDE DEF b
  <2>4. \A x \in Entry : r[x] = b[x] \/ (Dir[x] \in Path /\ b[Dir[x]].ver = Absent)
    <3> SUFFICES ASSUME NEW x \in Entry \ {Control}, ~Fixed(x)
                 PROVE  Dir[x] \in Path /\ b[Dir[x]].ver = Absent
      BY <1>1, <2>2, <2>3 DEF Fixed
    <3>1. Dir[x] \in Path /\ ~Exists(Dir[x])
      BY <2>1 DEF Steady, Hidden
    <3>2. Dir[x] \in Entry /\ Dir[x] # Control
      BY <1>2, <3>1, DirAssumption
    <3> QED BY <2>2, <3>1, <3>2 DEF Exists
  <2> QED BY <1>1, <2>1, <2>2, <2>4, SeenAlike
<1>7. CASE pc = "globalSync"
  <2>1. /\ ent = whole /\ disk[Control].ver = Absent
        /\ \A x \in Entry : Dir[x] # Global => Steady(x)
    BY <1>7 DEF CrashSafe
  <2>2. Exists(Control) /\ r[Control] # disk[Control]
    BY <1>1, <1>2, <1>3, <2>1 DEF Exists
  <2>3. \A x \in Entry : r[x] = ent[x] \/ (Dir[x] \in Path /\ ent[Dir[x]].ver = Absent)
    BY <1>1, <2>1, <2>2 DEF OnlyCrashes, Steady, Fixed, Hidden, Exists
  <2> QED BY <1>1, <1>2, <2>1, <2>3, SeenAlike
<1>8. pc \in {"idle", "check", "control", "controlSync", "globalSync"}
  BY <1>2, <1>4 DEF CrashSafe, Pcs, Cleaned
<1> QED BY <1>5, <1>6, <1>7, <1>8

\* Nothing of what was changed is still to be synced.
LEMMA SafeAtRest ==
    ASSUME pc' = "idle", disk' = ent', Exists(Control)' => Seen(ent)' = Seen(whole)'
    PROVE  CrashSafe'
<1>1. \A x \in Entry : Steady(x)'
  BY DEF Steady, Fixed
<1> QED BY <1>1 DEF CrashSafe, Guarded, Exists, Cleaned

\* The steps that do not need to care: pg_control is away for good.
LEMMA GuardedStays ==
    ASSUME TypeInv, ControlAway, CrashSafe, OnlyCrashes, Step,
           pc \in {"clean"} \cup (Cleaned \ {"globalSync"})
    PROVE  disk'[Control].ver = Absent
<1>1. ~Exists(Control) /\ disk[Control].ver = Absent
  BY DEF CrashSafe, Guarded
<1>2. ~ControlRename => ent'[Control] \in {ent[Control], Nothing}
  BY ControlStays
<1>3. CASE ControlRename
  BY <1>1, <1>3 DEF ControlRename
<1>4. CASE ~ControlRename
  <2>1. disk'[Control] \in {disk[Control], ent[Control], ent'[Control]}
    BY ContentsStep, DirAssumption DEF Next
  <2> QED BY <1>1, <1>2, <1>4, <2>1 DEF Exists, Nothing
<1> QED BY <1>3, <1>4

\* The steps there are in three of the phases.
LEMMA StepsOf ==
    ASSUME TypeInv, Step
    PROVE  /\ pc = "check" => PathNotEmpty \/ CleanCheck
           /\ pc = "sync" => PathSync \/ ControlInvalidate
           /\ pc = "globalSync" => GlobalSync
<1>1. ASSUME NEW w \in Client, Worker(w) PROVE pc = "jobs"
  <2>1. CASE JobCallback(w)
    BY <2>1 DEF JobCallback, At
  <2>2. CASE FileCheck(w) \/ FileOpen(w) \/ FileClose(w)
    BY <1>1, <2>2, WorkerStep
  <2>3. CASE FileError(w)
    BY <1>1, <2>3, Working DEF FileError, Copying, NoWork
  <2> QED BY <1>1, <2>1, <2>2, <2>3 DEF Worker
<1> QED BY <1>1 DEF Step, PathNotEmpty, CleanCheck, ControlRemove, ControlSync, ControlMissing, CleanRemove, CleanBuild,
         ManifestSave, JobsDone, RecoveryOpen, RecoveryClose, RecoveryPreserve, SignalWrite, ManifestRemove,
         PathSync, ControlInvalidate, ControlRename, GlobalSync, At

\* Before the rename all but what is in global was synced.
LEMMA SyncedStep ==
    ASSUME TypeInv, CrashSafe, OnlyCrashes, Step, pc' \in {"sync", "rename"}, NEW x \in Entry, Dir[x] \in InSync'
    PROVE  Fixed(x)'
<1>1. x \notin {Control, ControlTmp} /\ Dir[x] # Global
  <2>1. Dir[x] # Global
    BY DEF InSync, ToSync
  <2> QED BY <2>1, DirAssumption
<1>2. ent \in [Entry -> EntryType] /\ disk \in [Entry -> EntryType]
  BY EntFunction
<1>3. CASE ManifestRemove
  BY <1>3 DEF ManifestRemove, InSync, ToSync, Manifest, Go
<1>4. CASE pc = "sync" /\ PathSync
  <2>1. PICK d \in sync : disk' = Synced(d) /\ sync' = sync \ {d}
    BY <1>4 DEF PathSync
  <2>2. ent' = ent /\ opt' = opt /\ pc' = "sync"
    BY <1>4 DEF PathSync
  <2>3. Dir[x] = d \/ Dir[x] \in InSync
    BY <1>4, <2>1, <2>2 DEF InSync, ToSync, Manifest
  <2>4. Dir[x] # d => Fixed(x)
    BY <1>4, <2>3 DEF CrashSafe
  <2> QED BY <1>2, <2>1, <2>2, <2>4 DEF Synced, Fixed
<1>5. CASE pc = "sync" /\ ControlInvalidate
  <2>1. sync = {} /\ opt' = opt /\ pc' = "rename" /\ disk' = Kept(ControlTmp)
        /\ (ent' = ent \/ \E c : Put(ControlTmp, c))
    BY <1>5 DEF ControlInvalidate, Go, Command
  <2>2. Dir[x] \in InSync
    BY <1>5, <2>1 DEF InSync, ToSync, Manifest
  <2>3. Fixed(x)
    BY <1>5, <2>2 DEF CrashSafe
  <2>4. ent'[x] = ent[x]
    BY <1>1, <2>1, EntFunction
  <2>5. disk'[x] = disk[x]
    BY <1>1, <1>2, <2>1 DEF Kept
  <2> QED BY <2>3, <2>4, <2>5 DEF Fixed
<1> QED BY <1>3, <1>4, <1>5, StepsOf, StepPhases

\* The removal of pg_control: a crash may bring it back, and nothing else.
LEMMA RemoveSafe ==
    ASSUME TypeInv, CrashSafe, OnlyCrashes, ControlRemove
    PROVE  CrashSafe'
<1>1. ent \in [Entry -> EntryType] /\ disk \in [Entry -> EntryType] /\ Control \in Entry /\ Control \notin Path
  BY EntFunction, DirAssumption
<1>2. /\ pc = "control" /\ pc' = "controlSync" /\ Exists(Control) /\ disk' = disk /\ whole' = whole
      /\ ent' = [ent EXCEPT ![Control] = Nothing]
  BY DEF ControlRemove, At, Go, Put
<1>3. Seen(ent) = Seen(whole) /\ \A x \in Entry : Steady(x)
  BY <1>2 DEF CrashSafe, Guarded
<1>4. \A x \in Entry \ {Control} : Steady(x)'
  <2> SUFFICES ASSUME NEW x \in Entry \ {Control} PROVE Steady(x)'
    OBVIOUS
  <2>1. Fixed(x) => Fixed(x)'
    BY <1>1, <1>2 DEF Fixed
  <2>2. Hidden(x) => Hidden(x)'
    BY <1>1, <1>2, DirAssumption DEF Hidden, Exists
  <2> QED BY <1>3, <2>1, <2>2 DEF Steady
<1> DEFINE b == [ent EXCEPT ![Control] = disk[Control]]
<1>5. Seen(b) = Seen(ent)
  <2>1. b \in [Entry -> EntryType] /\ \A x \in Entry : b[x] = IF x = Control THEN disk[x] ELSE ent[x]
    BY <1>1
  <2>2. \A x \in Entry : b[x] = ent[x] \/ (Dir[x] \in Path /\ ent[Dir[x]].ver = Absent)
    BY <1>1, <1>3, <2>1 DEF Steady, Fixed, Hidden, Exists
  <2> QED BY <1>1, <2>1, <2>2, SeenAlike
<1>6. [ent EXCEPT ![Control] = disk[Control]]' = b
  BY <1>1, <1>2
<1>7. Seen([ent EXCEPT ![Control] = disk[Control]])' = Seen(b)
  <2>1. [ent EXCEPT ![Control] = disk[Control]]' \in [Entry -> EntryType]
        /\ \A x \in Entry : [ent EXCEPT ![Control] = disk[Control]]'[x] = b[x]
    BY <1>1, <1>6
  <2>2. b \in [Entry -> EntryType]
    BY <1>1
  <2> HIDE DEF b
  <2> QED BY <2>1, <2>2, SeenAlike
<1>8. Seen(whole)' = Seen(whole)
  BY <1>2 DEF Seen
<1> QED BY <1>2, <1>3, <1>4, <1>5, <1>7, <1>8 DEF CrashSafe, Cleaned

\* The rename: what is not in global was synced or is out of sight.
LEMMA RenameSafe ==
    ASSUME TypeInv, ControlAway, Clear, CrashSafe, OnlyCrashes, ControlRename
    PROVE  CrashSafe'
<1>1. /\ pc = "rename" /\ pc' = "globalSync" /\ whole' = ent' /\ disk' = disk /\ opt' = opt
      /\ \A x \in Entry \ {Control, ControlTmp} : ent'[x] = ent[x]
  BY EntFunction DEF ControlRename, At, Go, Command
<1>2. disk[Control].ver = Absent /\ \A x \in Entry : Dir[x] \in ToSync => Fixed(x)
  BY <1>1 DEF CrashSafe, Guarded, Cleaned, InSync
<1>3. opt \in OptionType /\ {Control, ControlTmp} \cap Path = {}
  BY EntFunction, DirAssumption
<1>4. ASSUME NEW x \in Entry, Dir[x] # Global PROVE Steady(x)'
  <2>1. x \notin {Control, ControlTmp}
    BY <1>4, DirAssumption
  <2>2. CASE Dir[x] \in ToSync
    BY <1>1, <1>2, <2>1, <2>2 DEF Steady, Fixed
  <2>3. CASE Dir[x] \notin ToSync
    <3> DEFINE d == Dir[x]
    <3>1. d \in Path /\ d \notin Manifest.path /\ d \in Entry /\ Dir[d] = PgData
      BY <1>3, <1>4, <2>3, TheBackup, DirAssumption DEF ToSync, Path, Entry, Range
    <3>2. d \notin Named
      BY <1>3, <3>1, TheBackup, DirAssumption DEF Named, Preserved
    <3>3. ~Exists(d)
      BY <1>1, <3>1, <3>2 DEF Clear, NoStray, Cleaned
    <3>4. ent'[d] = ent[d]
      BY <1>1, <1>3, <3>1
    <3> QED BY <3>1, <3>3, <3>4 DEF Steady, Hidden, Exists
  <2> QED BY <2>2, <2>3
<1> QED BY <1>1, <1>2, <1>4 DEF CrashSafe, Cleaned

\* The last sync: pg_control has its name for good.
LEMMA GlobalSafe ==
    ASSUME TypeInv, CrashSafe, OnlyCrashes, GlobalSync
    PROVE  CrashSafe'
<1>1. /\ pc = "globalSync" /\ pc' = "idle" /\ ent' = ent /\ whole' = whole /\ disk' = Synced(Global)
  BY DEF GlobalSync, At, End
<1>2. /\ ent = whole /\ disk[Control].ver = Absent
      /\ \A x \in Entry : Dir[x] # Global => Steady(x)
  BY <1>1 DEF CrashSafe
<1>3. \A x \in Entry : disk'[x] = IF Dir[x] = Global THEN ent[x] ELSE disk[x]
  BY <1>1 DEF Synced
<1>4. \A x \in Entry : Steady(x)'
  BY <1>1, <1>2, <1>3 DEF Steady, Fixed, Hidden, Exists
<1>5. disk'[Control] = ent[Control]
  BY <1>3, DirAssumption
<1>6. Seen(ent)' = Seen(whole)'
  BY <1>1, <1>2
<1> QED BY <1>1, <1>4, <1>5, <1>6 DEF CrashSafe, Guarded, Exists, Cleaned

\* What a crash may bring back stays what PostgreSQL may be started on.
LEMMA CrashSafeStep ==
    ASSUME TypeInv, ControlAway, Clear, CrashSafe, [Next]_vars, ControlAway'
    PROVE  CrashSafe'
<1> SUFFICES ASSUME OnlyCrashes PROVE CrashSafe'
  <2>1. kind' = kind
    BY StepPhases DEF Next, Abort, HostCrash, PgStart, PgStop, RestoreStart, Fault, vars
  <2> QED BY <2>1 DEF CrashSafe, OnlyCrashes
<1>1. ASSUME UNCHANGED Directory, pc \in {"idle", "check"}, pc' \in {"idle", "check", "control"}
      PROVE  CrashSafe'
  BY <1>1 DEF CrashSafe, Directory, Guarded, Exists, Steady, Fixed, Hidden, Seen, Cleaned
<1>2. CASE Step
  <2>1. CASE ControlRemove \/ ControlRename \/ GlobalSync
    BY <2>1, RemoveSafe, RenameSafe, GlobalSafe
  <2>2. CASE PathNotEmpty \/ CleanCheck
    BY <1>1, <2>2 DEF PathNotEmpty, CleanCheck, At, Go, End
  <2>3. CASE ControlMissing
    <3>1. Guarded
      BY <2>3 DEF ControlMissing, At, CrashSafe
    <3> QED BY <2>3, <3>1 DEF ControlMissing, Go, Directory, CrashSafe, Guarded, Exists, Cleaned
  <2>4. CASE ControlSync
    <3>1. disk'[Control] = ent[Control] /\ ~Exists(Control) /\ ent' = ent /\ pc' = "clean"
      BY <2>4, DirAssumption DEF ControlSync, Synced, ControlAway, At, Go
    <3> QED BY <3>1 DEF CrashSafe, Guarded, Exists, Cleaned
  <2>5. CASE pc \in {"clean"} \cup (Cleaned \ {"globalSync"}) /\ ~ControlRename
    <3>1. disk'[Control].ver = Absent
      BY <1>2, <2>5, GuardedStays
    <3>2. pc' \in {"idle", "clean"} \cup (Cleaned \ {"globalSync"}) /\ (pc' = "idle" => ent' = ent)
      BY <1>2, <2>5, StepPhases DEF Cleaned
    <3>3. Guarded'
      BY <2>5, <3>1, <3>2 DEF CrashSafe, ControlAway, Guarded, Exists, Cleaned
    <3> QED BY <1>2, <3>2, <3>3, SyncedStep DEF CrashSafe, Cleaned
  <2> QED BY <1>2, <2>1, <2>2, <2>3, <2>4, <2>5, StepPhases, StepsOf DEF Cleaned
<1>3. CASE HostCrash
  <2>1. PICK c \in AfterCrash : ent' = c /\ disk' = c
    BY <1>3 DEF HostCrash
  <2>2. pc' = "idle" /\ whole' = whole
    BY <1>3 DEF HostCrash, End
  <2>3. ASSUME Exists(Control)' PROVE Seen(c) = Seen(whole)
    BY <2>1, <2>3, CrashKeeps DEF Exists
  <2>4. Seen(ent)' = Seen(c) /\ Seen(whole)' = Seen(whole)
    BY <2>1, <2>2 DEF Seen
  <2> QED BY <2>1, <2>2, <2>3, <2>4, SafeAtRest
<1>4. CASE PgStart \/ PgStop
  <2>1. pc' = "idle" /\ disk' = ent' /\ whole' = ent'
    BY <1>4 DEF PgStart, PgStop, At
  <2>2. Seen(ent)' = Seen(whole)'
    BY <2>1
  <2> QED BY <2>1, <2>2, SafeAtRest
<1>5. CASE \E o \in Options : RestoreStart(o)
  <2>1. pc = "idle" /\ pc' = "check" /\ UNCHANGED Directory
    BY <1>5 DEF RestoreStart, At, Go
  <2> QED BY <1>1, <2>1
<1>6. CASE UNCHANGED vars
  BY <1>6 DEF vars, CrashSafe, Guarded, Exists, Steady, Fixed, Hidden, Seen, InSync, ToSync, Manifest
<1> QED BY <1>2, <1>3, <1>4, <1>5, <1>6 DEF Next, Abort, OnlyCrashes

\* PostgreSQL can only be started on what it has left itself or on what a restore
\* has finished: however often restore is killed, and however often the host
\* crashes when the order of changes in a directory is kept.
THEOREM NotHalfRestored == Spec => []("host" \notin kind \/ OnlyCrashes => NeverHalfRestored)
<1> DEFINE I == TypeInv /\ ControlAway /\ Untouched /\ Clear /\ CrashSafe
<1>1. Init => I
  <2> SUFFICES ASSUME Init PROVE I
    OBVIOUS
  <2>1. pc = "idle" /\ ent = disk /\ ent = whole
    BY DEF Init
  <2>2. CrashSafe
    BY <2>1 DEF CrashSafe, Guarded, Exists, Steady, Fixed, Cleaned
  <2> QED BY <2>1, <2>2, InitTypeInv, InitAllowed DEF ControlAway, Untouched, Cleaned
<1>2. I /\ [Next]_vars => I'
  BY NextType, ControlAwayStep, UntouchedStep, ClearStep, CrashSafeStep
<1>3. I => ("host" \notin kind \/ OnlyCrashes => NeverHalfRestored)
  <2> SUFFICES ASSUME I, OnlyCrashes, Startable PROVE Seen(ent) = Seen(whole)
    BY DEF Untouched, NeverHalfRestored, Startable
  <2>1. Exists(Control) /\ pc \in {"idle", "check", "control", "globalSync"}
    BY DEF Startable, ControlAway, TypeInv, Phases, Pcs, Cleaned
  <2>2. pc # "globalSync" => Seen(ent) = Seen(whole)
    BY <2>1 DEF CrashSafe, Guarded
  <2>3. pc = "globalSync" => ent = whole
    BY DEF CrashSafe
  <2> QED BY <2>2, <2>3
<1> QED BY <1>1, <1>2, <1>3, PTL DEF Spec

\* When pg_control gets its name the directory is what the restore was asked
\* for: whatever was there before and whatever faults there were.
THEOREM Restored == Spec => []RestoredAsAsked
<1>1. RestoreInv => RestoredAsAsked
  BY PromiseKept DEF RestoreInv, RestoredAsAsked, At
<1> QED BY <1>1, Inductive, PTL DEF Spec

\* Nothing is removed from a directory that neither looks like PostgreSQL's nor
\* like one an earlier restore has left, also after a crash of the host.
THEOREM RemovesOnlyOwn == Spec => OnlyOwnDirectory
<1>1. RestoreInv /\ [Next]_vars => [RemovesOwn]_vars
  BY RemovesOwnStep DEF RestoreInv
<1> QED BY <1>1, Inductive, PTL DEF Spec, OnlyOwnDirectory

\* Whenever restore is killed: if neither backup.manifest nor PG_VERSION is
\* there no file has been changed, so that --delta can take up what has begun.
THEOREM CanBeContinued == Spec => []CanContinue
<1>1. RestoreInv => CanContinue
  BY DEF RestoreInv, NotBegun, CanContinue, Own
<1> QED BY <1>1, Inductive, PTL DEF Spec

-----------------------------------------------------------------------------
(* What restore decides before it touches the data directory: a lemma per   *)
(* kind of call says that what the call returns is right.                   *)

\* A set of numbers has a least one.
LEMMA LeastNumber ==
    ASSUME NEW T \in SUBSET Nat, T # {}
    PROVE  \E x \in T : \A y \in T : x <= y
<1> DEFINE Less == {p \in Nat \X Nat : p[1] < p[2]}
<1>1. IsWellFoundedOn(Less, Nat)
  BY NatLessThanWellFounded DEF OpToRel
<1>2. PICK x \in T : \A y \in T : ~ (<< y, x >> \in Less)
  BY <1>1, WFMin
<1>3. ASSUME NEW y \in T PROVE x <= y
  <2>1. ~ (y < x)
    BY <1>2
  <2> QED BY <2>1
<1> QED BY <1>3

LEMMA MinIs ==
    ASSUME NEW T \in SUBSET Nat, T # {}
    PROVE  Min(T) \in T
<1>1. \E x \in T : \A y \in T : x <= y
  BY LeastNumber
<1> QED BY <1>1 DEF Min

\* A set of numbers up to n has a greatest one.
LEMMA MaxIs ==
    ASSUME NEW n \in Nat, NEW T \in SUBSET (0..n), T # {}
    PROVE  Max(T) \in T /\ \A y \in T : y <= Max(T)
<1> DEFINE U == {n - x : x \in T}
<1>1. PICK u \in U : \A y \in U : u <= y
  <2>1. \A x \in T : n - x \in Nat
    OBVIOUS
  <2>2. U \in SUBSET Nat /\ U # {}
    BY <2>1
  <2> HIDE DEF U
  <2> QED BY <2>2, LeastNumber
<1>2. PICK x \in T : u = n - x
  BY <1>1
<1>3. ASSUME NEW y \in T PROVE x >= y
  <2>1. n - y \in U
    OBVIOUS
  <2> QED BY <1>1, <1>2, <2>1
<1>4. \E z \in T : \A y \in T : z >= y
  BY <1>3
<1>5. Max(T) \in T /\ \A y \in T : Max(T) >= y
  BY <1>4 DEF Max
<1> QED BY <1>5

-----------------------------------------------------------------------------
(* The backup set.                                                          *)

\* The set that one repository gives is right for it.
LEMMA RepoSet ==
    ASSUME NEW a \in SetCalls, NEW n \in DOMAIN a.repos, BackupInRepo(a.repos[n], a.option) \notin {NoSet, InvalidSet}
    PROVE  IsRight(BackupInRepo(a.repos[n], a.option), a.repos[n], a.option)
<1> DEFINE o == a.option
           r == a.repos[n]
           Backups == DOMAIN r.backups
           reach == {i \in Backups : Reaches(r, o, i)}
           InTime(b) == EndsBefore(b, o)
           Right(i) ==
               /\ r.load /\ r.backups[i].label = BackupInRepo(r, o)
               /\ o.set = 0 /\ o.type \in Pitr =>
                     InTime(r.backups[i]) /\ \A j \in DOMAIN r.backups : j > i => ~InTime(r.backups[j])
               /\ o.set = 0 /\ o.type \notin Pitr => r.backups[i].pg = r.pg
<1> SUFFICES \E i \in Backups : Right(i)
  BY Zenon DEF IsRight
<1>1. r \in RepoType /\ r \in Range(a.repos) /\ o \in [type : STRING, target : Nat, set : Nat, repo : 0..Len(a.repos)]
  BY SetAssumption DEF Range
<1>2. r.backups \in Seq(BackupType) /\ Len(r.backups) \in Nat /\ Backups = 1..Len(r.backups)
  BY <1>1 DEF RepoType
<1>3. \A i \in Backups : r.backups[i] \in BackupType /\ r.backups[i].pg <= r.pg /\ r.backups[i].pg \in Nat
                    /\ r.backups[i].lsn \in Nat /\ r.backups[i].stop \in Nat
  <2> SUFFICES ASSUME NEW i \in Backups
               PROVE  r.backups[i] \in BackupType /\ r.backups[i].pg <= r.pg /\ r.backups[i].pg \in Nat
                      /\ r.backups[i].lsn \in Nat /\ r.backups[i].stop \in Nat
    OBVIOUS
  <2>1. r.backups[i] \in BackupType
    BY <1>2, ElementOfSeq
  <2>2. r.backups[i] \in Range(r.backups)
    BY DEF Range
  <2>3. r.backups[i].pg <= r.pg
    BY <1>1, <2>2, SetAssumption
  <2> QED BY <2>1, <2>3 DEF BackupType
<1>4. r.load /\ Backups # {}
  BY DEF BackupInRepo
<1>5. CASE o.set # 0
  <2>1. PICK i \in Backups : r.backups[i].label = o.set
    BY <1>4, <1>5 DEF BackupInRepo
  <2>2. BackupInRepo(r, o) = o.set
    BY <1>4, <1>5, <2>1 DEF BackupInRepo
  <2>3. Right(i)
    BY <1>4, <1>5, <2>1, <2>2
  <2> QED BY <2>1, <2>3
<1>6. CASE o.set = 0 /\ o.type \in Pitr
  <2>1. reach # {} /\ BackupInRepo(r, o) = r.backups[Max(reach)].label
    BY <1>4, <1>6 DEF BackupInRepo
  <2> DEFINE i == Max(reach)
  <2>2. i \in reach /\ \A j \in reach : j <= i
    <3>1. reach \in SUBSET (0..Len(r.backups))
      BY <1>2
    <3> HIDE DEF reach
    <3> QED BY <1>2, <2>1, <3>1, MaxIs
  <2>3. i \in Backups /\ Reaches(r, o, i) /\ \A j \in Backups : j > i => ~Reaches(r, o, j)
    <3>1. i \in Backups /\ Reaches(r, o, i) /\ i \in Nat
      BY <1>2, <2>2
    <3>2. ASSUME NEW j \in Backups, j > i PROVE ~Reaches(r, o, j)
      <4>1. ~ (j <= i)
        BY <1>2, <3>1, <3>2
      <4> HIDE DEF i
      <4> QED BY <2>2, <4>1
    <3> QED BY <3>1, <3>2
  <2> HIDE DEF i
  <2>4. InTime(r.backups[i]) /\ \A j \in Backups : j > i => ~InTime(r.backups[j])
    <3>1. CASE o.type = "time"
      BY <2>3, <3>1 DEF Reaches, EndsBefore
    <3>2. CASE o.type # "time"
      <4>1. r.backups[i].lsn <= o.target /\ \A j \in i..Len(r.backups) : r.backups[j].lsn # 0
        BY <2>3, <3>2 DEF Reaches
      <4>2. InTime(r.backups[i])
        BY <1>1, <1>2, <1>3, <2>3, <3>2, <4>1 DEF EndsBefore
      <4>3. ASSUME NEW j \in Backups, j > i PROVE ~InTime(r.backups[j])
        <5>1. \A k \in j..Len(r.backups) : r.backups[k].lsn # 0
          BY <1>2, <2>3, <4>1, <4>3
        <5>2. ~ (r.backups[j].lsn <= o.target)
          BY <2>3, <3>2, <4>3, <5>1 DEF Reaches
        <5> QED BY <1>1, <1>3, <3>2, <5>2 DEF EndsBefore
      <4> QED BY <4>2, <4>3
    <3> QED BY <3>1, <3>2
  <2>5. Right(i)
    BY <1>4, <1>6, <2>1, <2>4 DEF i
  <2> QED BY <2>3, <2>5
<1>7. CASE o.set = 0 /\ o.type \notin Pitr
  <2> DEFINE i == Len(r.backups)
  <2>1. i \in Backups /\ Last(r.backups) = r.backups[i]
    BY <1>2, <1>4 DEF Last
  <2>2. ~ (r.backups[i].pg < r.pg) /\ BackupInRepo(r, o) = r.backups[i].label
    BY <1>4, <1>7, <2>1 DEF BackupInRepo
  <2>3. r.backups[i].pg = r.pg
    <3>1. r.pg \in Nat
      BY <1>1 DEF RepoType
    <3> QED BY <1>3, <2>1, <2>2, <3>1
  <2>4. Right(i)
    BY <1>4, <1>7, <2>2, <2>3
  <2> QED BY <2>1, <2>4
<1> QED BY <1>5, <1>6, <1>7

LEMMA SetRight ==
    ASSUME NEW a \in SetCalls, call = Called("set", a, RestoreBackupSet(a.repos, a.option))
    PROVE  SetReachesTarget
<1> DEFINE found == {i \in Searched(a.repos, a.option) : BackupInRepo(a.repos[i], a.option) # NoSet}
           n == Min(found)
<1>1. call.arg = a /\ call.result = RestoreBackupSet(a.repos, a.option)
  BY DEF Called
<1>2. SUFFICES ASSUME call.result.set # InvalidSet PROVE SetReachesTarget
  BY DEF SetReachesTarget
<1>3. found # {} /\ call.result = [repo |-> n, set |-> BackupInRepo(a.repos[n], a.option)]
  BY <1>1, <1>2 DEF RestoreBackupSet
<1>4. Searched(a.repos, a.option) \subseteq DOMAIN a.repos /\ DOMAIN a.repos \subseteq Nat
  BY SetAssumption DEF Searched
<1>5. n \in found
  <2>1. found \in SUBSET Nat
    BY <1>4
  <2> HIDE DEF found
  <2> QED BY <1>3, <2>1, MinIs
<1>6. n \in DOMAIN a.repos /\ BackupInRepo(a.repos[n], a.option) \notin {NoSet, InvalidSet}
  BY <1>2, <1>3, <1>4, <1>5
<1>7. call.result.repo = n /\ call.result.set = BackupInRepo(a.repos[n], a.option)
  BY <1>3
<1> HIDE DEF n, found
<1>8. IsRight(call.result.set, a.repos[n], a.option)
  BY <1>6, <1>7, RepoSet
<1> QED BY <1>1, <1>7, <1>8 DEF SetReachesTarget

-----------------------------------------------------------------------------
(* Selective restore.                                                       *)

\* A database that is named is one of the cluster, or there is none.
LEMMA DbIdIs ==
    ASSUME NEW a, NEW x
    PROVE  DbId(a, x) \in DbList(a) \cup {0}
<1> DEFINE named == {d.id : d \in {d \in a.db : d.name = x.name}} \cap DbList(a)
<1>1. CASE x.id \in DbList(a)
  BY <1>1 DEF DbId
<1>2. CASE x.id \notin DbList(a) /\ named = {}
  BY <1>2 DEF DbId
<1>3. CASE x.id \notin DbList(a) /\ named # {}
  <2>1. (CHOOSE i \in named : TRUE) \in named
    BY <1>3
  <2>2. DbId(a, x) = CHOOSE i \in named : TRUE
    BY <1>3 DEF DbId
  <2> QED BY <2>1, <2>2
<1> QED BY <1>1, <1>2, <1>3

LEMMA SelectRight ==
    ASSUME NEW a, call = Called("select", a, RestoreSelectiveExpression(a))
    PROVE  SelectiveSafe
<1>1. call.arg = a /\ call.result = RestoreSelectiveExpression(a)
  BY DEF Called
<1>2. SUFFICES ASSUME call.result # {0} PROVE SelectiveSafe
  BY DEF SelectiveSafe
<1> DEFINE excluded == DbIds(a, a.exclude)
           included == DbIds(a, a.include)
<1>3. SUFFICES /\ call.result \cap included = {} /\ call.result \cap SystemDb(a) \subseteq excluded
               /\ excluded \subseteq call.result
               /\ a.include # {} => DbList(a) \ (SystemDb(a) \cup included) \subseteq call.result
  BY <1>1 DEF SelectiveSafe
<1>4. CASE a.include \cup a.exclude = {}
  BY <1>1, <1>4 DEF RestoreSelectiveExpression, DbIds
<1>5. CASE a.include \cup a.exclude # {}
  <2>1. ~SelectError(a) /\ call.result = Zeroed(a)
    BY <1>1, <1>2, <1>5 DEF RestoreSelectiveExpression
  <2>2. 0 \notin DbIds(a, a.exclude \cup a.include) /\ included \cap (SystemDb(a) \cup excluded) = {}
    BY <2>1 DEF SelectError
  <2>3. excluded \subseteq DbList(a)
    <3>1. excluded \subseteq DbIds(a, a.exclude \cup a.include)
      BY DEF DbIds
    <3>2. excluded \subseteq DbList(a) \cup {0}
      BY DbIdIs DEF DbIds
    <3> QED BY <2>2, <3>1, <3>2
  <2>4. CASE a.include = {}
    BY <2>1, <2>4 DEF Zeroed, DbIds
  <2>5. CASE a.include # {}
    <3>1. call.result = (DbList(a) \ included) \ (SystemDb(a) \ excluded)
      BY <2>1, <2>5 DEF Zeroed
    <3> HIDE DEF included, excluded
    <3> QED BY <2>2, <2>3, <3>1
  <2> QED BY <2>4, <2>5
<1> QED BY <1>4, <1>5

-----------------------------------------------------------------------------
(* Recovery settings.                                                       *)

\* The settings that restore may write itself.
LEMMA OwnNames ==
    ASSUME NEW a \in RecoveryCalls, NEW s \in OwnSettings(a)
    PROVE  \/ s[1] \in {"recovery_target_action", "recovery_target_inclusive", "restore_command", "archive_mode"}
           \/ s[1] = "recovery_target_timeline" /\ (a.timeline = None => a.type = "immediate")
           \/ s[1] = "standby_mode" /\ a.type = "standby"
           \/ s[1] = TargetName(a.type) /\ a.type \notin {"none", "default", "standby"}
<1> DEFINE pitr == a.type \in {"lsn", "time", "name", "xid"}
           S1 == Setting(a.timeline = None /\ a.type = "immediate" /\ a.guc, "recovery_target_timeline", "current")
           S2 == Setting(a.timeline # None /\ (a.guc \/ a.timeline # "current"), "recovery_target_timeline", a.timeline)
           S3 == Setting(a.action \notin {None, "pause"}, "recovery_target_action", a.action)
           S4 == Setting(pitr /\ a.exclusive, "recovery_target_inclusive", "false")
           S5 == Setting(pitr, TargetName(a.type), a.target)
           S6 == Setting(a.type = "standby" /\ ~a.guc, "standby_mode", "on")
           S7 == Setting(a.type = "immediate", "recovery_target", "immediate")
           S8 == Setting("restore_command" \notin DOMAIN a.option, "restore_command", "archive-get")
           S9 == Setting(a.archiveOff, "archive_mode", "off")
<1>1. s \in S1 \/ s \in S2 \/ s \in S3 \/ s \in S4 \/ s \in S5 \/ s \in S6 \/ s \in S7 \/ s \in S8 \/ s \in S9
  BY Zenon DEF OwnSettings
<1>2. CASE s \in S1
  BY <1>2 DEF Setting
<1>3. CASE s \in S2
  BY <1>3 DEF Setting
<1>4. CASE s \in S3 \/ s \in S4 \/ s \in S8 \/ s \in S9
  BY <1>4 DEF Setting
<1>5. CASE s \in S5
  BY <1>5 DEF Setting
<1>6. CASE s \in S6
  BY <1>6 DEF Setting
<1>7. CASE s \in S7
  BY <1>7 DEF Setting, TargetName
<1> QED BY <1>1, <1>2, <1>3, <1>4, <1>5, <1>6, <1>7

LEMMA TargetWritten ==
    ASSUME NEW a \in RecoveryCalls, a.type \notin {"none", "default", "standby"}
    PROVE  \E s \in OwnSettings(a) : s[1] = TargetName(a.type)
<1>1. a.type \in {"immediate", "lsn", "time", "name", "xid"}
  BY RecoveryAssumption
<1>2. CASE a.type = "immediate"
  <2>1. << "recovery_target", "immediate" >> \in OwnSettings(a)
    BY <1>2 DEF OwnSettings, Setting
  <2> QED BY <1>2, <2>1 DEF TargetName
<1>3. CASE a.type # "immediate"
  <2>1. << TargetName(a.type), a.target >> \in OwnSettings(a)
    BY <1>1, <1>3 DEF OwnSettings, Setting
  <2> QED BY <2>1
<1> QED BY <1>2, <1>3

LEMMA TargetNames ==
    ASSUME NEW t \in {"immediate", "lsn", "time", "name", "xid"}
    PROVE  TargetName(t) \in RecoveryTargets
BY DEF TargetName, RecoveryTargets

\* Names of the settings of a recovery.
LEMMA OptionNames ==
    ASSUME NEW a
    PROVE  DOMAIN RestoreRecoveryOption(a) = {s[1] : s \in OwnSettings(a)} \cup DOMAIN a.option
BY DEF RestoreRecoveryOption

LEMMA RecoveryRight ==
    ASSUME NEW a \in RecoveryCalls, call = Called("recovery", a, RestoreRecoveryWrite(a))
    PROVE  OneTarget
<1> DEFINE new == IF a.type = "none" THEN << >> ELSE RestoreRecoveryOption(a)
           old == IF a.guc THEN DOMAIN a.old \ TargetSettings ELSE {}
           set == DOMAIN call.result.setting
           names == {s[1] : s \in OwnSettings(a)}
<1>1. call.arg = a /\ call.result = RestoreRecoveryWrite(a)
  BY DEF Called
<1>2. SUFFICES ASSUME call.result.signal # Error PROVE OneTarget
  BY DEF OneTarget
<1>3. SUFFICES /\ set \cap RecoveryTargets =
                      IF a.type \in {"none", "default", "standby"} THEN {} ELSE {TargetName(a.type)}
               /\ set # {} /\ "restore_command" \in set \ DOMAIN a.old => call.result.signal # None
               /\ a.timeline = None /\ "recovery_target_timeline" \in set => a.type = "immediate"
               /\ (call.result.signal = "standby.signal" \/ "standby_mode" \in set \ (DOMAIN a.option \cup DOMAIN a.old)) =>
                      a.type = "standby"
  BY <1>1 DEF OneTarget
<1>4. ~RecoveryError(a)
  BY <1>1, <1>2 DEF RestoreRecoveryWrite
<1>5. set = DOMAIN new \cup old /\ (call.result.signal = "standby.signal" => a.type = "standby")
      /\ (a.type # "none" => call.result.signal # None)
  <2>1. CASE a.guc
    <3>1. call.result = RestoreRecoveryWriteAutoConf(a)
      BY <1>1, <1>4, <2>1 DEF RestoreRecoveryWrite
    <3>2. set = DOMAIN new \cup old
      BY <2>1, <3>1 DEF RestoreRecoveryWriteAutoConf
    <3>3. call.result.signal = IF a.type = "none" THEN None
                               ELSE IF a.type = "standby" THEN "standby.signal" ELSE "recovery.signal"
      BY <3>1 DEF RestoreRecoveryWriteAutoConf
    <3> QED BY <3>2, <3>3 DEF None
  <2>2. CASE ~a.guc
    <3>1. call.result = RestoreRecoveryWriteConf(a)
      BY <1>1, <1>4, <2>2 DEF RestoreRecoveryWrite
    <3> QED BY <2>2, <3>1 DEF RestoreRecoveryWriteConf, None
  <2> QED BY <2>1, <2>2
<1>6. CASE a.type = "none"
  <2>1. DOMAIN new = {}
    BY <1>6
  <2>2. set = old
    BY <1>5, <2>1
  <2> HIDE DEF set
  <2> QED BY <1>5, <1>6, <2>2 DEF TargetSettings
<1>7. CASE a.type # "none"
  <2>1. set = names \cup DOMAIN a.option \cup old
    BY <1>5, <1>7, OptionNames
  <2>2. DOMAIN a.option \cap TargetSettings = {} /\ old \cap TargetSettings = {}
    BY RecoveryAssumption
  <2>3. RecoveryTargets \subseteq TargetSettings /\ "recovery_target_timeline" \in TargetSettings
    BY DEF TargetSettings
  <2>4. set \cap RecoveryTargets = names \cap RecoveryTargets
    BY <2>1, <2>2, <2>3
  <2>5. names \cap RecoveryTargets = IF a.type \in {"none", "default", "standby"} THEN {} ELSE {TargetName(a.type)}
    <3>1. CASE a.type \in {"none", "default", "standby"}
      BY <3>1, OwnNames DEF RecoveryTargets
    <3>2. CASE a.type \notin {"none", "default", "standby"}
      <4>1. names \cap RecoveryTargets \subseteq {TargetName(a.type)}
        BY OwnNames DEF RecoveryTargets
      <4>2. TargetName(a.type) \in names /\ TargetName(a.type) \in RecoveryTargets
        BY <3>2, TargetWritten, TargetNames, RecoveryAssumption
      <4> QED BY <3>2, <4>1, <4>2
    <3> QED BY <3>1, <3>2
  <2>6. a.timeline = None /\ "recovery_target_timeline" \in set => a.type = "immediate"
    <3>1. SUFFICES ASSUME a.timeline = None, "recovery_target_timeline" \in names PROVE a.type = "immediate"
      BY <2>1, <2>2, <2>3
    <3>2. TargetName(a.type) # "recovery_target_timeline" \/ a.type \in {"none", "default", "standby"}
      BY TargetNames, RecoveryAssumption DEF RecoveryTargets
    <3> QED BY <3>1, <3>2, OwnNames
  <2>7. "standby_mode" \in set \ (DOMAIN a.option \cup DOMAIN a.old) => a.type = "standby"
    <3>1. SUFFICES ASSUME "standby_mode" \in names PROVE a.type = "standby"
      BY <2>1
    <3>2. TargetName(a.type) # "standby_mode" \/ a.type \in {"none", "default", "standby"}
      BY TargetNames, RecoveryAssumption DEF RecoveryTargets
    <3> QED BY <3>1, <3>2, OwnNames
  <2> QED BY <1>5, <1>7, <2>4, <2>5, <2>6, <2>7
<1> QED BY <1>6, <1>7

-----------------------------------------------------------------------------
(* Links.                                                                   *)

\* A sequence is its front and its last element.
LEMMA FrontLast ==
    ASSUME NEW S, NEW s \in Seq(S), Len(s) >= 1
    PROVE  Append(Front(s), Last(s)) = s
<1>1. Len(s) \in Nat /\ s \in [1..Len(s) -> S]
  OBVIOUS
<1>2. Front(s) = [i \in 1..(Len(s) - 1) |-> s[i]] /\ Front(s) \in Seq(S) /\ Len(Front(s)) = Len(s) - 1
  <2>1. Front(s) = [i \in 1..(Len(s) - 1) |-> s[i]]
    BY <1>1 DEF Front
  <2> QED BY <1>1, <2>1
<1>3. Last(s) = s[Len(s)] /\ Last(s) \in S
  BY <1>1 DEF Last
<1>4. Append(Front(s), Last(s)) \in Seq(S) /\ Len(Append(Front(s), Last(s))) = Len(s)
  BY <1>1, <1>2, <1>3
<1>5. ASSUME NEW i \in 1..Len(s) PROVE Append(Front(s), Last(s))[i] = s[i]
  <2>1. CASE i = Len(s)
    <3>1. Append(Front(s), Last(s))[Len(Front(s)) + 1] = Last(s)
      BY <1>2, <1>3, AppendProperties
    <3> QED BY <1>1, <1>2, <1>3, <2>1, <3>1
  <2>2. CASE i # Len(s)
    <3>1. i \in 1..(Len(s) - 1) /\ i \in 1..Len(Front(s))
      <4>1. Len(s) \in Nat /\ Len(Front(s)) = Len(s) - 1
        BY <1>1, <1>2
      <4> QED BY <2>2, <4>1
    <3>2. Append(Front(s), Last(s))[i] = Front(s)[i]
      BY <1>2, <1>3, <3>1, AppendProperties
    <3> QED BY <1>2, <3>1, <3>2
  <2> QED BY <2>1, <2>2
<1> QED BY <1>4, <1>5, SeqEqual, Zenon

\* A link that is mapped leads where it is mapped to.
LEMMA LinkTargetIs ==
    ASSUME NEW a \in MapCalls, ~LinkMapError(a), NEW n \in DOMAIN a.linkMap
    PROVE  Destination(LinkTarget(a, n)) = a.linkMap[n]
<1> DEFINE to == a.linkMap[n]
<1>1. to \in Seq(STRING \ {None}) /\ Len(to) \in Nat
  BY MapAssumption
<1>2. CASE LinkIsFile(a, n)
  <2>1. Len(to) >= 2
    BY <1>1, <1>2 DEF LinkMapError
  <2>2. LinkTarget(a, n).path = Front(to) /\ LinkTarget(a, n).file = Last(to)
    BY <1>2 DEF LinkTarget
  <2>3. Last(to) # None
    BY <1>1, <2>1 DEF Last
  <2>4. Append(Front(to), Last(to)) = to
    BY <1>1, <2>1, FrontLast
  <2> HIDE DEF to
  <2>5. Destination(LinkTarget(a, n)) = Append(Front(to), Last(to))
    BY <2>2, <2>3 DEF Destination
  <2> QED BY <2>4, <2>5 DEF to
<1>3. CASE ~LinkIsFile(a, n)
  BY <1>3 DEF LinkTarget, Destination
<1> QED BY <1>2, <1>3

\* What was asked for a tablespace is where it goes.
LEMMA TblspcPlaced ==
    ASSUME NEW a, ~TblspcMapError(a), NEW n \in DOMAIN a.target, IsTblspc(a.target[n])
    PROVE  TblspcAsked(a, n) \subseteq {TblspcPath(a, n)}
<1> DEFINE asked == TblspcAsked(a, n)
<1>1. ~ (Cardinality(asked) > 1)
  BY DEF TblspcMapError
<1>2. asked \subseteq {a.tblspcMap[a.target[n].tblspc], a.tblspcMap[a.target[n].name]}
  BY DEF TblspcAsked
<1>3. IsFiniteSet(asked)
  <2>1. IsFiniteSet({a.tblspcMap[a.target[n].tblspc], a.tblspcMap[a.target[n].name]})
    <3>1. \A x, y : IsFiniteSet({x} \cup {y})
      BY FS_Singleton, FS_AddElement
    <3>2. ASSUME NEW x, NEW y PROVE IsFiniteSet({x, y})
      <4>1. {x, y} = {x} \cup {y}
        OBVIOUS
      <4> QED BY <3>1, <4>1
    <3> QED BY <3>2, Zenon
  <2> QED BY <1>2, <2>1, FS_Subset
<1>4. \A x, y \in asked : x = y
  <2>1. SUFFICES ASSUME NEW x \in asked, NEW y \in asked, x # y PROVE FALSE
    OBVIOUS
  <2>2. {x} \subseteq asked /\ {x} # asked
    BY <2>1
  <2> HIDE DEF asked
  <2>3. Cardinality({x}) <= Cardinality(asked) /\ Cardinality({x}) # Cardinality(asked)
    BY <1>3, <2>2, FS_Subset, Zenon
  <2>4. Cardinality({x}) = 1 /\ Cardinality(asked) \in Nat
    BY <1>3, FS_Singleton, FS_CardinalityType
  <2> QED BY <1>1, <2>3, <2>4
<1>5. ASSUME asked # {} PROVE TblspcPath(a, n) \in asked
  <2>1. a.target[n].name \in DOMAIN a.tblspcMap \/ a.target[n].tblspc \in DOMAIN a.tblspcMap
    BY <1>5 DEF TblspcAsked
  <2> QED BY <2>1 DEF TblspcPath, TblspcAsked
<1> QED BY <1>4, <1>5

LEMMA MapRight ==
    ASSUME NEW a \in MapCalls, call = Called("map", a, RestoreManifestMap(a))
    PROVE  MapConsistent
<1> DEFINE m == call.result
<1>1. call.arg = a /\ call.result = RestoreManifestMap(a)
  BY DEF Called
<1>2. SUFFICES ASSUME ~m.error PROVE MapConsistent
  BY DEF MapConsistent
<1>3. ~TblspcMapError(a) /\ ~LinkMapError(a) /\ m.target = MappedTargets(a) /\ m.link = MappedLinks(a)
  BY <1>1, <1>2 DEF RestoreManifestMap
<1> DEFINE names == {t \in DOMAIN a.target : KeptLink(a, t)} \cup DOMAIN a.linkMap
<1>4. DOMAIN a.link = DOMAIN a.target
  BY MapAssumption
<1>5. DOMAIN m.target = names /\ DOMAIN m.link = names
  BY <1>3, <1>4 DEF MappedTargets, MappedLinks
<1>6. ASSUME NEW n \in names
      PROVE  /\ m.link[n] = Destination(m.target[n])
             /\ n \in DOMAIN a.linkMap => m.link[n] = a.linkMap[n]
             /\ n \notin DOMAIN a.linkMap /\ IsTblspc(a.target[n]) => m.link[n] = TblspcPath(a, n)
  <2>1. n \in {t \in DOMAIN a.link : KeptLink(a, t)} \cup DOMAIN a.linkMap
    BY <1>4
  <2>2. CASE n \in DOMAIN a.linkMap
    <3>1. m.link[n] = a.linkMap[n] /\ m.target[n] = LinkTarget(a, n)
      BY <1>3, <2>1, <2>2 DEF MappedTargets, MappedLinks
    <3> HIDE DEF m
    <3> QED BY <1>3, <2>2, <3>1, LinkTargetIs
  <2>3. CASE n \notin DOMAIN a.linkMap
    <3>1. n \in DOMAIN a.target
      BY <2>3
    <3>2. /\ a.target[n] \in [path : Seq(STRING), file : STRING, tblspc : STRING, name : STRING]
          /\ IsTblspc(a.target[n]) => a.target[n].file = None
          /\ a.link[n] = Destination(a.target[n])
      BY <3>1, MapAssumption
    <3>3. CASE IsTblspc(a.target[n])
      <4>1. m.link[n] = TblspcPath(a, n) /\ m.target[n] = [a.target[n] EXCEPT !.path = TblspcPath(a, n)]
        BY <1>3, <2>1, <2>3, <3>3 DEF MappedTargets, MappedLinks
      <4>2. m.target[n].path = TblspcPath(a, n) /\ m.target[n].file = None
        BY <3>2, <3>3, <4>1
      <4> HIDE DEF m
      <4> QED BY <2>3, <4>1, <4>2 DEF Destination
    <3>4. CASE ~IsTblspc(a.target[n])
      <4>1. m.link[n] = a.link[n] /\ m.target[n] = a.target[n]
        BY <1>3, <2>1, <2>3, <3>4 DEF MappedTargets, MappedLinks
      <4> HIDE DEF m
      <4> QED BY <2>3, <3>2, <3>4, <4>1
    <3> QED BY <3>3, <3>4
  <2> QED BY <2>2, <2>3
<1>7. ASSUME NEW n \in DOMAIN a.target, IsTblspc(a.target[n])
      PROVE  n \in names /\ TblspcAsked(a, n) \subseteq {m.link[n]}
  <2>1. n \in names /\ n \notin DOMAIN a.linkMap
    BY <1>3, <1>7 DEF KeptLink, LinkMapError
  <2>2. m.link[n] = TblspcPath(a, n)
    BY <1>6, <1>7, <2>1
  <2> HIDE DEF m, names
  <2> QED BY <1>3, <1>7, <2>1, <2>2, TblspcPlaced
<1> HIDE DEF m, names
<1>8. /\ DOMAIN m.link = DOMAIN m.target
      /\ \A n \in DOMAIN m.link : m.link[n] = Destination(m.target[n])
      /\ \A n \in DOMAIN a.linkMap : n \in DOMAIN m.link /\ m.link[n] = a.linkMap[n]
      /\ \A n \in DOMAIN a.target :
            IsTblspc(a.target[n]) => n \in DOMAIN m.link /\ TblspcAsked(a, n) \subseteq {m.link[n]}
  <2>1. DOMAIN a.linkMap \subseteq names
    BY DEF names
  <2> QED BY <1>5, <1>6, <1>7, <2>1
<1> QED BY <1>1, <1>8, Zenon DEF MapConsistent, m

-----------------------------------------------------------------------------
(* Timelines.                                                               *)

\* A timeline begins on an earlier one.
IsTree(tree) == DOMAIN tree \subseteq Nat /\ \A x \in DOMAIN tree : tree[x].timeline \in 1..(x - 1) /\ tree[x].lsn \in Nat

Closed(tree, S) == \A y \in S \cap DOMAIN tree : tree[y].timeline \in S

LEMMA DescentIs ==
    ASSUME NEW tree, NEW t, NEW x
    PROVE  x \in Descent(tree, t) <=> x \in 1..t /\ \A S \in SUBSET (1..t) : t \in S /\ Closed(tree, S) => x \in S
BY DEF Descent, Closed

LEMMA DescentClosed ==
    ASSUME NEW tree, IsTree(tree), NEW t \in Nat \ {0}
    PROVE  Descent(tree, t) \subseteq 1..t /\ t \in Descent(tree, t) /\ Closed(tree, Descent(tree, t))
<1>1. Descent(tree, t) \subseteq 1..t
  BY DescentIs
<1>2. t \in 1..t
  OBVIOUS
<1>3. t \in Descent(tree, t)
  BY <1>2, DescentIs
<1>4. ASSUME NEW y \in Descent(tree, t) \cap DOMAIN tree PROVE tree[y].timeline \in Descent(tree, t)
  <2>1. y \in 1..t /\ \A S \in SUBSET (1..t) : t \in S /\ Closed(tree, S) => y \in S
    BY DescentIs
  <2>2. tree[y].timeline \in 1..t
    BY <2>1 DEF IsTree
  <2>3. \A S \in SUBSET (1..t) : t \in S /\ Closed(tree, S) => tree[y].timeline \in S
    BY <2>1 DEF Closed
  <2> QED BY <2>2, <2>3, DescentIs
<1> QED BY <1>1, <1>3, <1>4 DEF Closed

\* The timelines that one descends from are itself and those of its parent.
LEMMA DescentStep ==
    ASSUME NEW tree, IsTree(tree), NEW x \in DOMAIN tree
    PROVE  /\ x \in Nat \ {0} /\ tree[x].timeline \in Nat \ {0} /\ tree[x].timeline < x
           /\ Descent(tree, x) = {x} \cup Descent(tree, tree[x].timeline)
<1> DEFINE p == tree[x].timeline
           below == Descent(tree, p)
<1>1. x \in Nat /\ p \in 1..(x - 1)
  BY DEF IsTree
<1> HIDE DEF p
<1>2. x \in Nat \ {0} /\ p \in Nat \ {0} /\ p < x /\ 1..p \subseteq 1..x /\ x \in 1..x
  BY <1>1
<1>3. below \subseteq 1..p /\ p \in below /\ Closed(tree, below)
  BY <1>2, DescentClosed
<1>4. Closed(tree, {x} \cup below)
  BY <1>3 DEF Closed, p
<1>5. Descent(tree, x) \subseteq {x} \cup below
  BY <1>2, <1>3, <1>4, DescentIs
<1>6. below \subseteq Descent(tree, x)
  <2>1. SUFFICES ASSUME NEW z \in below, NEW S \in SUBSET (1..x), x \in S, Closed(tree, S) PROVE z \in S
    BY <1>2, <1>3, DescentIs
  <2>2. p \in S \cap 1..p
    BY <1>2, <2>1 DEF Closed, p
  <2>3. Closed(tree, S \cap 1..p)
    <3>1. ASSUME NEW y \in (S \cap 1..p) \cap DOMAIN tree PROVE tree[y].timeline \in S \cap 1..p
      <4>1. tree[y].timeline \in S
        BY <2>1 DEF Closed
      <4>2. tree[y].timeline \in 1..p
        BY <1>2 DEF IsTree
      <4> QED BY <4>1, <4>2
    <3> QED BY <3>1 DEF Closed
  <2>4. S \cap 1..p \in SUBSET (1..p)
    OBVIOUS
  <2>5. z \in S \cap 1..p
    BY <2>2, <2>3, <2>4, DescentIs
  <2> QED BY <2>5
<1>7. x \in Descent(tree, x)
  BY <1>2, DescentClosed
<1> QED BY <1>2, <1>5, <1>6, <1>7 DEF p

LEMMA DescentRoot ==
    ASSUME NEW tree, NEW x \in Nat \ {0}, x \notin DOMAIN tree
    PROVE  Descent(tree, x) \cap DOMAIN tree = {}
<1>1. x \in 1..x /\ {x} \in SUBSET (1..x)
  OBVIOUS
<1>2. Closed(tree, {x})
  BY DEF Closed
<1>3. Descent(tree, x) \subseteq {x}
  BY <1>1, <1>2, DescentIs
<1> QED BY <1>3

\* PostgreSQL follows the timelines from the backup exactly when the way to the
\* target leaves the timeline of the backup after it.
Way(tree, x, b, lsn) == x = b \/ \E y \in Descent(tree, x) \cap DOMAIN tree : tree[y].timeline = b /\ lsn < tree[y].lsn

LEMMA WayStep ==
    ASSUME NEW tree, IsTree(tree), NEW x \in Nat \ {0}, NEW b, NEW lsn
    PROVE  Way(tree, x, b, lsn) <=> \/ x = b
                                    \/ /\ x \in DOMAIN tree
                                       /\ tree[x].timeline = b => lsn < tree[x].lsn
                                       /\ Way(tree, tree[x].timeline, b, lsn)
<1>1. CASE x \notin DOMAIN tree
  BY <1>1, DescentRoot DEF Way
<1>2. CASE x \in DOMAIN tree
  <2> DEFINE p == tree[x].timeline
  <2>1. p \in Nat \ {0} /\ Descent(tree, x) = {x} \cup Descent(tree, p)
    BY <1>2, DescentStep
  <2>2. CASE p = b
    <3>1. ASSUME NEW y \in Descent(tree, p) \cap DOMAIN tree PROVE tree[y].timeline # b
      <4>1. y \in 1..p
        BY <2>1, DescentClosed
      <4>2. tree[y].timeline \in 1..(y - 1)
        BY DEF IsTree
      <4> HIDE DEF p
      <4> QED BY <2>1, <2>2, <4>1, <4>2
    <3> QED BY <1>2, <2>1, <2>2, <3>1 DEF Way
  <2>3. CASE p # b
    BY <1>2, <2>1, <2>3 DEF Way
  <2> QED BY <2>2, <2>3
<1> QED BY <1>1, <1>2

LEMMA ReachableIs ==
    ASSUME NEW tree, IsTree(tree), NEW t \in Nat \ {0}, NEW b, NEW lsn
    PROVE  Reachable(tree, t, b, lsn) <=> Way(tree, t, b, lsn)
<1> DEFINE Steps(f) == [x \in 1..t |-> \/ x = b
                                       \/ /\ x \in DOMAIN tree
                                          /\ tree[x].timeline = b => lsn < tree[x].lsn
                                          /\ f[tree[x].timeline]]
           Up == CHOOSE f : f = Steps(f)
           way == [x \in 1..t |-> Way(tree, x, b, lsn)]
<1>1. ASSUME NEW x \in 1..t, x \in DOMAIN tree PROVE tree[x].timeline \in 1..t /\ tree[x].timeline < x
  BY <1>1 DEF IsTree
<1>2. way = Steps(way)
  <2>1. ASSUME NEW x \in 1..t
        PROVE  way[x] = (\/ x = b
                         \/ /\ x \in DOMAIN tree
                            /\ tree[x].timeline = b => lsn < tree[x].lsn
                            /\ way[tree[x].timeline])
    <3>1. way[x] = Way(tree, x, b, lsn)
      OBVIOUS
    <3>2. Way(tree, x, b, lsn) <=> \/ x = b
                                   \/ /\ x \in DOMAIN tree
                                      /\ tree[x].timeline = b => lsn < tree[x].lsn
                                      /\ Way(tree, tree[x].timeline, b, lsn)
      BY x \in Nat \ {0}, WayStep
    <3>3. x \in DOMAIN tree => way[tree[x].timeline] = Way(tree, tree[x].timeline, b, lsn)
      BY <1>1
    <3> HIDE DEF way
    <3> QED BY <3>1, <3>2, <3>3, Zenon DEF Way
  <2> QED BY <2>1, Zenon
<1>3. Up = Steps(Up)
  BY <1>2
<1> HIDE DEF Up
<1>4. \A x \in 1..t : Up[x] <=> way[x]
  <2> DEFINE T == {x \in 1..t : ~ (Up[x] <=> way[x])}
  <2>1. SUFFICES ASSUME T # {} PROVE FALSE
    OBVIOUS
  <2>2. PICK x \in T : \A y \in T : x <= y
    <3>1. T \in SUBSET Nat
      OBVIOUS
    <3> HIDE DEF T
    <3> QED BY <2>1, <3>1, LeastNumber
  <2>3. CASE x \notin DOMAIN tree
    <3>1. Up[x] <=> x = b
      BY <1>3, <2>2, <2>3
    <3>2. way[x] <=> x = b
      BY <1>2, <2>2, <2>3
    <3> QED BY <2>2, <3>1, <3>2
  <2>4. CASE x \in DOMAIN tree
    <3>1. tree[x].timeline \in 1..t /\ tree[x].timeline \notin T
      BY <1>1, <2>2, <2>4
    <3> QED BY <1>2, <1>3, <2>2, <2>4, <3>1
  <2> QED BY <2>3, <2>4
<1>5. Reachable(tree, t, b, lsn) = Up[t]
  BY DEF Reachable, Up
<1> QED BY <1>4, <1>5

LEMMA TimelineRight ==
    ASSUME NEW a \in TimelineCalls, call = Called("timeline", a, TimelineVerify(a))
    PROVE  TimelineReachable
<1> DEFINE asked == TargetDefault(a)
           target == IF asked = "latest" THEN TimelineLatest(a.history, a.backup) ELSE a.number
<1>1. call.arg = a /\ call.result = TimelineVerify(a)
  BY DEF Called
<1>2. IsTree(a.tree)
  BY TimelineAssumption DEF IsTree
<1>3. ASSUME NEW t \in DOMAIN a.history, t # a.backup
      PROVE  TimelineFound(a.history[t], a.backup, a.lsn) <=> Reachable(a.tree, t, a.backup, a.lsn)
  <2>1. t \in Nat \ {0} /\ Range(a.history[t]) = {a.tree[x] : x \in Descent(a.tree, t) \cap DOMAIN a.tree}
    BY TimelineAssumption
  <2>2. TimelineFound(a.history[t], a.backup, a.lsn)
          <=> \E e \in Range(a.history[t]) : e.timeline = a.backup /\ a.lsn < e.lsn
    BY DEF TimelineFound, Range
  <2>3. TimelineFound(a.history[t], a.backup, a.lsn)
          <=> \E x \in Descent(a.tree, t) \cap DOMAIN a.tree : a.tree[x].timeline = a.backup /\ a.lsn < a.tree[x].lsn
    BY <2>1, <2>2
  <2> QED BY <1>2, <1>3, <2>1, <2>3, ReachableIs DEF Way
<1>4. call.result <=> \/ asked = "current"
                      \/ target = a.backup
                      \/ target \in DOMAIN a.history /\ TimelineFound(a.history[target], a.backup, a.lsn)
  BY <1>1 DEF TimelineVerify
<1> HIDE DEF asked, target
<1>5. call.result <=> \/ asked = "current"
                      \/ target = a.backup
                      \/ target \in DOMAIN a.history /\ Reachable(a.tree, target, a.backup, a.lsn)
  BY <1>3, <1>4
<1> QED BY <1>1, <1>5 DEF TimelineReachable, asked, target

-----------------------------------------------------------------------------
(* Bundles.                                                                 *)

IsRun(n, S, a, g, f) == f \in [0..n -> S] /\ f[0] = a /\ \A i \in 1..n : f[i] = g[<< i, f[i - 1] >>]

\* There is a run of n steps from a state of S when a step leads to S again.
LEMMA RunExists ==
    ASSUME NEW n \in Nat, NEW S, NEW a \in S, NEW g \in [(1..n) \X S -> S]
    PROVE  \E f : IsRun(n, S, a, g, f)
<1> USE DEF IsRun
<1> DEFINE Run(m, f) == f \in [0..m -> S] /\ f[0] = a /\ \A i \in 1..m : f[i] = g[<< i, f[i - 1] >>]
           T == {m \in 0..n : ~ \E f : Run(m, f)}
<1>1. SUFFICES ASSUME T # {} PROVE FALSE
  <2>1. n \notin T
    BY <1>1
  <2> QED BY <2>1
<1>2. PICK m \in T : \A k \in T : m <= k
  <2>1. T \in SUBSET Nat
    OBVIOUS
  <2> QED BY <1>1, <2>1, LeastNumber
<1>3. m # 0
  <2>1. Run(0, [i \in 0..0 |-> a])
    OBVIOUS
  <2> QED BY <2>1
<1>4. m - 1 \in 0..n /\ m \in 1..n
  BY <1>3
<1>5. PICK f : Run(m - 1, f)
  BY <1>2, <1>4, SMTT(30)
<1> DEFINE h == [i \in 0..m |-> IF i = m THEN g[<< m, f[m - 1] >>] ELSE f[i]]
<1>6. Run(m, h)
  <2>1. f[m - 1] \in S
    BY <1>4, <1>5
  <2>2. g[<< m, f[m - 1] >>] \in S
    BY <1>4, <2>1
  <2>3. h \in [0..m -> S]
    BY <1>4, <1>5, <2>2
  <2>4. h[0] = a
    BY <1>3, <1>4, <1>5
  <2>5. ASSUME NEW i \in 1..m PROVE h[i] = g[<< i, h[i - 1] >>]
    <3>1. i - 1 \in 0..m /\ i - 1 # m /\ h[i - 1] = f[i - 1]
      BY <1>4
    <3>2. CASE i = m
      BY <3>1, <3>2, <1>4
    <3>3. CASE i # m
      BY <3>1, <3>3, <1>4, <1>5
    <3> QED BY <3>2, <3>3
  <2> QED BY <2>3, <2>4, <2>5
<1> QED BY <1>6

Bundles == Seq([offset : Nat, limit : Nat, copy : BOOLEAN])

\* The last file of the read that begins at file i.
ReadFiles(files, i) == {n \in i..Len(files) : Adjoin(files, i, n) /\ \A j \in (i + 1)..n : files[j].copy}

LEMMA BundleFile ==
    ASSUME NEW files \in Bundles
    PROVE  /\ Len(files) \in Nat /\ DOMAIN files = 1..Len(files)
           /\ \A i \in 1..Len(files) : files[i].offset \in Nat /\ files[i].limit \in Nat
<1>1. Len(files) \in Nat /\ DOMAIN files = 1..Len(files)
  BY DEF Bundles
<1>2. \A i \in 1..Len(files) : files[i] \in [offset : Nat, limit : Nat, copy : BOOLEAN]
  BY ElementOfSeq DEF Bundles
<1> QED BY <1>1, <1>2

LEMMA ReadFilesMax ==
    ASSUME NEW files \in Bundles, NEW i \in 1..Len(files)
    PROVE  /\ Max(ReadFiles(files, i)) \in ReadFiles(files, i)
           /\ \A k \in ReadFiles(files, i) : k <= Max(ReadFiles(files, i))
           /\ ReadLimit(files, i) = Extent(files, i, Max(ReadFiles(files, i)))
<1>1. Len(files) \in Nat
  BY BundleFile
<1>2. ReadFiles(files, i) \in SUBSET (0..Len(files))
  BY <1>1 DEF ReadFiles
<1>3. i \in ReadFiles(files, i)
  BY <1>1 DEF ReadFiles, Adjoin
<1> QED BY <1>1, <1>2, <1>3, MaxIs DEF ReadLimit, ReadFiles

LEMMA ReadLimitType ==
    ASSUME NEW files \in Bundles, NEW i \in 1..Len(files)
    PROVE  ReadLimit(files, i) \in Int
<1> DEFINE m == Max(ReadFiles(files, i))
<1>1. m \in ReadFiles(files, i) /\ ReadLimit(files, i) = Extent(files, i, m)
  BY ReadFilesMax
<1> HIDE DEF m
<1>2. m \in 1..Len(files)
  BY <1>1, BundleFile DEF ReadFiles
<1> QED BY <1>1, <1>2, BundleFile DEF Extent

\* A read that goes on after a file goes on with the next one, which is copied
\* and begins there, and is as long as a read that begins with it.
LEMMA ReadGoesOn ==
    ASSUME NEW files \in Bundles, NEW i \in 1..Len(files), ReadLimit(files, i) # files[i].limit
    PROVE  /\ i + 1 \in 1..Len(files) /\ files[i + 1].copy
           /\ files[i + 1].offset = files[i].offset + files[i].limit
           /\ ReadLimit(files, i + 1) = ReadLimit(files, i) - files[i].limit
<1> DEFINE m == Max(ReadFiles(files, i))
           k == Max(ReadFiles(files, i + 1))
<1>1. /\ Len(files) \in Nat
      /\ \A j \in 1..Len(files) : files[j].offset \in Nat /\ files[j].limit \in Nat
  BY BundleFile
<1>2. m \in ReadFiles(files, i) /\ (\A x \in ReadFiles(files, i) : x <= m) /\ ReadLimit(files, i) = Extent(files, i, m)
  BY ReadFilesMax
<1> HIDE DEF m
<1>3. m \in i..Len(files) /\ Adjoin(files, i, m) /\ \A j \in (i + 1)..m : files[j].copy
  BY <1>2 DEF ReadFiles
<1>4. m # i
  BY <1>1, <1>2 DEF Extent
<1>5. i + 1 \in 1..Len(files) /\ i + 1 \in (i + 1)..m /\ m \in (i + 1)..Len(files)
  BY <1>1, <1>3, <1>4
<1>6. files[i + 1].copy /\ files[i + 1].offset = files[i].offset + files[i].limit
  <2>1. files[i + 1].offset = files[(i + 1) - 1].offset + files[(i + 1) - 1].limit
    BY <1>3, <1>5 DEF Adjoin
  <2>2. (i + 1) - 1 = i
    OBVIOUS
  <2> QED BY <1>3, <1>5, <2>1, <2>2
<1>7. k \in ReadFiles(files, i + 1) /\ (\A x \in ReadFiles(files, i + 1) : x <= k)
      /\ ReadLimit(files, i + 1) = Extent(files, i + 1, k)
  BY <1>5, ReadFilesMax
<1> HIDE DEF k
<1>8. m \in ReadFiles(files, i + 1)
  <2>1. \A j \in ((i + 1) + 1)..m : j \in (i + 1)..m
    BY <1>1, <1>5
  <2> QED BY <1>3, <1>5, <2>1 DEF ReadFiles, Adjoin
<1>9. k \in ReadFiles(files, i)
  <2>1. k \in (i + 1)..Len(files) /\ Adjoin(files, i + 1, k) /\ \A j \in ((i + 1) + 1)..k : files[j].copy
    BY <1>7 DEF ReadFiles
  <2>2. k \in i..Len(files)
    BY <1>1, <2>1
  <2>3. ASSUME NEW j \in (i + 1)..k
        PROVE  files[j].copy /\ files[j].offset = files[j - 1].offset + files[j - 1].limit
    <3>1. CASE j = i + 1
      <4>1. j - 1 = i
        BY <3>1
      <4> QED BY <1>6, <3>1, <4>1
    <3>2. CASE j # i + 1
      <4>1. j \in ((i + 1) + 1)..k
        BY <1>1, <2>1, <2>3, <3>2
      <4> QED BY <2>1, <4>1 DEF Adjoin
    <3> QED BY <3>1, <3>2
  <2> QED BY <2>2, <2>3 DEF ReadFiles, Adjoin
<1>10. k = m
  <2>1. k <= m /\ m <= k
    BY <1>2, <1>7, <1>8, <1>9
  <2>2. k \in Int /\ m \in Int
    BY <1>1, <1>3, <1>5, <1>7 DEF ReadFiles
  <2> QED BY <2>1, <2>2
<1>11. ReadLimit(files, i + 1) = ReadLimit(files, i) - files[i].limit
  <2>1. ReadLimit(files, i + 1) = Extent(files, i + 1, m) /\ ReadLimit(files, i) = Extent(files, i, m)
    BY <1>2, <1>7, <1>10
  <2>2. /\ files[m].offset \in Nat /\ files[m].limit \in Nat
        /\ files[i].offset \in Nat /\ files[i].limit \in Nat
    BY <1>1, <1>5
  <2>3. files[i + 1].offset = files[i].offset + files[i].limit
    BY <1>6
  <2>4. \A b, c, d, e \in Nat : b + (c - (d + e)) = (b + (c - d)) - e
    OBVIOUS
  <2>5. ReadLimit(files, i + 1) = files[m].offset + (files[m].limit - (files[i].offset + files[i].limit))
    BY <2>1, <2>3 DEF Extent
  <2>6. ReadLimit(files, i) - files[i].limit
          = (files[m].offset + (files[m].limit - files[i].offset)) - files[i].limit
    BY <2>1 DEF Extent
  <2> QED BY <2>2, <2>4, <2>5, <2>6
<1> QED BY <1>5, <1>6, <1>11

ReadStates(files) == [from : [1..Len(files) -> Int], at : Int, left : Int]

\* What an open read has left begins with the next file, which is copied.
ReadInv(files, i, s) ==
    /\ s \in ReadStates(files)
    /\ \A j \in 1..i : files[j].copy => s.from[j] = files[j].offset
    /\ s.left # 0 => /\ i + 1 \in 1..Len(files) /\ files[i + 1].copy
                     /\ s.at = files[i + 1].offset /\ s.left = ReadLimit(files, i + 1)

LEMMA FileReadType ==
    ASSUME NEW files \in Bundles, NEW i \in 1..Len(files), NEW s \in ReadStates(files)
    PROVE  FileRead(files, s, i) \in ReadStates(files)
<1>1. files[i].offset \in Nat /\ files[i].limit \in Nat /\ ReadLimit(files, i) \in Int
  BY BundleFile, ReadLimitType
<1> DEFINE at == IF s.left = 0 THEN files[i].offset ELSE s.at
           left == IF s.left = 0 THEN ReadLimit(files, i) ELSE s.left
<1>2. at \in Int /\ left \in Int /\ [s.from EXCEPT ![i] = at] \in [1..Len(files) -> Int]
  BY <1>1 DEF ReadStates
<1>3. CASE files[i].copy
  <2>1. FileRead(files, s, i) = [from |-> [s.from EXCEPT ![i] = at], at |-> at + files[i].limit, left |-> left - files[i].limit]
    BY <1>3 DEF FileRead
  <2> HIDE DEF at, left
  <2> QED BY <1>1, <1>2, <2>1 DEF ReadStates
<1>4. CASE ~files[i].copy
  BY <1>4 DEF FileRead
<1> QED BY <1>3, <1>4

LEMMA FileReadKeeps ==
    ASSUME NEW files \in Bundles, NEW i \in 1..Len(files), NEW s, ReadInv(files, i - 1, s)
    PROVE  ReadInv(files, i, FileRead(files, s, i))
<1> DEFINE r == FileRead(files, s, i)
<1> SUFFICES ReadInv(files, i, r)
  OBVIOUS
<1>1. s \in ReadStates(files) /\ (i - 1) + 1 = i /\ 1..i = (1..(i - 1)) \cup {i} /\ i \notin 1..(i - 1)
  BY DEF ReadInv
<1>2. r \in ReadStates(files)
  BY <1>1, FileReadType
<1>3. (\A j \in 1..(i - 1) : files[j].copy => s.from[j] = files[j].offset)
      /\ (s.left # 0 => files[i].copy /\ s.at = files[i].offset /\ s.left = ReadLimit(files, i))
  BY <1>1 DEF ReadInv
<1>4. CASE ~files[i].copy
  <2>1. r = s /\ s.left = 0
    BY <1>3, <1>4 DEF FileRead
  <2>2. \A j \in 1..i : files[j].copy => s.from[j] = files[j].offset
    BY <1>1, <1>3, <1>4
  <2> HIDE DEF r
  <2> QED BY <1>1, <2>1, <2>2 DEF ReadInv
<1>5. CASE files[i].copy
  <2>1. r = [from |-> [s.from EXCEPT ![i] = files[i].offset],
             at |-> files[i].offset + files[i].limit, left |-> ReadLimit(files, i) - files[i].limit]
    BY <1>3, <1>5 DEF FileRead
  <2>2. files[i].offset \in Nat /\ files[i].limit \in Nat /\ ReadLimit(files, i) \in Int
    BY BundleFile, ReadLimitType
  <2>3. ASSUME NEW j \in 1..i, files[j].copy PROVE r.from[j] = files[j].offset
    <3>1. s.from \in [1..Len(files) -> Int] /\ j \in 1..Len(files)
      BY <1>1, BundleFile DEF ReadStates
    <3> QED BY <1>1, <1>3, <2>1, <2>3, <3>1
  <2>4. ASSUME r.left # 0
        PROVE  /\ i + 1 \in 1..Len(files) /\ files[i + 1].copy
               /\ r.at = files[i + 1].offset /\ r.left = ReadLimit(files, i + 1)
    <3>1. r.at = files[i].offset + files[i].limit /\ r.left = ReadLimit(files, i) - files[i].limit
      BY <2>1
    <3>2. ReadLimit(files, i) # files[i].limit
      BY <2>2, <2>4, <3>1
    <3> HIDE DEF r
    <3> QED BY <3>1, <3>2, ReadGoesOn
  <2> HIDE DEF r
  <2> QED BY <1>2, <2>3, <2>4 DEF ReadInv
<1> QED BY <1>4, <1>5

LEMMA RestoreReadIs ==
    ASSUME NEW files \in Bundles
    PROVE  \E s : ReadInv(files, Len(files), s) /\ RestoreRead(files) = s.from
<1> DEFINE n == Len(files)
           S == ReadStates(files)
           none == [from |-> [j \in DOMAIN files |-> -1], at |-> 0, left |-> 0]
           Steps(f) == [i \in 0..n |-> IF i = 0 THEN none ELSE FileRead(files, f[i - 1], i)]
           Upto == CHOOSE f : f = Steps(f)
           g == [q \in (1..n) \X S |-> FileRead(files, q[2], q[1])]
<1>1. n \in Nat /\ DOMAIN files = 1..n
  BY BundleFile
<1>2. none \in S /\ ReadInv(files, 0, none)
  BY <1>1 DEF ReadInv, ReadStates
<1>3. g \in [(1..n) \X S -> S]
  BY FileReadType
<1>4. \A i \in 1..n, s \in S : g[<< i, s >>] = FileRead(files, s, i)
  OBVIOUS
<1> HIDE DEF g
<1>5. PICK f : f \in [0..n -> S] /\ f[0] = none /\ \A i \in 1..n : f[i] = g[<< i, f[i - 1] >>]
  <2>1. \E f : IsRun(n, S, none, g, f)
    BY <1>1, <1>2, <1>3, RunExists
  <2> QED BY <2>1 DEF IsRun
<1>6. f = Steps(f)
  <2>1. ASSUME NEW i \in 0..n PROVE f[i] = Steps(f)[i]
    <3>1. CASE i = 0
      BY <1>5, <3>1
    <3>2. CASE i # 0
      <4>1. i \in 1..n /\ f[i - 1] \in S
        BY <1>1, <1>5, <3>2
      <4> QED BY <1>4, <1>5, <3>2, <4>1
    <3> QED BY <3>1, <3>2
  <2> QED BY <1>5, <2>1
<1>7. Upto = Steps(Upto)
  BY <1>6
<1> HIDE DEF Upto
<1>8. ReadInv(files, n, Upto[n])
  <2> DEFINE T == {i \in 0..n : ~ReadInv(files, i, Upto[i])}
  <2>1. SUFFICES ASSUME T # {} PROVE FALSE
    BY <1>1
  <2>2. PICK i \in T : \A k \in T : i <= k
    <3>1. T \in SUBSET Nat
      OBVIOUS
    <3> HIDE DEF T
    <3> QED BY <2>1, <3>1, LeastNumber
  <2>3. CASE i = 0
    <3>1. Upto[0] = none
      BY <1>1, <1>7
    <3> QED BY <1>2, <2>2, <2>3, <3>1
  <2>4. CASE i # 0
    <3>1. i \in 1..n /\ i - 1 \in 0..n /\ i - 1 \notin T
      BY <1>1, <2>2, <2>4
    <3>2. Upto[i] = FileRead(files, Upto[i - 1], i)
      BY <1>7, <3>1, <2>4
    <3>3. ReadInv(files, i, Upto[i])
      BY <3>1, <3>2, FileReadKeeps
    <3> QED BY <2>2, <3>3
  <2> QED BY <2>3, <2>4
<1>9. RestoreRead(files) = Upto[n].from
  BY DEF RestoreRead, Upto
<1> QED BY <1>8, <1>9

LEMMA ReadRight ==
    ASSUME NEW a \in ReadCalls, call = Called("read", a, RestoreRead(a))
    PROVE  ReadFromOffset
<1>1. call.arg = a /\ call.result = RestoreRead(a)
  BY DEF Called
<1>2. a \in Bundles
  BY ReadAssumption DEF Bundles
<1>3. PICK s : ReadInv(a, Len(a), s) /\ RestoreRead(a) = s.from
  BY <1>2, RestoreReadIs
<1>4. DOMAIN a = 1..Len(a)
  BY <1>2, BundleFile
<1> QED BY <1>1, <1>3, <1>4 DEF ReadInv, ReadFromOffset

-----------------------------------------------------------------------------
(* Every decision.                                                          *)

\* The last call returned what the function gives for its arguments.
Answered ==
    \/ NoCall
    \/ \E a \in SetCalls : call = Called("set", a, RestoreBackupSet(a.repos, a.option))
    \/ \E a \in TimelineCalls : call = Called("timeline", a, TimelineVerify(a))
    \/ \E a \in MapCalls : call = Called("map", a, RestoreManifestMap(a))
    \/ \E a \in SelectCalls : call = Called("select", a, RestoreSelectiveExpression(a))
    \/ \E a \in RecoveryCalls : call = Called("recovery", a, RestoreRecoveryWrite(a))
    \/ \E a \in ReadCalls : call = Called("read", a, RestoreRead(a))

\* A property is about the calls of one function.
LEMMA OtherCall ==
    /\ call.op # "set" => SetReachesTarget
    /\ call.op # "timeline" => TimelineReachable
    /\ call.op # "map" => MapConsistent
    /\ call.op # "select" => SelectiveSafe
    /\ call.op # "recovery" => OneTarget
    /\ call.op # "read" => ReadFromOffset
BY Zenon DEF Returns, SetReachesTarget, TimelineReachable, MapConsistent, SelectiveSafe, OneTarget, ReadFromOffset

LEMMA AnsweredSound == Answered => RestorePlanSound
<1> SUFFICES ASSUME Answered PROVE RestorePlanSound
  OBVIOUS
<1> USE DEF RestorePlanSound
<1>1. CASE NoCall
  <2>1. call.op = "none"
    BY <1>1 DEF NoCall, None
  <2> QED BY <2>1, OtherCall
<1>2. CASE \E a \in SetCalls : call = Called("set", a, RestoreBackupSet(a.repos, a.option))
  <2>1. call.op = "set"
    BY <1>2 DEF Called
  <2> QED BY <1>2, <2>1, OtherCall, SetRight
<1>3. CASE \E a \in TimelineCalls : call = Called("timeline", a, TimelineVerify(a))
  <2>1. call.op = "timeline"
    BY <1>3 DEF Called
  <2> QED BY <1>3, <2>1, OtherCall, TimelineRight
<1>4. CASE \E a \in MapCalls : call = Called("map", a, RestoreManifestMap(a))
  <2>1. call.op = "map"
    BY <1>4 DEF Called
  <2> QED BY <1>4, <2>1, OtherCall, MapRight
<1>5. CASE \E a \in SelectCalls : call = Called("select", a, RestoreSelectiveExpression(a))
  <2>1. call.op = "select"
    BY <1>5 DEF Called
  <2> QED BY <1>5, <2>1, OtherCall, SelectRight
<1>6. CASE \E a \in RecoveryCalls : call = Called("recovery", a, RestoreRecoveryWrite(a))
  <2>1. call.op = "recovery"
    BY <1>6 DEF Called
  <2> QED BY <1>6, <2>1, OtherCall, RecoveryRight
<1>7. CASE \E a \in ReadCalls : call = Called("read", a, RestoreRead(a))
  <2>1. call.op = "read"
    BY <1>7 DEF Called
  <2> QED BY <1>7, <2>1, OtherCall, ReadRight
<1> QED BY <1>1, <1>2, <1>3, <1>4, <1>5, <1>6, <1>7 DEF Answered

\* Whatever the options and the repositories are, restore never begins with a
\* backup that ends after the target, passes the timeline check exactly when
\* PostgreSQL can follow the timelines, maps links and tablespaces as asked,
\* zeroes no database that was to be kept, leaves one recovery target and reads
\* each file of a bundle from its own place (restore.c, timeline.c, file.c).
THEOREM RestorePlanAlways == RestorePlanSpec => []RestorePlanSound
<1>1. NoCall => Answered
  BY DEF Answered
<1>2. Answered /\ [RestorePlanNext]_call => Answered'
  <2> SUFFICES ASSUME Answered, [RestorePlanNext]_call PROVE Answered'
    OBVIOUS
  <2>1. CASE BackupSet
    BY <2>1 DEF BackupSet, Answered
  <2>2. CASE Timeline
    BY <2>2 DEF Timeline, Answered
  <2>3. CASE ManifestMap
    BY <2>3 DEF ManifestMap, Answered
  <2>4. CASE Selective
    BY <2>4 DEF Selective, Answered
  <2>5. CASE Recovery
    BY <2>5 DEF Recovery, Answered
  <2>6. CASE Read
    BY <2>6 DEF Read, Answered
  <2>7. CASE UNCHANGED call
    BY <2>7 DEF Answered, NoCall
  <2> QED BY <2>1, <2>2, <2>3, <2>4, <2>5, <2>6, <2>7 DEF RestorePlanNext
<1>3. Answered => RestorePlanSound
  BY AnsweredSound
<1> QED BY <1>1, <1>2, <1>3, PTL DEF RestorePlanSpec
=============================================================================
