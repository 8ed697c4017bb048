------------------------- MODULE BackupExpireProof -------------------------
(***************************************************************************)
(* Proofs about BackupExpire for any times, clusters, options, retention   *)
(* settings and numbers of faults.                                         *)
(***************************************************************************)
EXTENDS BackupExpire, FiniteSetTheorems, WellFoundedInduction, TLAPS

\* backup and its steps once the label is known.
Making == {"start", "resume", "label", "copy", "stop", "check", "final", "manifest", "history",
           "info"}
Named == {"copy", "stop", "check", "final", "manifest", "history", "info"}
Started == {"stop", "check", "final", "manifest", "history", "info"}

\* The label does not exist yet.
Nameless == pc \in {"resume", "label"} \/ (pc = "start" /\ job.label = NoLabel)

\* backup makes a full backup or one that is built on another.
Phases ==
    /\ pc \in Making => /\ job.time # 0
                        /\ job.kind = FullKind <=> job.prior = NoLabel
    /\ pc \in Named => job.label # NoLabel
    /\ pc \in Started => job.start # NoWal

TypeInv == TypeOK /\ Phases

\* The time a backup begins, which makes its label.
Stamp(l) == IF l.kind = FullKind THEN l.full ELSE l.time

\* Every backup that is known or may be by a command to come.
Known == info \cup manifest \cup cur

\* A label stands for one backup, which is built on an older one.
OnePrior == \A b, c \in Known : b.label = c.label => b.prior = c.prior
Ordered == \A b \in Known : /\ b.prior = NoLabel \/ Before(b.prior, b.label)
                            /\ b.label.kind = FullKind => b.prior = NoLabel

\* No label is of the future: of the next second there is none.
Past == /\ \A b \in Known : Stamp(b.label) < clock
        /\ \A l \in dir : Stamp(l) <= clock

\* The backup that is made is built on a complete one, ...
BuiltOn == pc \in Making => job.prior \in {NoLabel} \cup Labels(manifest)

\* ... gets a label no other has, ...
Fresh ==
    /\ Nameless => job.time <= clock /\ \A b \in Known : Stamp(b.label) < job.time
    /\ (pc \in {"resume", "label"} /\ job.start # NoWal) =>
            job.time < clock /\ \A l \in dir : Stamp(l) < clock

\* ... and keeps it.
Kept ==
    (pc \in Making /\ job.label # NoLabel) =>
        /\ job.label.kind = job.kind
        /\ Stamp(job.label) <= clock
        /\ job.start # NoWal => Stamp(job.label) < clock
        /\ job.prior = NoLabel \/ Before(job.prior, job.label)
        /\ \A b \in Known : b.label = job.label => b.prior = job.prior

\* expire knows every backup that is complete, and removes those it forgets.
Listed ==
    /\ pc \in {"full", "fullCopy", "diff", "diffCopy", "dirs"} => Labels(manifest) \subseteq Labels(cur)
    /\ pc \in {"fullCopy", "diffCopy"} => Victim \cap Labels(manifest) = {}
    /\ pc = "dirs" => heads \cap Labels(cur) = {}

\* A complete backup has its files.
WithFiles ==
    /\ Labels(manifest) \subseteq dir
    /\ pc \in Started => job.label \in dir

Good == /\ OnePrior /\ Ordered /\ Past /\ BuiltOn /\ Fresh /\ Kept /\ Listed
        /\ Closed(manifest)

BackupInv == TypeInv /\ WithFiles /\ (shifts = 0 => Good)

-----------------------------------------------------------------------------
(* Labels and dependents. *)

LEMMA LabelType ==
    ASSUME NEW l \in Label
    PROVE  /\ l.full \in 1..MaxTime /\ l.time \in 0..MaxTime /\ l.kind \in 0..2
           /\ l # NoLabel
BY DEF Label, NoLabel

\* Before orders labels, as strcmp() does.
LEMMA BeforeOrder ==
    ASSUME NEW l \in Label, NEW m \in Label
    PROVE  /\ l = m \/ Before(l, m) \/ Before(m, l)
           /\ ~(Before(l, m) /\ Before(m, l))
           /\ ~Before(l, l)
<1>1. /\ l.full \in Nat /\ l.time \in Nat /\ l.kind \in Nat
      /\ m.full \in Nat /\ m.time \in Nat /\ m.kind \in Nat
  BY LabelType, BackupExpireAssumption
<1>2. ASSUME l.full = m.full, l.time = m.time, l.kind = m.kind
      PROVE  l = m
  BY <1>2 DEF Label
<1>3. l = m \/ Before(l, m) \/ Before(m, l)
  BY <1>1, <1>2 DEF Before
<1>4. ~(Before(l, m) /\ Before(m, l)) /\ ~Before(l, l)
  BY <1>1 DEF Before
<1> QED BY <1>3, <1>4

LEMMA NewestOne ==
    ASSUME NEW L \in SUBSET Label, NEW l \in Newest(L), NEW m \in Newest(L)
    PROVE  l = m
BY BeforeOrder DEF Newest

LEMMA OldestOne ==
    ASSUME NEW L \in SUBSET Label, NEW l \in Oldest(L), NEW m \in Oldest(L)
    PROVE  l = m
BY BeforeOrder DEF Oldest

LEMMA BackupFields ==
    ASSUME NEW b \in Backup
    PROVE  b.label \in Label /\ b.prior \in Label \cup {NoLabel} /\ b.pg \in Pg
BY DEF Backup

LEMMA LabelsType ==
    ASSUME NEW S \in SUBSET Backup
    PROVE  Labels(S) \subseteq Label
BY BackupFields DEF Labels

\* The dependents of a label are known ones, among them the label itself and
\* whatever is built on one of them.
LEMMA DependentsKnown ==
    ASSUME NEW S, NEW l
    PROVE  /\ Dependents(S, l) \subseteq Labels(S) \cup {l}
           /\ l \in Dependents(S, l)
           /\ \A b \in S : b.prior \in Dependents(S, l) => b.label \in Dependents(S, l)
<1> DEFINE all == Labels(S) \cup {l}
           Complete(D) == l \in D /\ \A b \in S : b.prior \in D => b.label \in D
<1>1. Dependents(S, l) = {m \in all : \A D \in SUBSET all : Complete(D) => m \in D}
  BY DEF Dependents
<1>2. ASSUME NEW b \in S, b.prior \in Dependents(S, l)
      PROVE  b.label \in Dependents(S, l)
  <2>1. b.label \in all
    BY DEF Labels
  <2>2. ASSUME NEW D \in SUBSET all, Complete(D)
        PROVE  b.label \in D
    BY <1>1, <1>2, <2>2
  <2> QED BY <1>1, <2>1, <2>2
<1> QED BY <1>1, <1>2

\* backup.info is rebuilt from what it lists and what has a manifest.
LEMMA ReconstructKnown ==
    ASSUME NEW I, NEW M
    PROVE  Reconstruct(I, M) \subseteq I \cup M
BY DEF Reconstruct

\* It lists exactly the complete backups, if they have what they need.
LEMMA ReconstructLabels ==
    ASSUME NEW I, NEW M, Closed(M)
    PROVE  Labels(Reconstruct(I, M)) = Labels(M)
<1> DEFINE missing == Labels(I) \ Labels(M)
           kept == {b \in I : \A l \in missing : b.label \notin Dependents(I, l)}
           found == {b \in M : b.label \notin Labels(kept)}
           Valid(A) == \A b \in A : b.prior \in {NoLabel} \cup Labels(kept \cup A)
           R == kept \cup UNION {A \in SUBSET found : Valid(A)}
<1>1. Reconstruct(I, M) = R
  BY DEF Reconstruct
<1>2. ASSUME NEW b \in kept
      PROVE  b.label \in Labels(M)
  <2>1. b \in I /\ b.label \in Labels(I)
    BY DEF Labels
  <2>2. b.label \in Dependents(I, b.label)
    BY DependentsKnown
  <2> QED BY <2>1, <2>2
<1>3. ASSUME NEW l \in Labels(M)
      PROVE  l \in Labels(kept \cup found)
  BY DEF Labels
<1>4. Valid(found)
  BY <1>3 DEF Closed
<1>5. R = kept \cup found
  BY <1>4
<1>6. Labels(R) \subseteq Labels(M)
  BY <1>2, <1>5 DEF Labels
<1> QED BY <1>1, <1>3, <1>5, <1>6

-----------------------------------------------------------------------------
(* Types. *)

LEMMA Numbers ==
    /\ MaxTime \in Nat \ {0} /\ MaxSeg \in Nat \ {0} /\ MaxPg \in Nat \ {0}
    /\ MaxFault \in Nat /\ MaxShift \in Nat
    /\ 0 \in 0..MaxTime /\ 0 \in 0..MaxSeg /\ 1 \in Seg /\ 1 \in Pg
    /\ \A o \in Options : o.kind \in 0..2 /\ o.resume \in BOOLEAN
    /\ \A c \in Config : c.archiveType \in 0..2
BY BackupExpireAssumption DEF Seg, Pg

LEMMA NoJobType == NoJob \in Job /\ NoJob.label = NoLabel
BY Numbers DEF NoJob, Job, FullKind, NoWal

LEMMA TypeInit == Init => TypeInv
BY Numbers, NoJobType DEF Init, TypeInv, TypeOK, Phases, Making, Named, Started, PcSet

LEMMA EndType ==
    ASSUME TypeInv, End
    PROVE  /\ pc' = "idle" /\ cur' = {} /\ job' \in Job /\ adhoc' = NoLabel /\ heads' = {}
           /\ trash' = {} /\ Phases'
BY NoJobType DEF End, Phases, Making, Named, Started

LEMMA VictimType ==
    ASSUME TypeInv
    PROVE  Victim \subseteq Label
<1> SUFFICES ASSUME NEW h \in Oldest(heads), NEW l \in Newest(Dependents(cur, h))
             PROVE  l \in Label
  BY DEF Victim
<1>1. h \in Label /\ cur \subseteq Backup
  BY DEF TypeInv, TypeOK, Oldest
<1>2. l \in Labels(cur) \cup {h}
  BY DependentsKnown DEF Newest
<1> QED BY <1>1, <1>2, LabelsType

LEMMA PriorsKnown ==
    ASSUME NEW S, NEW k \in 0..2, NEW p
    PROVE  Priors(S, k, p) \subseteq Labels(S) /\ (k = FullKind => Priors(S, k, p) = {})
BY DEF Priors, Newest, Labels, OfKind, FullKind, DiffKind, IncrKind

LEMMA ArchiveExpiredKnown ==
    ASSUME NEW S, NEW t, NEW r, NEW p, NEW c, NEW A
    PROVE  ArchiveExpired(S, t, r, p, c, A) \subseteq A
BY DEF ArchiveExpired

\* What a full backup or retention expires is known.
LEMMA ExpiredKnown ==
    ASSUME NEW S \in SUBSET Backup, NEW c, NEW now
    PROVE  /\ FullExpired(S, c) \subseteq Label
           /\ TimeExpired(S, c, now) \subseteq Label
           /\ DiffExpired(S, c) \subseteq Label
BY BackupFields DEF FullExpired, TimeExpired, DiffExpired, OfKind

LEMMA TypeBackground ==
    TypeInv /\ (Tick \/ ClockBack \/ Switch \/ Upgrade \/ Abort
                \/ \E s \in Seg : Archive(s) \/ Drop(s)) => TypeInv'
<1> SUFFICES ASSUME TypeInv,
                    Tick \/ ClockBack \/ Switch \/ Upgrade \/ Abort
                        \/ \E s \in Seg : Archive(s) \/ Drop(s)
             PROVE  TypeInv'
  OBVIOUS
<1> USE Numbers DEF repoVars, pgVars, taskVars, boundVars
<1>1. CASE Tick
  BY <1>1 DEF Tick, TypeInv, TypeOK, Phases
<1>2. CASE ClockBack
  BY <1>2 DEF ClockBack, TypeInv, TypeOK, Phases
<1>3. CASE Switch
  <2>1. pos' \in Seg /\ pend' \subseteq Seg
    BY <1>3 DEF Switch, TypeInv, TypeOK, Seg
  <2> QED BY <1>3, <2>1 DEF Switch, TypeInv, TypeOK, Phases
<1>4. CASE Upgrade
  <2>1. pg' \in Pg
    BY <1>4 DEF Upgrade, TypeInv, TypeOK, Pg
  <2> QED BY <1>4, <2>1 DEF Upgrade, TypeInv, TypeOK, Phases
<1>5. CASE Abort
  <2>1. faults' \in 0..MaxFault
    BY <1>5 DEF Abort, TypeInv, TypeOK
  <2> QED BY <1>5, <2>1, EndType DEF Abort, TypeInv, TypeOK, PcSet
<1>6. ASSUME NEW s \in Seg, Archive(s) PROVE TypeInv'
  <2>1. wal' \in [Pg -> SUBSET Seg]
    BY <1>6 DEF Archive, TypeInv, TypeOK
  <2> QED BY <1>6, <2>1 DEF Archive, TypeInv, TypeOK, Phases
<1>7. ASSUME NEW s \in Seg, Drop(s) PROVE TypeInv'
  BY <1>7 DEF Drop, TypeInv, TypeOK, Phases
<1> QED BY <1>1, <1>2, <1>3, <1>4, <1>5, <1>6, <1>7

LEMMA TypeBackups == TypeInv /\ Backups => TypeInv'
<1> SUFFICES ASSUME TypeInv, Backups PROVE TypeInv'
  OBVIOUS
<1> USE Numbers DEF repoVars, pgVars, taskVars, boundVars, Plan
<1> USE DEF Making, Named, Started
<1>0. TypeOK /\ Phases
  BY DEF TypeInv
<1>1. ASSUME NEW o \in Options, BackupLoad(o) PROVE TypeInv'
  <2>1. PICK prior \in IF Priors(cur', o.kind, pg) = {} THEN {NoLabel} ELSE Priors(cur', o.kind, pg) :
            job' = [NoJob EXCEPT !.prior = prior, !.time = clock,
                                 !.kind = IF Priors(cur', o.kind, pg) = {} THEN FullKind ELSE o.kind,
                                 !.resume = o.resume]
    BY <1>1 DEF BackupLoad
  <2>2. cur' \subseteq Backup
    BY <1>0, <1>1, ReconstructKnown DEF BackupLoad, TypeOK
  <2>3. Priors(cur', o.kind, pg) \subseteq Label
    BY <2>2, PriorsKnown, LabelsType
  <2>4. prior \in Label \cup {NoLabel} /\ (prior = NoLabel <=> Priors(cur', o.kind, pg) = {})
    BY <2>3, LabelType
  <2>5. o.kind = FullKind => Priors(cur', o.kind, pg) = {}
    BY PriorsKnown
  <2>6. job' \in Job
    <3>1. clock \in 0..MaxTime /\ o.resume \in BOOLEAN
      BY <1>0 DEF TypeOK
    <3>2. (IF Priors(cur', o.kind, pg) = {} THEN FullKind ELSE o.kind) \in 0..2
      BY DEF FullKind
    <3> QED BY <2>1, <2>4, <3>1, <3>2, NoJobType DEF Job
  <2>7. /\ job'.time = clock /\ job'.prior = prior
        /\ job'.kind = IF Priors(cur', o.kind, pg) = {} THEN FullKind ELSE o.kind
    BY <2>1, NoJobType DEF Job
  <2>8. Phases'
    BY <1>0, <1>1, <2>4, <2>5, <2>7 DEF BackupLoad, Phases, TypeOK
  <2> QED BY <1>0, <1>1, <2>2, <2>6, <2>8, SMTT(30) DEF BackupLoad, TypeInv, TypeOK, PcSet
<1>2. CASE BackupStart
  <2>1. job' \in Job /\ job'.time = job.time /\ job'.kind = job.kind /\ job'.prior = job.prior
        /\ job'.label = job.label /\ job'.start # NoWal
    BY <1>0, <1>2 DEF BackupStart, TypeOK, Job, Seg, NoWal
  <2>2. clock' \in 1..MaxTime
    BY <1>0, <1>2 DEF BackupStart, TypeOK
  <2> QED BY <1>0, <1>2, <2>1, <2>2 DEF BackupStart, TypeInv, TypeOK, PcSet, Phases
<1>3. CASE BackupResume
  <2>1. PICK l \in dir : job' = [job EXCEPT !.label = l]
    BY <1>3 DEF BackupResume, Unfinished, Newest
  <2>2. job' \in Job /\ job'.time = job.time /\ job'.kind = job.kind /\ job'.prior = job.prior
        /\ job'.label = l /\ l # NoLabel
    BY <1>0, <2>1, LabelType DEF TypeOK, Job
  <2> QED BY <1>0, <1>3, <2>2 DEF BackupResume, TypeInv, TypeOK, PcSet, Phases
<1>4. CASE BackupRemove
  BY <1>0, <1>4 DEF BackupRemove, TypeInv, TypeOK, PcSet, Phases
<1>5. CASE BackupNew
  BY <1>0, <1>5 DEF BackupNew, TypeInv, TypeOK, PcSet, Phases
<1>6. CASE BackupLabel
  <2>1. ASSUME NEW t \in 1..MaxTime
        PROVE  LabelAt(t) \in Label
    <3>1. CASE job.kind = FullKind
      BY <3>1 DEF LabelAt, Label, FullKind
    <3>2. CASE job.kind # FullKind
      <4>1. job.prior \in Label /\ job.kind \in 0..2
        BY <1>0, <1>6, <3>2 DEF BackupLabel, TypeOK, Phases, Job
      <4> QED BY <3>2, <4>1 DEF LabelAt, Label
    <3> QED BY <3>1, <3>2
  <2>2. job.time \in 1..MaxTime
    BY <1>0, <1>6 DEF BackupLabel, TypeOK, Phases, Job
  <2>3. PICK t \in 1..MaxTime : job' = [job EXCEPT !.label = LabelAt(t)]
    BY <1>6, <2>2 DEF BackupLabel
  <2>4. job' \in Job /\ job'.time = job.time /\ job'.kind = job.kind /\ job'.prior = job.prior
        /\ job'.label \in Label
    BY <1>0, <2>1, <2>3 DEF TypeOK, Job
  <2>5. clock' \in 1..MaxTime
    BY <1>0, <1>6 DEF BackupLabel, TypeOK
  <2> QED BY <1>0, <1>6, <2>4, <2>5, LabelType DEF BackupLabel, TypeInv, TypeOK, PcSet, Phases
<1>7. CASE BackupLabelError
  BY <1>0, <1>7, EndType DEF BackupLabelError, TypeInv, TypeOK, PcSet
<1>c. ASSUME pc \in Named
      PROVE  CopyOfJob \subseteq [label : Label, prior : Label \cup {NoLabel}] /\ job.label \in Label
  BY <1>0, <1>c DEF CopyOfJob, TypeOK, Phases, Job
<1>8. CASE BackupCopy
  <2>1. copy' \subseteq [label : Label, prior : Label \cup {NoLabel}] /\ dir' \subseteq Label
    BY <1>0, <1>8, <1>c DEF BackupCopy, TypeOK
  <2> QED BY <1>0, <1>8, <2>1 DEF BackupCopy, TypeInv, TypeOK, PcSet, Phases
<1>9. CASE BackupStop
  <2>1. job' \in Job /\ job'.time = job.time /\ job'.kind = job.kind /\ job'.prior = job.prior
        /\ job'.label = job.label /\ job'.start = job.start
    <3>1. pos \in 0..MaxSeg /\ clock \in 0..MaxTime
      BY <1>0 DEF TypeOK, Seg
    <3> QED BY <1>0, <1>9, <3>1 DEF BackupStop, TypeOK, Job
  <2>2. pos' \in Seg /\ pend' \subseteq Seg
    BY <1>0, <1>9 DEF BackupStop, TypeOK, Seg
  <2> QED BY <1>0, <1>9, <2>1, <2>2 DEF BackupStop, TypeInv, TypeOK, PcSet, Phases
<1>10. CASE BackupCheck
  BY <1>0, <1>10 DEF BackupCheck, TypeInv, TypeOK, PcSet, Phases
<1>11. CASE BackupTimeout
  <2>1. faults' \in 0..MaxFault
    BY <1>0, <1>11 DEF BackupTimeout, TypeOK
  <2> QED BY <1>0, <1>11, <2>1, EndType DEF BackupTimeout, TypeInv, TypeOK, PcSet
<1>12. CASE BackupFinal
  BY <1>0, <1>12, <1>c DEF BackupFinal, TypeInv, TypeOK, PcSet, Phases
<1>13. CASE BackupManifest
  <2>1. [label |-> job.label, prior |-> job.prior, pg |-> pg, start |-> job.start,
         stop |-> job.stop, end |-> job.end] \in Backup
    BY <1>0, <1>13, <1>c DEF BackupManifest, TypeOK, Job, Backup
  <2> QED BY <1>0, <1>13, <2>1 DEF BackupManifest, TypeInv, TypeOK, PcSet, Phases
<1>14. CASE BackupHistory
  BY <1>0, <1>14, <1>c DEF BackupHistory, TypeInv, TypeOK, PcSet, Phases
<1>15. CASE BackupInfo
  <2>1. info' \subseteq Backup
    BY <1>0, <1>15 DEF BackupInfo, TypeOK
  <2>2. CASE End
    BY <1>0, <1>15, <2>1, <2>2, EndType DEF BackupInfo, TypeInv, TypeOK, PcSet
  <2>3. CASE pc' = "load" /\ cur' = {} /\ job' = NoJob /\ UNCHANGED << conf, adhoc, heads, trash >>
    BY <1>0, <1>15, <2>1, <2>3, NoJobType DEF BackupInfo, TypeInv, TypeOK, PcSet, Phases
  <2> QED BY <1>15, <2>2, <2>3 DEF BackupInfo
<1> QED BY <1>1, <1>2, <1>3, <1>4, <1>5, <1>6, <1>7, <1>8, <1>9, <1>10, <1>11, <1>12, <1>13, <1>14,
           <1>15 DEF Backups

LEMMA WithoutKnown ==
    ASSUME NEW S, NEW l
    PROVE  /\ Without(S, l) \subseteq S
           /\ Labels(Without(S, l)) = Labels(S) \ {l}
BY DEF Without, Labels

LEMMA TypeRemove ==
    ASSUME TypeInv, NEW p \in {"full", "diff"}, NEW q \in {"fullCopy", "diffCopy"},
           RemoveManifest(p, q) \/ RemoveCopy(q, p)
    PROVE  TypeInv'
<1> USE DEF repoVars, pgVars, taskVars, boundVars, Making, Named, Started
<1>0. TypeOK /\ Phases
  BY DEF TypeInv
<1>1. CASE RemoveManifest(p, q)
  BY <1>0, <1>1, WithoutKnown DEF RemoveManifest, TypeInv, TypeOK, PcSet, Phases
<1>2. CASE RemoveCopy(q, p)
  BY <1>0, <1>2, WithoutKnown DEF RemoveCopy, TypeInv, TypeOK, PcSet, Phases
<1> QED BY <1>1, <1>2

LEMMA TypeExpires == TypeInv /\ Expires => TypeInv'
<1> SUFFICES ASSUME TypeInv, Expires PROVE TypeInv'
  OBVIOUS
<1> USE Numbers DEF repoVars, pgVars, taskVars, boundVars, Making, Named, Started
<1>0. TypeOK /\ Phases
  BY DEF TypeInv
<1>1. ASSUME NEW l \in dir \cup {NoLabel}, Expire(l) PROVE TypeInv'
  BY <1>0, <1>1 DEF Expire, TypeInv, TypeOK, PcSet, Phases
<1>2. ASSUME NEW c \in Config, ExpireLoad(c) PROVE TypeInv'
  <2>1. cur' \subseteq Backup
    BY <1>0, <1>2, ReconstructKnown DEF ExpireLoad, TypeOK
  <2>2. Labels(cur') \subseteq Label /\ FullExpired(cur', c) \subseteq Label
        /\ TimeExpired(cur', c, clock) \subseteq Label
    BY <2>1, LabelsType, ExpiredKnown
  <2>3. c.fullType \in {"count", "time"}
    BY BackupExpireAssumption
  <2>4. heads' = CASE adhoc # NoLabel -> {adhoc} \cap Labels(cur')
                   [] adhoc = NoLabel /\ c.fullType = "count" -> FullExpired(cur', c)
                   [] adhoc = NoLabel /\ c.fullType = "time" -> TimeExpired(cur', c, clock)
    BY <1>2 DEF ExpireLoad
  <2>5. heads' \subseteq Label
    <3>1. CASE adhoc # NoLabel
      BY <2>2, <2>4, <3>1
    <3>2. CASE adhoc = NoLabel /\ c.fullType = "count"
      BY <2>2, <2>4, <3>2
    <3>3. CASE adhoc = NoLabel /\ c.fullType = "time"
      BY <2>2, <2>4, <3>3
    <3> QED BY <2>3, <3>1, <3>2, <3>3
  <2> QED BY <1>0, <1>2, <2>1, <2>5 DEF ExpireLoad, TypeInv, TypeOK, PcSet, Phases
<1>3. CASE ExpireRefused
  BY <1>0, <1>3, EndType DEF ExpireRefused, TypeInv, TypeOK, PcSet
<1>4. CASE RemoveManifest("full", "fullCopy") \/ RemoveCopy("fullCopy", "full")
  BY <1>4, TypeRemove
<1>5. CASE ExpireDiffList
  <2>1. heads' \subseteq Label
    BY <1>0, <1>5, ExpiredKnown DEF ExpireDiffList, TypeOK
  <2> QED BY <1>0, <1>5, <2>1 DEF ExpireDiffList, TypeInv, TypeOK, PcSet, Phases
<1>6. CASE RemoveManifest("diff", "diffCopy") \/ RemoveCopy("diffCopy", "diff")
  BY <1>6, TypeRemove
<1>7. CASE ExpireSave
  BY <1>0, <1>7 DEF ExpireSave, TypeInv, TypeOK, PcSet, Phases
<1>8. CASE RemoveDir
  BY <1>0, <1>8, WithoutKnown DEF RemoveDir, TypeInv, TypeOK, PcSet, Phases
<1>9. CASE ExpireArchiveList
  <2>1. trash' \subseteq Pg \X Seg
    <3> DEFINE gone(p) == ArchiveExpired(cur, conf.archiveType, conf.archive, p, pg, wal[p])
    <3>1. \A p \in Pg : gone(p) \subseteq Seg
      BY <1>0, ArchiveExpiredKnown DEF TypeOK
    <3>2. trash' = UNION {{p} \X gone(p) : p \in Pg}
      BY <1>9 DEF ExpireArchiveList
    <3> HIDE DEF gone
    <3> QED BY <3>1, <3>2
  <2> QED BY <1>0, <1>9, <2>1 DEF ExpireArchiveList, TypeInv, TypeOK, PcSet, Phases
<1>10. CASE RemoveWal
  <2>1. wal' \in [Pg -> SUBSET Seg] /\ trash' \subseteq trash
    <3>1. PICK t \in trash :
             LET gone == {u \in trash : u[1] = t[1] /\ Path(u[2]) = Path(t[2])}
             IN  /\ trash' = trash \ gone
                 /\ wal' = [wal EXCEPT ![t[1]] = @ \ {u[2] : u \in gone}]
      BY <1>10 DEF RemoveWal
    <3> QED BY <1>0, <3>1 DEF TypeOK
  <2> QED BY <1>0, <1>10, <2>1 DEF RemoveWal, TypeInv, TypeOK, PcSet, Phases
<1>11. CASE RemoveHistory
  <2>1. history' \subseteq history
    BY <1>11 DEF RemoveHistory
  <2> QED BY <1>0, <1>11, <2>1, EndType DEF RemoveHistory, TypeInv, TypeOK, PcSet
<1> QED BY <1>1, <1>2, <1>3, <1>4, <1>5, <1>6, <1>7, <1>8, <1>9, <1>10, <1>11 DEF Expires

LEMMA TypeStep == TypeInv /\ [Next]_vars => TypeInv'
<1>1. ASSUME TypeInv, UNCHANGED vars PROVE TypeInv'
  BY <1>1 DEF TypeInv, TypeOK, Phases, vars, repoVars, pgVars, taskVars, boundVars
<1> QED BY <1>1, TypeBackground, TypeBackups, TypeExpires DEF Next

\* The repository, the cluster and the command always have the types of
\* TypeOK: backup.info, the manifests and the directories only ever get
\* labels and database ids that are well formed.
THEOREM TypeCorrect == Spec => []TypeOK
<1>1. Spec => []TypeInv
  BY TypeInit, TypeStep, PTL DEF Spec
<1> QED BY <1>1, PTL DEF TypeInv

-----------------------------------------------------------------------------
(* A complete backup has its files, whatever the clock does.               *)

LEMMA FilesStep ==
    ASSUME TypeInv, WithFiles, [Next]_vars
    PROVE  WithFiles'
<1> USE DEF repoVars, pgVars, taskVars, boundVars, Started, WithFiles
<1>1. CASE /\ UNCHANGED << manifest, dir >>
           /\ pc' \notin Started \/ (job'.label = job.label /\ pc \in Started)
  BY <1>1 DEF Labels
<1>2. ASSUME NEW o \in Options, BackupLoad(o) PROVE WithFiles'
  BY <1>1, <1>2 DEF BackupLoad, Plan
<1>3. CASE BackupStart
  BY <1>1, <1>3 DEF BackupStart, Plan
<1>4. CASE BackupRemove
  BY <1>4 DEF BackupRemove, Unfinished, Labels
<1>5. CASE BackupLabel
  BY <1>1, <1>5 DEF BackupLabel, Plan
<1>6. CASE BackupCopy
  BY <1>6 DEF BackupCopy, Labels
<1>7. CASE BackupStop
  <2>1. job'.label = job.label
    BY <1>7 DEF BackupStop, TypeInv, TypeOK, Job
  <2> QED BY <1>1, <1>7, <2>1 DEF BackupStop
<1>8. CASE BackupManifest
  BY <1>8 DEF BackupManifest, Labels
<1>9. CASE BackupInfo
  BY <1>1, <1>9 DEF BackupInfo, End
<1>10. CASE RemoveDir
  BY <1>10, WithoutKnown DEF RemoveDir
<1>11. ASSUME NEW p \in {"full", "diff"}, NEW q \in {"fullCopy", "diffCopy"},
              RemoveManifest(p, q) \/ RemoveCopy(q, p)
       PROVE  WithFiles'
  <2>1. CASE RemoveManifest(p, q)
    BY <2>1, WithoutKnown DEF RemoveManifest
  <2>2. CASE RemoveCopy(q, p)
    BY <2>2 DEF RemoveCopy, Labels
  <2> QED BY <1>11, <2>1, <2>2
<1>12. CASE BackupResume \/ BackupNew \/ BackupCheck \/ BackupFinal \/ BackupHistory
  BY <1>1, <1>12 DEF BackupResume, BackupNew, BackupCheck, BackupFinal, BackupHistory, Plan
<1>13. CASE Tick \/ ClockBack \/ Switch \/ Upgrade
  BY <1>1, <1>13 DEF Tick, ClockBack, Switch, Upgrade
<1>14. CASE Abort \/ BackupLabelError \/ BackupTimeout \/ ExpireRefused \/ RemoveHistory
  BY <1>1, <1>14 DEF Abort, BackupLabelError, BackupTimeout, ExpireRefused, RemoveHistory, End
<1>15. ASSUME NEW s \in Seg, Archive(s) \/ Drop(s) PROVE WithFiles'
  BY <1>1, <1>15 DEF Archive, Drop
<1>16. ASSUME NEW l \in dir \cup {NoLabel}, Expire(l) PROVE WithFiles'
  BY <1>1, <1>16 DEF Expire
<1>17. ASSUME NEW c \in Config, ExpireLoad(c) PROVE WithFiles'
  BY <1>1, <1>17 DEF ExpireLoad
<1>18. CASE ExpireDiffList \/ ExpireSave \/ ExpireArchiveList \/ RemoveWal
  BY <1>1, <1>18 DEF ExpireDiffList, ExpireSave, ExpireArchiveList, RemoveWal
<1>19. CASE UNCHANGED vars
  BY <1>1, <1>19 DEF vars
<1> QED
  BY <1>2, <1>3, <1>4, <1>5, <1>6, <1>7, <1>8, <1>9, <1>10, <1>11, <1>12, <1>13, <1>14, <1>15, <1>16,
     <1>17, <1>18, <1>19 DEF Next, Backups, Expires

\* A backup with a manifest has its directory at every step of backup and
\* expire, of any options and after any faults, even if the clock is set
\* back: files only go after or with the manifest.
THEOREM FilesKept == Spec => [](Labels(manifest) \subseteq dir)
<1>1. Init => TypeInv /\ WithFiles
  BY TypeInit DEF Init, WithFiles, Labels, Started
<1>2. TypeInv /\ WithFiles /\ [Next]_vars => (TypeInv /\ WithFiles)'
  BY TypeStep, FilesStep
<1>3. Spec => [](TypeInv /\ WithFiles)
  BY <1>1, <1>2, PTL DEF Spec
<1> QED BY <1>3, PTL DEF WithFiles

-----------------------------------------------------------------------------
(* As long as the clock is not set back.                                   *)

LEMMA KnownType ==
    ASSUME TypeInv
    PROVE  /\ Known \subseteq Backup /\ clock \in Nat /\ job.time \in Nat
           /\ job \in Job
           /\ \A b \in Known : b.label \in Label /\ Stamp(b.label) \in Nat
           /\ \A l \in dir : l \in Label /\ Stamp(l) \in Nat
           /\ job.label # NoLabel => job.label \in Label /\ Stamp(job.label) \in Nat
           /\ Labels(manifest) \subseteq Label
<1>1. /\ Known \subseteq Backup /\ clock \in Nat /\ job \in Job /\ dir \subseteq Label
      /\ manifest \subseteq Backup
  BY Numbers DEF TypeInv, TypeOK, Known
<1>2. job.time \in Nat /\ job.label \in Label \cup {NoLabel}
  BY <1>1 DEF Job
<1>3. \A l \in Label : Stamp(l) \in Nat
  BY LabelType DEF Stamp
<1> QED BY <1>1, <1>2, <1>3, BackupFields, LabelsType

\* Backups and directories that go, and time that goes on.
LEMMA LessKnown ==
    ASSUME TypeInv, TypeInv', OnePrior, Ordered, Past,
           Known' \subseteq Known, dir' \subseteq dir, clock <= clock'
    PROVE  OnePrior' /\ Ordered' /\ Past'
<1>1. OnePrior' /\ Ordered'
  BY DEF OnePrior, Ordered
<1>2. clock' \in Nat
  BY Numbers DEF TypeInv, TypeOK
<1>3. ASSUME NEW b \in Known' PROVE Stamp(b.label) < clock'
  BY <1>2, KnownType DEF Past
<1>4. ASSUME NEW l \in dir' PROVE Stamp(l) <= clock'
  BY <1>2, KnownType DEF Past
<1> QED BY <1>1, <1>3, <1>4 DEF Past

\* Steps of PostgreSQL, and steps that change nothing a backup is known by.
LEMMA SameKnown ==
    ASSUME TypeInv, TypeInv', Good, clock <= clock',
           UNCHANGED << info, manifest, cur, dir, job, pc, heads >>
    PROVE  Good'
<1> USE DEF Good
<1>1. OnePrior' /\ Ordered' /\ Past'
  BY LessKnown DEF Known
<1>2. BuiltOn' /\ Closed(manifest)'
  BY DEF BuiltOn, Closed, Labels
<1>3. Nameless' = Nameless
  BY DEF Nameless
<1>4. Known' = Known
  BY DEF Known
<1>c. clock' \in Nat
  BY Numbers DEF TypeInv, TypeOK
<1>5. Fresh'
  BY <1>3, <1>4, <1>c, KnownType DEF Fresh
<1>6. Kept'
  BY <1>4, <1>c, KnownType DEF Kept
<1>7. Victim' = Victim
  BY DEF Victim
<1>8. Listed'
  BY <1>7 DEF Listed
<1> QED BY <1>1, <1>2, <1>5, <1>6, <1>8

\* Steps that end a command, or begin one that has not looked yet.
LEMMA NothingMade ==
    ASSUME TypeInv, TypeInv', Good, clock <= clock',
           UNCHANGED << manifest, dir >>, Known' \subseteq Known,
           pc' \in {"idle", "load", "wal"}
    PROVE  Good'
<1> USE DEF Good
<1>1. OnePrior' /\ Ordered' /\ Past'
  BY LessKnown
<1>2. Closed(manifest)'
  BY DEF Closed, Labels
<1>3. BuiltOn' /\ Fresh' /\ Kept' /\ Listed'
  BY DEF BuiltOn, Fresh, Kept, Listed, Making, Nameless
<1> QED BY <1>1, <1>2, <1>3

\* Steps of backup after which the job is as it was.
LEMMA JobGoesOn ==
    ASSUME TypeInv, TypeInv', Good, clock' = clock, UNCHANGED << info, manifest, cur, job >>,
           pc \in Making, pc' \in Making, Nameless' => Nameless,
           dir' \subseteq dir,
           pc' \in {"resume", "label"} => pc \in {"resume", "label"}
    PROVE  Good'
<1> USE DEF Good
<1>1. Known' = Known
  BY DEF Known
<1>2. OnePrior' /\ Ordered' /\ Past'
  BY <1>1, LessKnown, KnownType
<1>3. BuiltOn' /\ Closed(manifest)'
  BY DEF BuiltOn, Closed, Labels
<1>4. Fresh'
  BY <1>1, KnownType DEF Fresh
<1>5. Kept'
  BY <1>1 DEF Kept
<1>6. Listed'
  BY DEF Listed, Making
<1> QED BY <1>2, <1>3, <1>4, <1>5, <1>6

LEMMA GoodLoad ==
    ASSUME TypeInv, TypeInv', Good, NEW o \in Options, BackupLoad(o)
    PROVE  Good'
<1> USE DEF Good, repoVars, pgVars
<1>1. /\ cur' = Reconstruct(info, manifest) /\ UNCHANGED << info, manifest, dir, clock >>
      /\ pc' \in {"start", "resume"}
  BY DEF BackupLoad, Plan
<1>2. Known' \subseteq Known
  BY <1>1, ReconstructKnown DEF Known
<1>3. OnePrior' /\ Ordered' /\ Past'
  BY <1>1, <1>2, LessKnown, KnownType
<1>4. Labels(cur') = Labels(manifest)
  BY <1>1, ReconstructLabels, SMTT(30)
<1>5. PICK prior \in IF Priors(cur', o.kind, pg) = {} THEN {NoLabel} ELSE Priors(cur', o.kind, pg) :
          job' = [NoJob EXCEPT !.prior = prior, !.time = clock,
                               !.kind = IF Priors(cur', o.kind, pg) = {} THEN FullKind ELSE o.kind,
                               !.resume = o.resume]
  BY DEF BackupLoad
<1>6. job'.prior = prior /\ job'.time = clock /\ job'.label = NoLabel /\ job'.start = NoWal
  BY <1>5, NoJobType DEF NoJob
<1>7. prior \in {NoLabel} \cup Labels(manifest)
  BY <1>4, Numbers, PriorsKnown
<1>8. BuiltOn' /\ Closed(manifest)'
  BY <1>1, <1>6, <1>7 DEF BuiltOn, Closed, Labels
<1>9. Fresh'
  BY <1>1, <1>2, <1>6, KnownType DEF Fresh, Past
<1>10. Kept' /\ Listed'
  BY <1>1, <1>6 DEF Kept, Listed
<1> QED BY <1>3, <1>8, <1>9, <1>10

LEMMA GoodStart ==
    ASSUME TypeInv, TypeInv', Good, BackupStart
    PROVE  Good'
<1> USE DEF Good, repoVars, pgVars, Making
<1>1. /\ UNCHANGED << info, manifest, dir, cur >> /\ clock' = clock + 1 /\ pc = "start"
      /\ pc' = IF job.label = NoLabel THEN "resume" ELSE "copy"
  BY DEF BackupStart, Plan
<1>2. /\ job'.prior = job.prior /\ job'.time = job.time /\ job'.label = job.label
      /\ job'.kind = job.kind
  BY KnownType DEF BackupStart, Job
<1>3. Known' = Known
  BY <1>1 DEF Known
<1>4. OnePrior' /\ Ordered' /\ Past'
  BY <1>1, <1>3, LessKnown, KnownType
<1>5. BuiltOn' /\ Closed(manifest)'
  BY <1>1, <1>2 DEF BuiltOn, Closed, Labels
<1>6. Nameless' => Nameless
  BY <1>1, <1>2 DEF Nameless
<1>7. Fresh'
  <2>1. pc' = "resume" => Nameless
    BY <1>1 DEF Nameless
  <2>2. Nameless => job.time <= clock /\ \A b \in Known : Stamp(b.label) < job.time
    BY DEF Fresh
  <2>3. \A l \in dir : Stamp(l) < clock'
    BY <1>1, KnownType DEF Past
  <2>4. job.time <= clock => job.time < clock'
    BY <1>1, KnownType
  <2> QED BY <1>1, <1>2, <1>3, <1>6, <2>1, <2>2, <2>3, <2>4, KnownType DEF Fresh
<1>8. Kept'
  BY <1>1, <1>2, <1>3, KnownType DEF Kept
<1>9. Listed'
  BY <1>1 DEF Listed
<1> QED BY <1>4, <1>5, <1>7, <1>8, <1>9

LEMMA GoodResume ==
    ASSUME TypeInv, TypeInv', Good, BackupResume
    PROVE  Good'
<1> USE DEF Good, repoVars, pgVars, Making
<1>1. /\ UNCHANGED << info, manifest, dir, cur, clock >> /\ pc = "resume" /\ pc' = "copy"
  BY DEF BackupResume, Plan
<1>2. PICK l \in Unfinished : Resumable(l) /\ job' = [job EXCEPT !.label = l]
  BY DEF BackupResume
<1>3. /\ job'.prior = job.prior /\ job'.time = job.time /\ job'.label = l
      /\ job'.kind = job.kind /\ job'.start = job.start
  BY <1>2, KnownType DEF Job
<1>4. Known' = Known
  BY <1>1 DEF Known
<1>5. OnePrior' /\ Ordered' /\ Past'
  BY <1>1, <1>4, LessKnown, KnownType
<1>6. BuiltOn' /\ Closed(manifest)'
  BY <1>1, <1>3 DEF BuiltOn, Closed, Labels
<1>7. Fresh'
  BY <1>1 DEF Fresh, Nameless
<1>8. l \in dir /\ l.kind = FullKind /\ job.kind = FullKind /\ job.prior = NoLabel
  BY <1>1, <1>2 DEF Unfinished, Newest, Resumable, TypeInv, Phases
<1>9. Kept'
  BY <1>1, <1>3, <1>4, <1>8, KnownType DEF Kept, Ordered, Past, Fresh
<1>10. Listed'
  BY <1>1 DEF Listed
<1> QED BY <1>5, <1>6, <1>7, <1>9, <1>10

LEMMA GoodLabel ==
    ASSUME TypeInv, TypeInv', WithFiles, Good, BackupLabel
    PROVE  Good'
<1> USE DEF Good, repoVars, pgVars, Making
<1>1. UNCHANGED << info, manifest, dir, cur >> /\ pc = "label" /\ pc' = "copy"
  BY DEF BackupLabel, Plan
<1>2. PICK t \in Nat : /\ job' = [job EXCEPT !.label = LabelAt(t)] /\ Later(LabelAt(t))
                       /\ \/ t = job.time /\ clock' = clock
                          \/ t = job.time + 1 /\ clock' = clock + 1
  BY KnownType DEF BackupLabel
<1>3. /\ job'.prior = job.prior /\ job'.time = job.time /\ job'.label = LabelAt(t)
      /\ job'.kind = job.kind /\ job'.start = job.start
  BY <1>2, KnownType DEF Job
<1>4. Known' = Known
  BY <1>1 DEF Known
<1>5. OnePrior' /\ Ordered' /\ Past'
  BY <1>1, <1>2, <1>4, LessKnown, KnownType
<1>6. BuiltOn' /\ Closed(manifest)'
  BY <1>1, <1>3 DEF BuiltOn, Closed, Labels
<1>7. Fresh'
  BY <1>1 DEF Fresh, Nameless
<1>8. LabelAt(t).kind = job.kind /\ Stamp(LabelAt(t)) = t
  BY DEF LabelAt, Stamp, FullKind
<1>9. job.time <= t /\ t <= clock' /\ (job.start # NoWal => t < clock')
  BY <1>1, <1>2, KnownType DEF Fresh, Nameless
<1>10. job.prior = NoLabel \/ Before(job.prior, LabelAt(t))
  <2>1. Labels(manifest) \subseteq dir
    BY DEF WithFiles
  <2> QED BY <1>1, <1>2, <2>1 DEF BuiltOn, Later, Compared
<1>11. ASSUME NEW b \in Known PROVE b.label # LabelAt(t)
  BY <1>1, <1>8, <1>9, KnownType DEF Fresh, Nameless
<1>12. Kept'
  BY <1>1, <1>3, <1>4, <1>8, <1>9, <1>10, <1>11 DEF Kept
<1>13. Listed'
  BY <1>1 DEF Listed
<1> QED BY <1>5, <1>6, <1>7, <1>12, <1>13

LEMMA GoodCopy ==
    ASSUME TypeInv, TypeInv', Good, BackupCopy
    PROVE  Good'
<1> USE DEF Good, taskVars, pgVars, Making
<1>1. /\ UNCHANGED << info, manifest, cur, job, clock >> /\ pc = "copy" /\ pc' \in {"start", "stop"}
      /\ dir' = dir \cup {job.label} /\ job.label # NoLabel
  BY DEF BackupCopy, TypeInv, Phases, Named
<1>2. Known' = Known
  BY <1>1 DEF Known
<1>3. OnePrior' /\ Ordered'
  BY <1>2 DEF OnePrior, Ordered
<1>4. Past'
  BY <1>1, <1>2 DEF Past, Kept
<1>5. BuiltOn' /\ Closed(manifest)'
  BY <1>1 DEF BuiltOn, Closed, Labels
<1>6. Fresh'
  BY <1>1 DEF Fresh, Nameless
<1>7. Kept' /\ Listed'
  BY <1>1, <1>2 DEF Kept, Listed
<1> QED BY <1>3, <1>4, <1>5, <1>6, <1>7

LEMMA GoodStop ==
    ASSUME TypeInv, TypeInv', Good, BackupStop
    PROVE  Good'
<1> USE DEF Good, repoVars, Making
<1>1. UNCHANGED << info, manifest, dir, cur, clock >> /\ pc = "stop" /\ pc' = "check"
  BY DEF BackupStop
<1>2. /\ job'.prior = job.prior /\ job'.time = job.time /\ job'.label = job.label
      /\ job'.kind = job.kind /\ job'.start = job.start
  BY KnownType DEF BackupStop, Job
<1>3. Known' = Known
  BY <1>1 DEF Known
<1>4. OnePrior' /\ Ordered' /\ Past'
  BY <1>1, <1>3, LessKnown, KnownType
<1>5. BuiltOn' /\ Closed(manifest)'
  BY <1>1, <1>2 DEF BuiltOn, Closed, Labels
<1>6. Fresh'
  BY <1>1 DEF Fresh, Nameless
<1>7. Kept' /\ Listed'
  BY <1>1, <1>2, <1>3 DEF Kept, Listed
<1> QED BY <1>4, <1>5, <1>6, <1>7

LEMMA GoodManifest ==
    ASSUME TypeInv, TypeInv', Good, BackupManifest
    PROVE  Good'
<1> USE DEF Good, taskVars, pgVars, Making
<1> DEFINE new == [label |-> job.label, prior |-> job.prior, pg |-> pg, start |-> job.start,
                   stop |-> job.stop, end |-> job.end]
<1>1. /\ UNCHANGED << info, dir, cur, job, clock >> /\ pc = "manifest" /\ pc' = "history"
      /\ manifest' = manifest \cup {new} /\ job.label # NoLabel /\ job.start # NoWal
      /\ job.kind = FullKind => job.prior = NoLabel
  BY DEF BackupManifest, TypeInv, Phases, Named, Started
<1>2. new.label = job.label /\ new.prior = job.prior
  OBVIOUS
<1> HIDE DEF new
<1>3. Known' = Known \cup {new}
  BY <1>1 DEF Known
<1>4. /\ job.label.kind = job.kind /\ Stamp(job.label) < clock
      /\ job.prior = NoLabel \/ Before(job.prior, job.label)
      /\ \A b \in Known : b.label = job.label => b.prior = job.prior
  BY <1>1 DEF Kept
<1>5. OnePrior'
  BY <1>2, <1>3, <1>4 DEF OnePrior
<1>6. Ordered'
  BY <1>1, <1>2, <1>3, <1>4 DEF Ordered
<1>7. Past'
  BY <1>1, <1>2, <1>3, <1>4 DEF Past
<1>8. Labels(manifest') = Labels(manifest) \cup {job.label}
  BY <1>1, <1>2 DEF Labels
<1>9. Closed(manifest')
  BY <1>1, <1>2, <1>8 DEF Closed, BuiltOn
<1>10. BuiltOn'
  BY <1>1, <1>8 DEF BuiltOn
<1>11. Fresh' /\ Listed'
  BY <1>1 DEF Fresh, Nameless, Listed
<1>12. Kept'
  BY <1>1, <1>2, <1>3 DEF Kept
<1> QED BY <1>5, <1>6, <1>7, <1>9, <1>10, <1>11, <1>12

LEMMA GoodBackups ==
    ASSUME TypeInv, TypeInv', WithFiles, Good, Backups
    PROVE  Good'
<1> USE DEF repoVars, pgVars, taskVars, Making
<1>0. clock \in Nat
  BY KnownType
<1>1. CASE BackupRemove
  BY <1>1, JobGoesOn DEF BackupRemove, Nameless
<1>2. CASE BackupNew
  BY <1>2, JobGoesOn DEF BackupNew, Nameless, Plan
<1>3. CASE BackupCheck
  BY <1>3, JobGoesOn DEF BackupCheck, Nameless, Plan
<1>4. CASE BackupFinal
  BY <1>4, JobGoesOn DEF BackupFinal, Nameless
<1>5. CASE BackupHistory
  BY <1>5, JobGoesOn DEF BackupHistory, Nameless
<1>6. CASE BackupLabelError \/ BackupTimeout
  BY <1>0, <1>6, NothingMade DEF BackupLabelError, BackupTimeout, End, Known
<1>7. CASE BackupInfo
  BY <1>0, <1>7, NothingMade DEF BackupInfo, End, Known
<1> QED BY <1>1, <1>2, <1>3, <1>4, <1>5, <1>6, <1>7, GoodLoad, GoodStart, GoodResume, GoodLabel,
           GoodCopy, GoodStop, GoodManifest DEF Backups

LEMMA GoodExpireLoad ==
    ASSUME TypeInv, TypeInv', Good, NEW c \in Config, ExpireLoad(c)
    PROVE  Good'
<1> USE DEF Good, repoVars
<1>1. /\ cur' = Reconstruct(info, manifest) /\ UNCHANGED << info, manifest, dir, clock >>
      /\ pc' = "full"
  BY DEF ExpireLoad
<1>2. Known' \subseteq Known
  BY <1>1, ReconstructKnown DEF Known
<1>3. OnePrior' /\ Ordered' /\ Past'
  BY <1>1, <1>2, LessKnown, KnownType
<1>4. Closed(manifest)' /\ BuiltOn' /\ Fresh' /\ Kept'
  BY <1>1 DEF Closed, Labels, BuiltOn, Fresh, Kept, Making, Nameless
<1>5. Labels(manifest') \subseteq Labels(cur')
  BY <1>1, ReconstructLabels
<1>6. Listed'
  BY <1>1, <1>5 DEF Listed
<1> QED BY <1>3, <1>4, <1>6

\* What is removed is the only one of its turn.
LEMMA VictimOne ==
    ASSUME TypeInv, NEW l \in Victim, NEW m \in Victim
    PROVE  l = m
<1>1. PICK h \in Oldest(heads), k \in Oldest(heads) :
          l \in Newest(Dependents(cur, h)) /\ m \in Newest(Dependents(cur, k))
  BY DEF Victim
<1>2. heads \subseteq Label /\ cur \subseteq Backup
  BY DEF TypeInv, TypeOK
<1>3. h = k /\ h \in Label
  BY <1>2, OldestOne DEF Oldest
<1>4. Dependents(cur, h) \subseteq Label
  BY <1>2, <1>3, DependentsKnown, LabelsType
<1> QED BY <1>1, <1>3, <1>4, NewestOne

\* The newest goes first, so nothing complete is built on it.
LEMMA GoodRemoveManifest ==
    ASSUME TypeInv, TypeInv', Good, NEW p \in {"full", "diff"}, NEW q \in {"fullCopy", "diffCopy"},
           RemoveManifest(p, q)
    PROVE  Good'
<1> USE DEF Good, taskVars, pgVars
<1>1. PICK l \in Victim : manifest' = Without(manifest, l)
  BY DEF RemoveManifest
<1>2. UNCHANGED << info, dir, cur, heads, clock >> /\ pc = p /\ pc' = q
  BY DEF RemoveManifest
<1>3. Known' \subseteq Known
  BY <1>1, <1>2, WithoutKnown DEF Known
<1>4. OnePrior' /\ Ordered' /\ Past'
  BY <1>2, <1>3, LessKnown, KnownType
<1>5. Labels(manifest') = Labels(manifest) \ {l}
  BY <1>1, WithoutKnown
<1>6. ASSUME NEW b \in manifest, b.prior = l
      PROVE  b.label = l
  <2>1. PICK h \in Oldest(heads) : l \in Newest(Dependents(cur, h))
    BY DEF Victim
  <2>2. PICK c \in cur : c.label = b.label
    BY <1>2 DEF Listed, Labels
  <2>3. c.prior = l /\ c \in Known
    BY <1>6, <2>2 DEF OnePrior, Known
  <2>4. l \in Label /\ l # NoLabel
    BY VictimType, LabelType
  <2>5. Before(l, c.label)
    BY <2>3, <2>4 DEF Ordered
  <2>6. c.label \in Dependents(cur, h)
    BY <2>1, <2>3, DependentsKnown DEF Newest
  <2> QED BY <2>1, <2>5, <2>6 DEF Newest
<1>7. Closed(manifest')
  <2>1. ASSUME NEW b \in manifest'
        PROVE  b.prior = NoLabel \/ b.prior \in Labels(manifest')
    <3>1. b \in manifest /\ b.label # l
      BY <1>1, <2>1 DEF Without
    <3> QED BY <1>5, <1>6, <3>1 DEF Closed
  <2> QED BY <2>1 DEF Closed
<1>8. BuiltOn' /\ Fresh' /\ Kept'
  BY <1>2 DEF BuiltOn, Fresh, Kept, Making, Nameless
<1>9. Victim' = Victim
  BY <1>2 DEF Victim
<1>10. Victim \subseteq {l}
  BY VictimOne
<1>11. Listed'
  BY <1>2, <1>5, <1>9, <1>10 DEF Listed
<1> QED BY <1>4, <1>7, <1>8, <1>11

LEMMA GoodRemoveCopy ==
    ASSUME TypeInv, TypeInv', Good, NEW p \in {"full", "diff"}, NEW q \in {"fullCopy", "diffCopy"},
           RemoveCopy(q, p)
    PROVE  Good'
<1> USE DEF Good, pgVars
<1>1. PICK l \in Victim : cur' = Without(cur, l)
  BY DEF RemoveCopy
<1>2. UNCHANGED << info, manifest, dir, clock >> /\ pc = q /\ pc' = p
  BY DEF RemoveCopy
<1>3. Known' \subseteq Known
  BY <1>1, <1>2, WithoutKnown DEF Known
<1>4. OnePrior' /\ Ordered' /\ Past'
  BY <1>2, <1>3, LessKnown, KnownType
<1>5. Closed(manifest)' /\ BuiltOn' /\ Fresh' /\ Kept'
  BY <1>2 DEF Closed, Labels, BuiltOn, Fresh, Kept, Making, Nameless
<1>6. Labels(manifest') \subseteq Labels(cur')
  BY <1>1, <1>2, WithoutKnown DEF Listed
<1>7. Listed'
  BY <1>2, <1>6 DEF Listed
<1> QED BY <1>4, <1>5, <1>7

LEMMA GoodExpires ==
    ASSUME TypeInv, TypeInv', Good, Expires
    PROVE  Good'
<1> USE DEF repoVars, pgVars, taskVars
<1>0. clock \in Nat
  BY KnownType
<1>1. ASSUME NEW l \in dir \cup {NoLabel}, Expire(l) PROVE Good'
  BY <1>0, <1>1, NothingMade DEF Expire, Known
<1>2. CASE ExpireRefused \/ RemoveHistory
  BY <1>0, <1>2, NothingMade DEF ExpireRefused, RemoveHistory, End, Known
<1>3. CASE ExpireArchiveList
  BY <1>0, <1>3, NothingMade DEF ExpireArchiveList, Known
<1>4. CASE RemoveWal
  BY <1>0, <1>4, NothingMade DEF RemoveWal, Known
<1>5. CASE ExpireDiffList
  <2> USE DEF Good
  <2>1. UNCHANGED << info, manifest, dir, cur, clock >> /\ pc = "full" /\ pc' = "diff"
    BY <1>5 DEF ExpireDiffList
  <2>2. OnePrior' /\ Ordered' /\ Past'
    BY <1>0, <2>1, LessKnown DEF Known
  <2>3. Closed(manifest)' /\ BuiltOn' /\ Fresh' /\ Kept' /\ Listed'
    BY <2>1 DEF Closed, Labels, BuiltOn, Fresh, Kept, Making, Nameless, Listed
  <2> QED BY <2>2, <2>3
<1>6. CASE ExpireSave
  <2> USE DEF Good
  <2>1. /\ UNCHANGED << manifest, dir, cur, clock >> /\ pc = "diff" /\ pc' = "dirs"
        /\ info' = cur /\ heads' = dir \ (Labels(cur) \cup Skipped)
    BY <1>6 DEF ExpireSave
  <2>2. OnePrior' /\ Ordered' /\ Past'
    BY <1>0, <2>1, LessKnown DEF Known
  <2>3. Closed(manifest)' /\ BuiltOn' /\ Fresh' /\ Kept' /\ Listed'
    BY <2>1 DEF Closed, Labels, BuiltOn, Fresh, Kept, Making, Nameless, Listed
  <2> QED BY <2>2, <2>3
<1>7. CASE RemoveDir
  <2> USE DEF Good
  <2>1. PICK l \in heads : heads' = heads \ {l} /\ dir' = dir \ {l} /\ manifest' = Without(manifest, l)
    BY <1>7 DEF RemoveDir, Newest
  <2>2. UNCHANGED << info, cur, clock >> /\ pc = "dirs" /\ pc' = "dirs"
    BY <1>7 DEF RemoveDir
  <2>3. l \notin Labels(manifest) /\ heads' \cap Labels(cur) = {}
    BY <2>1, <2>2 DEF Listed
  <2>4. manifest' = manifest
    BY <2>1, <2>3 DEF Without, Labels
  <2>5. OnePrior' /\ Ordered' /\ Past'
    BY <1>0, <2>1, <2>2, <2>4, LessKnown DEF Known
  <2>6. Closed(manifest)' /\ BuiltOn' /\ Fresh' /\ Kept' /\ Listed'
    BY <2>2, <2>3, <2>4 DEF Closed, Labels, BuiltOn, Fresh, Kept, Making, Nameless, Listed
  <2> QED BY <2>5, <2>6
<1>8. CASE RemoveManifest("full", "fullCopy") \/ RemoveCopy("fullCopy", "full")
  BY <1>8, GoodRemoveManifest, GoodRemoveCopy
<1>9. CASE RemoveManifest("diff", "diffCopy") \/ RemoveCopy("diffCopy", "diff")
  BY <1>9, GoodRemoveManifest, GoodRemoveCopy
<1> QED BY <1>1, <1>2, <1>3, <1>4, <1>5, <1>6, <1>7, <1>8, <1>9, GoodExpireLoad DEF Expires

LEMMA GoodStep ==
    ASSUME TypeInv, TypeInv', WithFiles, Good, [Next]_vars, shifts' = 0, shifts = 0
    PROVE  Good'
<1> USE DEF repoVars, pgVars, taskVars, boundVars
<1>0. clock \in Nat
  BY KnownType
<1>1. CASE Tick
  BY <1>0, <1>1, SameKnown DEF Tick
<1>2. CASE ClockBack
  BY <1>2 DEF ClockBack
<1>3. CASE Switch \/ Upgrade
  BY <1>0, <1>3, SameKnown DEF Switch, Upgrade
<1>4. ASSUME NEW s \in Seg, Archive(s) \/ Drop(s) PROVE Good'
  BY <1>0, <1>4, SameKnown DEF Archive, Drop
<1>5. CASE Abort
  BY <1>0, <1>5, NothingMade DEF Abort, End, Known
<1>6. CASE UNCHANGED vars
  BY <1>0, <1>6, SameKnown DEF vars
<1> QED BY <1>1, <1>2, <1>3, <1>4, <1>5, <1>6, GoodBackups, GoodExpires DEF Next

LEMMA ShiftsGrow == TypeInv /\ [Next]_vars /\ shifts' = 0 => shifts = 0
<1> SUFFICES ASSUME TypeInv, [Next]_vars, shifts' = 0, shifts # 0 PROVE FALSE
  OBVIOUS
<1> USE DEF boundVars
<1>1. ~ClockBack
  BY SMTT(30) DEF ClockBack, TypeInv, TypeOK
<1>2. UNCHANGED shifts
  BY <1>1 DEF Next, vars, Tick, Switch, Upgrade, Abort, Archive, Drop, Backups, Expires,
     BackupLoad, BackupStart, BackupResume, BackupRemove, BackupNew, BackupLabel, BackupLabelError,
     BackupCopy, BackupStop, BackupCheck, BackupTimeout, BackupFinal, BackupManifest,
     BackupHistory, BackupInfo, Plan, Expire, ExpireLoad, ExpireRefused, RemoveManifest,
     RemoveCopy, ExpireDiffList, ExpireSave, RemoveDir, ExpireArchiveList, RemoveWal, RemoveHistory
<1> QED BY <1>2

LEMMA GoodInit == Init => Good
BY Numbers DEF Init, Good, OnePrior, Ordered, Past, BuiltOn, Fresh, Kept, Listed, Closed, Labels,
   Known, Making, Nameless

LEMMA Invariant == Spec => []BackupInv
<1>1. Init => BackupInv
  BY TypeInit, GoodInit DEF BackupInv, Init, WithFiles, Labels, Started
<1>2. BackupInv /\ [Next]_vars => BackupInv'
  BY TypeStep, FilesStep, GoodStep, ShiftsGrow DEF BackupInv
<1> QED BY <1>1, <1>2, PTL DEF Spec

\* Whenever backup or expire is interrupted, what has a manifest can be
\* restored: what it is built on has one too, and each has its directory.
\* This is for any options, retention settings, --set, stanza-upgrade and
\* faults, as long as the clock is not set back (shifts = 0).
THEOREM Recoverable == Spec => [](shifts = 0 => Restorable)
<1>1. BackupInv => (shifts = 0 => Restorable)
  BY DEF BackupInv, Good, WithFiles, Restorable
<1> QED BY <1>1, Invariant, PTL
-----------------------------------------------------------------------------
(* What retention keeps and what the WAL makes consistent.  This needs more *)
(* than BackupInv: that backup.info is never believed for a backup it does  *)
(* not describe.                                                            *)

\* No backup is resumed, or there is no second fault after which the stale
\* entry of a resumed one could stay in backup.info.
Trusted == MaxFault <= 1 \/ \A o \in Options : ~o.resume

\* backup.info may have an entry for a label that is used again.
Stale == faults # 0 /\ MaxFault <= 1

Saving == {"history", "info"}
Preparing == Making \ Saving
Removing == {"full", "fullCopy", "diff", "diffCopy"}

\* The full backup a label is derived from.
Root(l) == [full |-> l.full, time |-> 0, kind |-> FullKind]

\* A label has one manifest, and backup.info agrees with it or is about to.
Agreed ==
    /\ \A b, c \in manifest : b.label = c.label => b = c
    /\ \A b \in info, c \in manifest :
            b.label = c.label => b = c \/ (pc \in Saving /\ c.label = job.label /\ Stale)
    /\ (faults = 0 /\ pc \notin Removing) => Labels(info) \subseteq Labels(manifest)

\* The command that runs knows exactly the manifests.
Same ==
    /\ pc \in Preparing \cup {"full", "diff", "dirs", "wal"} => cur = manifest
    /\ pc \in {"fullCopy", "diffCopy"} => \E l \in Victim : manifest = Without(cur, l)
    /\ pc \in Saving => job.label \in Labels(manifest) /\ cur = Without(manifest, job.label)

\* The backup that is made.
JobNew ==
    /\ \A l \in dir : l.kind = FullKind <=> l.time = 0
    /\ pc \in Making /\ job.resume => MaxFault <= 1
    /\ (pc \in Making /\ job.label # NoLabel) =>
            /\ job.label.kind = FullKind <=> job.label.time = 0
            /\ job.kind # FullKind => job.label.full = job.prior.full
    /\ (pc \in Preparing /\ job.label # NoLabel) =>
            /\ job.label \in Labels(info) => Stale
            /\ \A b \in manifest : Before(b.label, job.label)
    /\ (pc \in Preparing /\ job.prior # NoLabel) =>
            \E b \in manifest : b.label = job.prior /\ b.pg = pg

\* Every backup depends on a full backup of its cluster.
Rooted ==
    \A b \in manifest : \E r \in manifest :
        /\ r.label = Root(b.label) /\ r.pg = b.pg
        /\ b.label \in Dependents(manifest, r.label)

\* A newer backup does not start before an older one.
Positions ==
    /\ \A b \in manifest : b.start # NoWal /\ b.start <= pos
    /\ \A b, c \in manifest : Before(b.label, c.label) => b.start <= c.start
    /\ (pc \in Making /\ job.start # NoWal) => job.start <= pos
    /\ (pc \in Preparing /\ job.start # NoWal) => \A b \in manifest : b.start <= job.start

\* As retention wants it when the backup goes.
Fulls == OfKind(manifest, {FullKind})
Spared(b) ==
    /\ Newer(Fulls, b) # {}
    /\ IF conf.fullType = "count" THEN Cardinality(Newer(Fulls, b)) >= conf.full
       ELSE \E c \in Newer(Fulls, b) : c.end + conf.full < clock

Expiring ==
    /\ pc \in Removing \cup {"dirs", "wal"} => conf.full \in Nat /\ conf.archiveType \in 0..2
    /\ (pc \in {"full", "fullCopy"} /\ adhoc = NoLabel) =>
            \A b \in manifest : b.label \in heads => Spared(b)
    /\ (pc \in {"full", "fullCopy"} /\ adhoc # NoLabel) =>
            /\ heads \subseteq {adhoc}
            /\ \A b \in Fulls : (b.label \in heads /\ b.label \in Newest(Labels(Fulls))) =>
                    \E c \in Fulls : c.label # b.label /\ c.pg = b.pg
    /\ pc \in {"diff", "diffCopy"} => \A h \in heads : h.kind = DiffKind

\* Recovery may replay from this backup.
Replayed(b) ==
    \/ Cardinality(Newer(OfKind(manifest, 0..conf.archiveType), b)) < conf.archive
    \/ \A c \in Newer(manifest, b) : c.pg # b.pg

Archived ==
    /\ Consistent
    /\ pc \in {"final", "manifest"} => Needed(job) \subseteq wal[pg]
    /\ pc = "wal" => \A t \in trash : \A b \in manifest : b.pg = t[1] =>
            /\ t[2] \notin Needed(b)
            /\ Replayed(b) => t[2] < b.start

Exact == Agreed /\ Same /\ JobNew /\ Rooted /\ Positions /\ Expiring /\ Archived

RetentionInv == BackupInv /\ (shifts = 0 => Exact)

-----------------------------------------------------------------------------
(* Numbers and labels: there is a first and a last one. *)

LEMMA LeastNumber ==
    ASSUME NEW T \in SUBSET Nat, T # {}
    PROVE  \E x \in T : \A y \in T : x <= y
<1> DEFINE Less == {p \in Nat \X Nat : p[1] < p[2]}
<1>1. IsWellFoundedOn(Less, Nat)
  BY NatLessThanWellFounded DEF OpToRel
<1>2. PICK x \in T : \A y \in T : ~ (<<y, x>> \in Less)
  BY <1>1, WFMin
<1>3. ASSUME NEW y \in T PROVE x <= y
  <2>1. ~ (y < x)
    BY <1>2
  <2> QED BY <2>1
<1> QED BY <1>3

LEMMA GreatestNumber ==
    ASSUME NEW n \in Nat, NEW T \in SUBSET (0..n), T # {}
    PROVE  \E x \in T : \A y \in T : y <= x
<1> DEFINE U == {n - x : x \in T}
<1>1. U \in SUBSET Nat /\ U # {}
  <2>1. \A x \in T : n - x \in Nat
    OBVIOUS
  <2> QED BY <2>1
<1>2. PICK u \in U : \A v \in U : u <= v
  BY <1>1, LeastNumber
<1>3. PICK x \in T : u = n - x
  OBVIOUS
<1>4. ASSUME NEW y \in T PROVE y <= x
  <2>1. n - x <= n - y
    BY <1>2, <1>3
  <2> QED BY <2>1
<1> QED BY <1>4

LEMMA OldestThere ==
    ASSUME NEW L \in SUBSET Label, L # {}
    PROVE  Oldest(L) # {}
<1>1. \A l \in L : l.full \in Nat /\ l.time \in Nat /\ l.kind \in Nat
  BY LabelType, Numbers
<1>2. PICK f \in {l.full : l \in L} : \A g \in {l.full : l \in L} : f <= g
  <2>1. {l.full : l \in L} \in SUBSET Nat /\ {l.full : l \in L} # {}
    BY <1>1
  <2> QED BY <2>1, LeastNumber
<1> DEFINE M == {l \in L : l.full = f}
<1>3. PICK t \in {l.time : l \in M} : \A g \in {l.time : l \in M} : t <= g
  <2>1. {l.time : l \in M} \in SUBSET Nat /\ {l.time : l \in M} # {}
    BY <1>1, <1>2
  <2> QED BY <2>1, LeastNumber
<1> DEFINE N == {l \in M : l.time = t}
<1>4. PICK k \in {l.kind : l \in N} : \A g \in {l.kind : l \in N} : k <= g
  <2>1. {l.kind : l \in N} \in SUBSET Nat /\ {l.kind : l \in N} # {}
    BY <1>1, <1>3
  <2> QED BY <2>1, LeastNumber
<1>5. PICK l \in N : l.kind = k
  BY <1>4
<1>6. ASSUME NEW m \in L PROVE ~Before(m, l)
  <2>1. l.full = f /\ l.time = t /\ l.kind = k /\ l \in L
    BY <1>5
  <2>2. /\ f <= m.full
        /\ m.full = f => t <= m.time
        /\ m.full = f /\ m.time = t => k <= m.kind
    BY <1>2, <1>3, <1>4
  <2> QED BY <1>1, <2>1, <2>2 DEF Before
<1> QED BY <1>5, <1>6 DEF Oldest

LEMMA NewestThere ==
    ASSUME NEW L \in SUBSET Label, L # {}
    PROVE  Newest(L) # {}
<1>1. \A l \in L : l.full \in 0..MaxTime /\ l.time \in 0..MaxTime /\ l.kind \in 0..2
  BY LabelType, Numbers
<1>0. MaxTime \in Nat /\ 2 \in Nat
  BY Numbers
<1>2. PICK f \in {l.full : l \in L} : \A g \in {l.full : l \in L} : g <= f
  <2>1. {l.full : l \in L} \in SUBSET (0..MaxTime) /\ {l.full : l \in L} # {}
    BY <1>1
  <2> QED BY <1>0, <2>1, GreatestNumber
<1> DEFINE M == {l \in L : l.full = f}
<1>3. PICK t \in {l.time : l \in M} : \A g \in {l.time : l \in M} : g <= t
  <2>1. {l.time : l \in M} \in SUBSET (0..MaxTime) /\ {l.time : l \in M} # {}
    BY <1>1, <1>2
  <2> QED BY <1>0, <2>1, GreatestNumber
<1> DEFINE N == {l \in M : l.time = t}
<1>4. PICK k \in {l.kind : l \in N} : \A g \in {l.kind : l \in N} : g <= k
  <2>1. {l.kind : l \in N} \in SUBSET (0..2) /\ {l.kind : l \in N} # {}
    BY <1>1, <1>3
  <2> QED BY <1>0, <2>1, GreatestNumber
<1>5. PICK l \in N : l.kind = k
  BY <1>4
<1>6. ASSUME NEW m \in L PROVE ~Before(l, m)
  <2>1. l.full = f /\ l.time = t /\ l.kind = k /\ l \in L
    BY <1>5
  <2>2. /\ m.full <= f
        /\ m.full = f => m.time <= t
        /\ m.full = f /\ m.time = t => m.kind <= k
    BY <1>2, <1>3, <1>4
  <2> QED BY <1>0, <1>1, <2>1, <2>2 DEF Before
<1> QED BY <1>5, <1>6 DEF Newest

\* Directories of WAL segments are in the order of the segments.
LEMMA PathOrder ==
    ASSUME NEW s \in Nat \ {0}, NEW t \in Nat \ {0}, s <= t
    PROVE  Path(s) <= Path(t) /\ Path(s) \in Nat /\ Path(t) \in Nat
<1>1. PathSize \in Nat \ {0}
  BY RetentionAssumption
<1>2. s - 1 \in Nat /\ t - 1 \in Nat /\ s - 1 <= t - 1
  OBVIOUS
<1>3. ASSUME NEW a \in Nat, NEW b \in Nat, NEW n \in Nat \ {0}, a <= b
      PROVE  a \div n <= b \div n /\ a \div n \in Nat /\ b \div n \in Nat
  BY <1>3
<1> QED BY <1>1, <1>2, <1>3 DEF Path

-----------------------------------------------------------------------------
(* What depends on a backup. *)

\* The dependents are in every set that has the label and what is built on
\* its members.
LEMMA DependentsLeast ==
    ASSUME NEW S, NEW l, NEW D, l \in D, \A b \in S : b.prior \in D => b.label \in D
    PROVE  Dependents(S, l) \subseteq D
<1> DEFINE all == Labels(S) \cup {l}
           Complete(E) == l \in E /\ \A b \in S : b.prior \in E => b.label \in E
<1>1. Dependents(S, l) = {m \in all : \A E \in SUBSET all : Complete(E) => m \in E}
  BY DEF Dependents
<1>2. \A b \in S : b.label \in all
  BY DEF Labels
<1>3. Complete(D \cap all)
  BY <1>2
<1>4. D \cap all \in SUBSET all
  OBVIOUS
<1> HIDE DEF Complete
<1> QED BY <1>1, <1>3, <1>4

LEMMA DependentsGrow ==
    ASSUME NEW S, NEW T, S \subseteq T, NEW l
    PROVE  Dependents(S, l) \subseteq Dependents(T, l)
<1>1. l \in Dependents(T, l) /\ \A b \in S : b.prior \in Dependents(T, l) => b.label \in Dependents(T, l)
  BY DependentsKnown
<1> QED BY <1>1, DependentsLeast

LEMMA DependentsOfOne ==
    ASSUME NEW S, NEW l, NEW m \in Dependents(S, l)
    PROVE  Dependents(S, m) \subseteq Dependents(S, l)
BY DependentsKnown, DependentsLeast

\* When a backup goes that nothing is built on.
LEMMA DependentsLeft ==
    ASSUME NEW S, NEW l, NEW r, r # l, \A b \in S : b.prior = l => b.label = l
    PROVE  Dependents(S, r) \ {l} \subseteq Dependents(Without(S, l), r)
<1> DEFINE D == Dependents(Without(S, l), r)
<1>1. r \in D /\ \A b \in Without(S, l) : b.prior \in D => b.label \in D
  BY DependentsKnown
<1>2. ASSUME NEW b \in S, b.prior \in D \cup {l} PROVE b.label \in D \cup {l}
  <2>1. CASE b.label = l
    BY <2>1
  <2>2. CASE b.label # l
    <3>1. b \in Without(S, l)
      BY <2>2 DEF Without
    <3> QED BY <1>1, <1>2, <2>2, <3>1
  <2> QED BY <2>1, <2>2
<1> HIDE DEF D
<1>3. Dependents(S, r) \subseteq D \cup {l}
  BY <1>1, <1>2, DependentsLeast
<1> QED BY <1>3 DEF D

\* A full backup depends on no other.
LEMMA FullAlone ==
    ASSUME NEW S \in SUBSET Backup, NEW h \in Label, NEW l \in Dependents(S, h), l.kind = FullKind,
           \A b \in S : b.label.kind = FullKind => b.prior = NoLabel
    PROVE  l = h
<1> DEFINE D == {h} \cup {b.label : b \in {c \in S : c.prior # NoLabel}}
<1>1. NoLabel \notin D
  BY LabelType, BackupFields
<1>2. \A b \in S : b.prior \in D => b.label \in D
  BY <1>1
<1>3. l \in D
  BY <1>2, DependentsLeast
<1> QED BY <1>3

\* backup.info is rebuilt as it should be if it agrees with the manifests.
LEMMA ReconstructSame ==
    ASSUME NEW I, NEW M, Closed(M), \A b \in I, c \in M : b.label = c.label => b = c
    PROVE  Reconstruct(I, M) = M
<1> DEFINE missing == Labels(I) \ Labels(M)
           kept == {b \in I : \A l \in missing : b.label \notin Dependents(I, l)}
           found == {b \in M : b.label \notin Labels(kept)}
           Valid(A) == \A b \in A : b.prior \in {NoLabel} \cup Labels(kept \cup A)
           R == kept \cup UNION {A \in SUBSET found : Valid(A)}
<1>1. Reconstruct(I, M) = R
  BY DEF Reconstruct
<1>2. kept \subseteq M
  <2> SUFFICES ASSUME NEW b \in kept PROVE b \in M
    OBVIOUS
  <2>1. b \in I /\ b.label \in Labels(I)
    BY DEF Labels
  <2>2. b.label \in Dependents(I, b.label)
    BY DependentsKnown
  <2>3. PICK c \in M : c.label = b.label
    BY <2>1, <2>2 DEF Labels
  <2> QED BY <2>1, <2>3
<1>3. M = kept \cup found
  <2> SUFFICES ASSUME NEW c \in M, c.label \in Labels(kept) PROVE c \in kept
    BY <1>2
  <2>1. PICK b \in kept : b.label = c.label
    BY DEF Labels
  <2> QED BY <2>1
<1>4. Valid(found)
  BY <1>3 DEF Closed
<1>5. R = kept \cup found
  BY <1>4
<1> QED BY <1>1, <1>3, <1>5

-----------------------------------------------------------------------------
(* What removeExpiredArchive() takes. *)

\* One backup per label, each with its full backup in the same cluster, and
\* starts in the order of the labels.
Orderly(S) ==
    /\ \A b, c \in S : b.label = c.label => b = c
    /\ \A b \in S : \E r \in S : r.label = Root(b.label) /\ r.pg = b.pg
    /\ \A b \in S : b.start # NoWal
    /\ \A b, c \in S : Before(b.label, c.label) => b.start <= c.start

LEMMA BeforeTransitive ==
    ASSUME NEW l \in Label, NEW m \in Label, NEW n \in Label, Before(l, m), Before(m, n)
    PROVE  Before(l, n)
<1>1. /\ l.full \in Nat /\ l.time \in Nat /\ l.kind \in Nat
      /\ m.full \in Nat /\ m.time \in Nat /\ m.kind \in Nat
      /\ n.full \in Nat /\ n.time \in Nat /\ n.kind \in Nat
  BY LabelType, Numbers
<1> QED BY <1>1 DEF Before

\* A label comes after the full backup it is derived from, and so does what
\* is between them.
LEMMA RootFirst ==
    ASSUME NEW l \in Label
    PROVE  /\ Root(l) = l \/ Before(Root(l), l)
           /\ \A m \in Label : (~Before(m, Root(l)) /\ ~Before(l, m)) => Root(m) = Root(l)
           /\ Root(l).kind = FullKind
<1>1. /\ l.full \in Nat /\ l.time \in Nat /\ l.kind \in Nat
      /\ Root(l).full = l.full /\ Root(l).time = 0 /\ Root(l).kind = 0
  BY LabelType, Numbers DEF Root, FullKind
<1>2. ASSUME l.time = 0, l.kind = 0 PROVE Root(l) = l
  BY <1>2 DEF Root, Label, FullKind
<1>3. ASSUME NEW m \in Label, ~Before(m, Root(l)), ~Before(l, m) PROVE m.full = l.full
  <2>1. m.full \in Nat
    BY LabelType, Numbers
  <2> QED BY <1>1, <1>3, <2>1 DEF Before
<1>4. Root(l) = l \/ Before(Root(l), l)
  BY <1>1, <1>2 DEF Before
<1>5. \A m \in Label : (~Before(m, Root(l)) /\ ~Before(l, m)) => Root(m) = Root(l)
  BY <1>3 DEF Root
<1> QED BY <1>1, <1>4, <1>5 DEF FullKind

\* The newest backup of the kinds that count which is not newer than b.
LEMMA BaseOf ==
    ASSUME NEW S \in SUBSET Backup, Orderly(S), NEW type \in 0..2, NEW b \in S
    PROVE  \E k \in OfKind(S, 0..type) :
              /\ k.label = b.label \/ Before(k.label, b.label)
              /\ k.pg = b.pg
              /\ Newer(OfKind(S, 0..type), k) = Newer(OfKind(S, 0..type), b)
<1> DEFINE G == OfKind(S, 0..type)
           K == {l \in Labels(G) : l = b.label \/ Before(l, b.label)}
<1>1. G \subseteq S /\ Labels(G) \subseteq Label /\ b.label \in Label
  BY BackupFields DEF OfKind, Labels
<1>2. PICK r \in S : r.label = Root(b.label) /\ r.pg = b.pg
  BY DEF Orderly
<1>3. r.label \in K
  <2>1. r.label.kind = 0 /\ 0 \in 0..type
    BY <1>1, <1>2, RootFirst DEF FullKind
  <2>2. r.label \in Labels(G)
    BY <2>1 DEF OfKind, Labels
  <2> QED BY <1>1, <1>2, <2>2, RootFirst
<1>4. PICK l \in K : \A m \in K : ~Before(l, m)
  <2>1. K \in SUBSET Label /\ K # {}
    BY <1>1, <1>3
  <2> HIDE DEF K
  <2> QED BY <2>1, NewestThere DEF Newest
<1>5. PICK k \in G : k.label = l
  BY DEF Labels
<1>6. l \in Label /\ (l = b.label \/ Before(l, b.label))
  BY <1>1
<1>7. k.pg = b.pg
  <2>1. ~Before(l, Root(b.label))
    BY <1>2, <1>3, <1>4
  <2>2. ~Before(b.label, l)
    BY <1>1, <1>6, BeforeOrder
  <2>3. Root(l) = Root(b.label)
    BY <1>1, <1>6, <2>1, <2>2, RootFirst
  <2>4. PICK q \in S : q.label = Root(l) /\ q.pg = k.pg
    BY <1>1, <1>5 DEF Orderly
  <2> QED BY <1>2, <2>3, <2>4 DEF Orderly
<1>8. ASSUME NEW c \in G PROVE Before(l, c.label) <=> Before(b.label, c.label)
  <2>1. c.label \in Label /\ c.label \in Labels(G)
    BY <1>1 DEF Labels
  <2>2. ASSUME Before(l, c.label) PROVE Before(b.label, c.label)
    <3>1. c.label \notin K
      BY <1>4, <2>2
    <3> QED BY <1>1, <2>1, <3>1, BeforeOrder
  <2>3. ASSUME Before(b.label, c.label) PROVE Before(l, c.label)
    BY <1>1, <1>6, <2>1, <2>3, BeforeTransitive
  <2> QED BY <2>2, <2>3
<1>9. Newer(G, k) = Newer(G, b)
  BY <1>5, <1>8 DEF Newer
<1> QED BY <1>5, <1>6, <1>7, <1>9

\* There is one backup a cluster's archive stays from.
LEMMA PlaysFromOne ==
    ASSUME NEW S \in SUBSET Backup, Orderly(S), NEW type \in 0..2, NEW retention,
           NEW b \in S
    PROVE  \E f \in S : /\ f.pg = b.pg /\ f \in PlaysFrom(S, type, retention, b.pg)
                        /\ \A g \in PlaysFrom(S, type, retention, b.pg) : g = f
<1> DEFINE p == b.pg
           local == {c \in OfKind(S, 0..type) : c.pg = p}
           kept == RetentionBackups(S, type, retention, p)
           L == IF kept = {} THEN Newest(Labels(local)) ELSE Oldest(Labels(kept))
<1>1. PlaysFrom(S, type, retention, p) = {c \in local : c.label \in L}
  BY DEF PlaysFrom
<1>2. local # {}
  <2>1. PICK k \in OfKind(S, 0..type) :
              /\ k.label = b.label \/ Before(k.label, b.label)
              /\ k.pg = b.pg
              /\ Newer(OfKind(S, 0..type), k) = Newer(OfKind(S, 0..type), b)
    BY BaseOf
  <2> QED BY <2>1
<1>3. kept \subseteq local /\ local \subseteq S
  BY DEF RetentionBackups, OfKind
<1>4. /\ Labels(local) \subseteq Label /\ Labels(kept) \subseteq Labels(local)
      /\ Labels(local) # {} /\ (kept # {} => Labels(kept) # {})
  BY <1>2, <1>3, BackupFields DEF Labels
<1>5. PICK l \in L : l \in Labels(local)
  <2> HIDE DEF local, kept
  <2>1. CASE kept = {}
    <3>1. Newest(Labels(local)) # {}
      BY <1>4, NewestThere
    <3> QED BY <2>1, <3>1 DEF Newest
  <2>2. CASE kept # {}
    <3>1. Oldest(Labels(kept)) # {}
      BY <1>4, <2>2, OldestThere
    <3> QED BY <1>4, <2>2, <3>1 DEF Oldest
  <2> QED BY <2>1, <2>2
<1>6. ASSUME NEW m \in L PROVE m = l
  BY <1>4, <1>5, NewestOne, OldestOne
<1>7. PICK f \in local : f.label = l
  BY <1>5 DEF Labels
<1>8. f \in S /\ f.pg = p
  BY <1>3
<1>9. ASSUME NEW c \in local, c.label \in L PROVE c = f
  BY <1>3, <1>6, <1>7, <1>9 DEF Orderly
<1> HIDE DEF local, L
<1> QED BY <1>1, <1>7, <1>8, <1>9

\* Recovery may replay from backup b of S.
ReplayedIn(S, type, retention, b) ==
    \/ Cardinality(Newer(OfKind(S, 0..type), b)) < retention
    \/ \A c \in Newer(S, b) : c.pg # b.pg

\* The archive stays from a backup that is not newer than those in retention.
LEMMA PlaysFromFirst ==
    ASSUME NEW S \in SUBSET Backup, Orderly(S), NEW type \in 0..2, NEW retention,
           NEW b \in S, NEW f \in S, f.pg = b.pg,
           f \in PlaysFrom(S, type, retention, b.pg), ReplayedIn(S, type, retention, b)
    PROVE  f.label = b.label \/ Before(f.label, b.label)
<1>0. b.label \in Label /\ f.label \in Label
  BY BackupFields
<1>1. CASE \A c \in Newer(S, b) : c.pg # b.pg
  <2>1. ~Before(b.label, f.label)
    BY <1>1 DEF Newer
  <2> QED BY <1>0, <2>1, BeforeOrder
<1>2. CASE Cardinality(Newer(OfKind(S, 0..type), b)) < retention
  <2> DEFINE kept == RetentionBackups(S, type, retention, b.pg)
  <2>1. PICK k \in OfKind(S, 0..type) :
            /\ k.label = b.label \/ Before(k.label, b.label)
            /\ k.pg = b.pg
            /\ Newer(OfKind(S, 0..type), k) = Newer(OfKind(S, 0..type), b)
    BY BaseOf
  <2>2. k \in kept
    BY <1>2, <2>1 DEF RetentionBackups
  <2>3. f.label \in Oldest(Labels(kept))
    BY <2>2 DEF PlaysFrom
  <2>4. k.label \in Labels(kept) /\ k.label \in Label
    BY <2>2, BackupFields DEF Labels, OfKind
  <2>5. ~Before(k.label, f.label)
    BY <2>3, <2>4 DEF Oldest
  <2>6. f.label = k.label \/ Before(f.label, k.label)
    BY <1>0, <2>4, <2>5, BeforeOrder
  <2> QED BY <1>0, <2>1, <2>4, <2>6, BeforeTransitive
<1> QED BY <1>1, <1>2 DEF ReplayedIn

\* What removeExpiredArchive() takes is neither WAL that makes a backup
\* consistent nor WAL that may be replayed from a backup in retention.
LEMMA ArchiveKeeps ==
    ASSUME NEW S \in SUBSET Backup, Orderly(S), NEW type \in 0..2, NEW retention, NEW current,
           NEW b \in S, NEW A \in SUBSET Seg,
           NEW s \in ArchiveExpired(S, type, retention, b.pg, current, A)
    PROVE  s \notin Needed(b) /\ (ReplayedIn(S, type, retention, b) => s < b.start)
<1> DEFINE p == b.pg
           from == PlaysFrom(S, type, retention, p)
           older == MadeConsistent(S, from, p)
           global == OfKind(S, 0..type)
           PathUsed(q) ==
               \/ \E f \in from : q >= Path(f.start)
               \/ \E c \in older : q >= Path(c.start) /\ q <= Path(c.stop)
           Used(t) ==
               \/ \E f \in from : t >= f.start
               \/ \E c \in older : t >= c.start /\ t <= c.stop
           Scanned(q) == \E f \in from : q <= Path(f.start)
           Some == {t \in A : ~PathUsed(Path(t)) \/ (Scanned(Path(t)) /\ ~Used(t))}
<1>1. PICK f \in S : /\ f.pg = b.pg /\ f \in from
                     /\ \A g \in from : g = f
  BY PlaysFromOne
<1>2. \A c \in S : c.start \in 1..MaxSeg /\ c.stop \in 0..MaxSeg /\ c.label \in Label
  BY Numbers DEF Orderly, Backup, NoWal
<1>3. s \in Some
  <2>1. from # {} /\ ~(\E g \in from : g.start = NoWal)
    BY <1>1 DEF Orderly
  <2>2. ArchiveExpired(S, type, retention, p, current, A) \in {{}, Some}
    <3>1. CASE retention = 0 \/ Cardinality(global) < retention
      BY <2>1, <3>1 DEF ArchiveExpired
    <3>2. CASE retention > 0 /\ Cardinality(global) >= retention /\ ~(Cardinality(global) < retention)
      BY <2>1, <3>2 DEF ArchiveExpired
    <3> QED BY <2>1, <3>1, <3>2 DEF ArchiveExpired
  <2> QED BY <2>2
<1>4. s \in 1..MaxSeg
  BY <1>3 DEF Seg
<1>5. ASSUME Used(s) PROVE FALSE
  <2>1. CASE s >= f.start
    <3>1. Path(f.start) <= Path(s)
      BY <1>2, <1>4, <2>1, PathOrder, Numbers
    <3> QED BY <1>1, <1>3, <1>5, <3>1
  <2>2. CASE \E c \in older : s >= c.start /\ s <= c.stop
    <3>1. PICK c \in older : s >= c.start /\ s <= c.stop
      BY <2>2
    <3>2. c \in S
      BY DEF MadeConsistent
    <3>3. Path(c.start) <= Path(s) /\ Path(s) <= Path(c.stop)
      BY <1>2, <1>4, <3>1, <3>2, PathOrder, Numbers
    <3> QED BY <1>3, <1>5, <3>1, <3>3
  <2> QED BY <1>1, <1>5, <2>1, <2>2
<1>6. s < f.start /\ ~(\E c \in older : s >= c.start /\ s <= c.stop)
  <2>1. ~(s >= f.start)
    BY <1>1, <1>5
  <2>2. ~(\E c \in older : s >= c.start /\ s <= c.stop)
    <3> HIDE DEF older
    <3> QED BY <1>5
  <2> QED BY <1>2, <1>4, <2>1, <2>2
<1>7. ASSUME f.label = b.label \/ Before(f.label, b.label) PROVE s < b.start
  <2>1. f.start <= b.start
    BY <1>2, <1>7, Numbers DEF Orderly
  <2> QED BY <1>2, <1>4, <1>6, <2>1
<1>8. s \notin Needed(b)
  <2>1. CASE Before(b.label, f.label)
    <3>1. b \in older
      BY <1>1, <2>1 DEF MadeConsistent, Orderly
    <3> QED BY <1>2, <1>4, <1>6, <3>1 DEF Needed
  <2>2. CASE f.label = b.label \/ Before(f.label, b.label)
    BY <1>2, <1>4, <1>7, <2>2 DEF Needed
  <2> QED BY <1>2, <2>1, <2>2, BeforeOrder
<1>9. ReplayedIn(S, type, retention, b) => s < b.start
  BY <1>1, <1>7, PlaysFromFirst
<1> QED BY <1>8, <1>9

-----------------------------------------------------------------------------
(* Steps that change no backup. *)

LEMMA ExactType ==
    ASSUME TypeInv
    PROVE  /\ clock \in Nat /\ pos \in Nat /\ faults \in Nat /\ pg \in Pg
           /\ manifest \subseteq Backup /\ cur \subseteq Backup /\ info \subseteq Backup
           /\ dir \subseteq Label /\ heads \subseteq Label /\ job \in Job
           /\ job.label \in Label \cup {NoLabel} /\ job.start \in Nat
           /\ \A b \in manifest : b.start \in Nat /\ b.end \in Nat /\ b.label \in Label /\ b.pg \in Pg
           /\ wal \in [Pg -> SUBSET Seg] /\ MaxFault \in Nat
<1>1. /\ clock \in Nat /\ pos \in Nat /\ faults \in Nat
  BY Numbers DEF TypeInv, TypeOK, Seg
<1>2. job \in Job /\ manifest \subseteq Backup
  BY DEF TypeInv, TypeOK
<1>3. job.label \in Label \cup {NoLabel} /\ job.start \in Nat
  BY <1>2, Numbers DEF Job
<1>4. \A b \in manifest : b.start \in Nat /\ b.end \in Nat /\ b.label \in Label /\ b.pg \in Pg
  BY <1>2, Numbers DEF Backup
<1> QED BY <1>1, <1>2, <1>3, <1>4, Numbers DEF TypeInv, TypeOK

\* The clock, the cluster and archive-push go on.
LEMMA ExactQuiet ==
    ASSUME TypeInv, TypeInv', Exact, clock <= clock', pos <= pos', faults <= faults',
           \A p \in Pg : wal[p] \subseteq wal'[p],
           UNCHANGED << info, manifest, dir, pc, cur, job, conf, adhoc, heads, trash >>,
           pg' = pg \/ pc = "idle"
    PROVE  Exact'
<1> USE ExactType DEF Exact
<1>0. /\ Stale => Stale'
      /\ faults' = 0 => faults = 0
      /\ clock' \in Nat /\ pos' \in Nat /\ faults' \in Nat
  BY Numbers DEF Stale, TypeInv, TypeOK, Seg
<1>1. Agreed'
  BY <1>0 DEF Agreed, Labels
<1>2. Same'
  BY DEF Same, Victim, Labels
<1>3. JobNew'
  BY <1>0 DEF JobNew, Preparing, Making, Labels
<1>4. Rooted'
  BY DEF Rooted
<1>5. Positions'
  BY <1>0 DEF Positions
<1>6. Expiring'
  <2>1. conf.full \in Nat => \A b \in manifest : Spared(b) => Spared(b)'
    <3> SUFFICES ASSUME conf.full \in Nat, NEW b \in manifest, Spared(b)
                 PROVE  Spared(b)'
      OBVIOUS
    <3>1. Newer(Fulls, b)' = Newer(Fulls, b) /\ Newer(Fulls, b) \subseteq manifest
      BY DEF Newer, Fulls, OfKind
    <3>2. ASSUME NEW c \in Newer(Fulls, b), c.end + conf.full < clock
          PROVE  c.end + conf.full < clock'
      BY <1>0, <3>1, <3>2
    <3> QED BY <3>1, <3>2 DEF Spared
  <2>2. Fulls' = Fulls
    BY DEF Fulls
  <2> QED BY <2>1, <2>2 DEF Expiring, Removing
<1>7. Archived'
  <2>1. Consistent'
    BY DEF Archived, Consistent
  <2>2. pc \in {"final", "manifest"} => Needed(job) \subseteq wal'[pg]
    BY DEF Archived
  <2>3. \A b \in manifest : Replayed(b)' = Replayed(b)
    BY DEF Replayed, Newer, OfKind
  <2> QED BY <2>1, <2>2, <2>3 DEF Archived
<1> QED BY <1>1, <1>2, <1>3, <1>4, <1>5, <1>6, <1>7

\* A command ends, or begins and has not looked yet.
LEMMA ExactEnded ==
    ASSUME TypeInv, TypeInv', Exact, faults <= faults',
           UNCHANGED << info, manifest, dir, pos, wal >>,
           pc' \in {"idle", "load"}, pc \in Saving \cup Removing => (faults' # 0 /\ ~Stale)
    PROVE  Exact'
<1> USE ExactType DEF Exact, Saving, Removing, Preparing, Making
<1>0. faults' = 0 => faults = 0
  BY Numbers DEF TypeInv, TypeOK
<1>1. Agreed'
  BY <1>0 DEF Agreed, Labels
<1>2. Same' /\ JobNew' /\ Rooted' /\ Expiring'
  BY DEF Same, JobNew, Rooted, Expiring
<1>3. Positions'
  BY DEF Positions
<1>4. Archived'
  BY DEF Archived, Consistent
<1> QED BY <1>1, <1>2, <1>3, <1>4

\* Steps of backup after which the job is as it was.
LEMMA ExactGoesOn ==
    ASSUME TypeInv, TypeInv', Exact, UNCHANGED << info, manifest, pos, wal, pg, cur, job, faults >>,
           pc \in Preparing, pc' \in Preparing,
           dir' \subseteq dir \/ (job.label # NoLabel /\ dir' \subseteq dir \cup {job.label}),
           pc' \in {"final", "manifest"} => Needed(job) \subseteq wal[pg]
    PROVE  Exact'
<1> USE ExactType DEF Exact, Saving, Removing, Preparing, Making
<1>1. Agreed'
  BY DEF Agreed, Labels
<1>2. Same' /\ Rooted' /\ Expiring'
  BY DEF Same, Rooted, Expiring
<1>3. JobNew'
  BY DEF JobNew, Labels, Stale
<1>4. Positions'
  BY DEF Positions
<1>5. Archived'
  BY DEF Archived, Consistent
<1> QED BY <1>1, <1>2, <1>3, <1>4, <1>5

-----------------------------------------------------------------------------
(* The steps of backup. *)

\* backup and expire begin with the manifests, whatever backup.info says.
LEMMA LoadsManifests ==
    ASSUME Good, Exact, pc \in {"idle", "load"}
    PROVE  Reconstruct(info, manifest) = manifest
<1>1. \A b \in info, c \in manifest : b.label = c.label => b = c
  BY DEF Exact, Agreed, Saving
<1> QED BY <1>1, ReconstructSame DEF Good

LEMMA ExactLoad ==
    ASSUME TypeInv, TypeInv', Good, Trusted, Exact, NEW o \in Options, BackupLoad(o)
    PROVE  Exact'
<1> USE ExactType DEF Exact, Saving, Removing, Preparing, Making, repoVars, pgVars, boundVars
<1>1. /\ UNCHANGED << info, manifest, dir, wal, pos, pg, faults >> /\ pc = "idle"
      /\ pc' \in {"start", "resume"} /\ cur' = manifest
  BY LoadsManifests, SMTT(30) DEF BackupLoad, Plan
<1>2. PICK prior \in IF Priors(manifest, o.kind, pg) = {} THEN {NoLabel} ELSE Priors(manifest, o.kind, pg) :
          job' = [NoJob EXCEPT !.prior = prior, !.time = clock,
                               !.kind = IF Priors(manifest, o.kind, pg) = {} THEN FullKind ELSE o.kind,
                               !.resume = o.resume]
  BY <1>1 DEF BackupLoad
<1>3. /\ job'.prior = prior /\ job'.label = NoLabel /\ job'.start = NoWal /\ job'.resume = o.resume
  BY <1>2, NoJobType DEF NoJob
<1>4. ASSUME prior # NoLabel PROVE \E b \in manifest : b.label = prior /\ b.pg = pg
  <2>1. prior \in Priors(manifest, o.kind, pg) /\ o.kind \in 0..2
    BY <1>2, <1>4, Numbers
  <2> QED BY <2>1 DEF Priors, Newest, OfKind, FullKind, DiffKind, IncrKind
<1>5. Agreed' /\ Same' /\ Rooted' /\ Expiring'
  BY <1>1, SMTT(30) DEF Agreed, Labels, Same, Rooted, Expiring
<1>6. JobNew'
  <2>1. o.resume => MaxFault <= 1
    BY DEF Trusted
  <2> QED BY <1>1, <1>3, <1>4, <2>1 DEF JobNew
<1>7. Positions'
  BY <1>1, <1>3 DEF Positions
<1>8. Archived'
  BY <1>1 DEF Archived, Consistent
<1> QED BY <1>5, <1>6, <1>7, <1>8

LEMMA ExactStart ==
    ASSUME TypeInv, TypeInv', Exact, BackupStart
    PROVE  Exact'
<1> USE ExactType DEF Exact, Saving, Removing, Preparing, Making, repoVars, pgVars, boundVars
<1>1. /\ UNCHANGED << info, manifest, dir, wal, pos, pg, faults, cur >> /\ pc = "start"
      /\ pc' \in {"resume", "copy"}
  BY DEF BackupStart, Plan
<1>2. /\ job'.prior = job.prior /\ job'.label = job.label /\ job'.kind = job.kind
      /\ job'.resume = job.resume /\ job'.start = pos
  BY DEF BackupStart, Job
<1>3. Agreed' /\ Same' /\ Rooted' /\ Expiring'
  BY <1>1 DEF Agreed, Labels, Same, Rooted, Expiring
<1>4. JobNew'
  BY <1>1, <1>2 DEF JobNew, Labels, Stale
<1>5. Positions'
  BY <1>1, <1>2 DEF Positions
<1>6. Archived'
  BY <1>1 DEF Archived, Consistent
<1> QED BY <1>3, <1>4, <1>5, <1>6

\* The label that is resumed is the newest, but backup.info may have it.
LEMMA ExactResume ==
    ASSUME TypeInv, TypeInv', WithFiles, Exact, BackupResume
    PROVE  Exact'
<1> USE ExactType DEF Exact, Saving, Removing, Preparing, Making, repoVars, pgVars, boundVars
<1>1. /\ UNCHANGED << info, manifest, dir, wal, pos, pg, faults, cur >> /\ pc = "resume"
      /\ pc' = "copy"
  BY DEF BackupResume, Plan
<1>2. PICK l \in Unfinished : Resumable(l) /\ job' = [job EXCEPT !.label = l]
  BY DEF BackupResume
<1>3. /\ job'.prior = job.prior /\ job'.label = l /\ job'.kind = job.kind
      /\ job'.resume = job.resume /\ job'.start = job.start
  BY <1>2 DEF Job
<1>4. l \in dir /\ l \notin Labels(manifest) /\ \A m \in dir : ~Before(l, m)
  BY <1>2 DEF Unfinished, Newest
<1>5. job.kind = FullKind /\ job.resume
  BY <1>2 DEF Resumable
<1>6. l \in Labels(info) => Stale
  BY <1>1, <1>4, <1>5 DEF Agreed, JobNew, Stale
<1>7. ASSUME NEW b \in manifest PROVE Before(b.label, l)
  <2>1. b.label \in Labels(manifest) /\ b.label \in Label
    BY DEF Labels
  <2>2. b.label \in dir /\ b.label # l
    BY <1>4, <2>1 DEF WithFiles
  <2> QED BY <1>4, <2>1, <2>2, BeforeOrder
<1>8. Agreed' /\ Same' /\ Rooted' /\ Expiring'
  BY <1>1 DEF Agreed, Labels, Same, Rooted, Expiring
<1>9. JobNew'
  BY <1>1, <1>3, <1>4, <1>5, <1>6, <1>7 DEF JobNew, Labels, Stale
<1>10. Positions'
  BY <1>1, <1>3 DEF Positions
<1>11. Archived'
  BY <1>1 DEF Archived, Consistent
<1> QED BY <1>8, <1>9, <1>10, <1>11

\* A new label is newer than any other.
LEMMA ExactLabel ==
    ASSUME TypeInv, TypeInv', WithFiles, Good, Exact, BackupLabel
    PROVE  Exact'
<1> USE ExactType DEF Exact, Saving, Removing, Preparing, Making, repoVars, pgVars, boundVars
<1>1. /\ UNCHANGED << info, manifest, dir, wal, pos, pg, faults, cur >> /\ pc = "label"
      /\ pc' = "copy"
  BY DEF BackupLabel, Plan
<1>2. PICK t \in Nat \ {0} : /\ job' = [job EXCEPT !.label = LabelAt(t)] /\ Later(LabelAt(t))
                             /\ job.time <= t
  <2>1. job.time \in Nat \ {0}
    BY <1>1, KnownType DEF TypeInv, Phases
  <2> QED BY <2>1 DEF BackupLabel
<1>3. /\ job'.prior = job.prior /\ job'.label = LabelAt(t) /\ job'.kind = job.kind
      /\ job'.resume = job.resume /\ job'.start = job.start
  BY <1>2 DEF Job
<1>4. /\ LabelAt(t).kind = job.kind /\ Stamp(LabelAt(t)) = t
      /\ LabelAt(t).kind = FullKind <=> LabelAt(t).time = 0
      /\ job.kind # FullKind => LabelAt(t).full = job.prior.full
  BY DEF LabelAt, Stamp, FullKind
<1>5. ASSUME NEW b \in manifest PROVE Before(b.label, LabelAt(t))
  <2>1. b.label \in Labels(manifest)
    BY DEF Labels
  <2>2. b.label \in dir
    BY <2>1 DEF WithFiles
  <2> QED BY <1>2, <2>2 DEF Later, Compared
<1>6. LabelAt(t) \notin Labels(info)
  <2> SUFFICES ASSUME NEW b \in info PROVE b.label # LabelAt(t)
    BY DEF Labels
  <2>1. Stamp(b.label) < job.time /\ Stamp(b.label) \in Nat /\ job.time \in Nat
    BY <1>1, KnownType DEF Good, Fresh, Nameless, Known
  <2> QED BY <1>2, <1>4, <2>1
<1>7. Agreed' /\ Same' /\ Rooted' /\ Expiring'
  BY <1>1 DEF Agreed, Labels, Same, Rooted, Expiring
<1>8. JobNew'
  BY <1>1, <1>3, <1>4, <1>5, <1>6 DEF JobNew
<1>9. Positions'
  BY <1>1, <1>3 DEF Positions
<1>10. Archived'
  BY <1>1 DEF Archived, Consistent
<1> QED BY <1>7, <1>8, <1>9, <1>10

LEMMA ExactStop ==
    ASSUME TypeInv, TypeInv', Exact, BackupStop
    PROVE  Exact'
<1> USE ExactType DEF Exact, Saving, Removing, Preparing, Making, repoVars, boundVars
<1>1. /\ UNCHANGED << info, manifest, dir, wal, pg, faults, cur >> /\ pc = "stop"
      /\ pc' = "check" /\ pos' = pos + 1
  BY DEF BackupStop
<1>2. /\ job'.prior = job.prior /\ job'.label = job.label /\ job'.kind = job.kind
      /\ job'.resume = job.resume /\ job'.start = job.start
  BY DEF BackupStop, Job
<1>3. Agreed' /\ Same' /\ Rooted' /\ Expiring'
  BY <1>1 DEF Agreed, Labels, Same, Rooted, Expiring
<1>4. JobNew'
  BY <1>1, <1>2 DEF JobNew, Labels, Stale
<1>5. Positions'
  BY <1>1, <1>2 DEF Positions
<1>6. Archived'
  BY <1>1 DEF Archived, Consistent
<1> QED BY <1>3, <1>4, <1>5, <1>6

\* The new backup is the newest, and depends on the full backup of its label.
LEMMA ExactManifest ==
    ASSUME TypeInv, TypeInv', Good, Exact, BackupManifest
    PROVE  Exact'
<1> USE ExactType DEF Exact, Saving, Removing, Preparing, Making, taskVars, pgVars, boundVars
<1> DEFINE new == [label |-> job.label, prior |-> job.prior, pg |-> pg, start |-> job.start,
                   stop |-> job.stop, end |-> job.end]
<1>1. /\ UNCHANGED << info, dir, wal, pos, pg, faults, cur, job >> /\ pc = "manifest"
      /\ pc' = "history" /\ manifest' = manifest \cup {new}
  BY DEF BackupManifest
<1>2. /\ new.label = job.label /\ new.prior = job.prior /\ new.pg = pg /\ new.start = job.start
      /\ new.stop = job.stop
  OBVIOUS
<1> HIDE DEF new
<1>3. /\ job.label \in Label /\ job.start # NoWal
      /\ job.kind = FullKind <=> job.prior = NoLabel
  BY <1>1 DEF TypeInv, Phases, Named, Started
<1>4. ASSUME NEW b \in manifest
      PROVE  Before(b.label, job.label) /\ ~Before(job.label, b.label) /\ b.label # job.label
  <2>1. Before(b.label, job.label)
    BY <1>1, <1>3, LabelType DEF JobNew
  <2> QED BY <1>3, <2>1, BeforeOrder
<1>5. Agreed'
  <2>1. \A b, c \in manifest' : b.label = c.label => b = c
    BY <1>1, <1>2, <1>4 DEF Agreed
  <2>2. ASSUME NEW b \in info, NEW c \in manifest', b.label = c.label
        PROVE  b = c \/ (c.label = job.label /\ Stale)
    <3>1. CASE c \in manifest
      BY <1>1, <2>2, <3>1 DEF Agreed
    <3>2. CASE c = new
      BY <1>1, <1>2, <1>3, <2>2, <3>2, LabelType DEF JobNew, Labels
    <3> QED BY <1>1, <3>1, <3>2
  <2>3. Stale' = Stale
    BY <1>1 DEF Stale
  <2> QED BY <1>1, <2>1, <2>2, <2>3 DEF Agreed, Labels
<1>6. Same'
  <2>1. Without(manifest', job.label) = manifest
    BY <1>1, <1>2, <1>4 DEF Without
  <2>2. job.label \in Labels(manifest')
    BY <1>1, <1>2 DEF Labels
  <2> QED BY <1>1, <2>1, <2>2 DEF Same
<1>7. JobNew' /\ Expiring'
  BY <1>1 DEF JobNew, Expiring
<1>8. Rooted'
  <2>1. ASSUME NEW r PROVE Dependents(manifest, r) \subseteq Dependents(manifest', r)
    BY <1>1, DependentsGrow
  <2>2. ASSUME NEW b \in manifest
        PROVE  \E r \in manifest' : /\ r.label = Root(b.label) /\ r.pg = b.pg
                                    /\ b.label \in Dependents(manifest', r.label)
    <3>1. PICK r \in manifest : /\ r.label = Root(b.label) /\ r.pg = b.pg
                                /\ b.label \in Dependents(manifest, r.label)
      BY DEF Rooted
    <3> QED BY <1>1, <2>1, <3>1
  <2>3. \E r \in manifest' : /\ r.label = Root(new.label) /\ r.pg = new.pg
                             /\ new.label \in Dependents(manifest', r.label)
    <3>1. CASE job.kind = FullKind
      <4>1. Root(job.label) = job.label
        <5>1. job.label.kind = FullKind /\ job.label.time = 0
          BY <1>1, <1>3, <3>1, LabelType DEF JobNew, Good, Kept
        <5> QED BY <1>3, <5>1 DEF Root, Label
      <4>2. job.label \in Dependents(manifest', job.label)
        BY DependentsKnown
      <4> QED BY <1>1, <1>2, <4>1, <4>2
    <3>2. CASE job.kind # FullKind
      <4>1. PICK c \in manifest : c.label = job.prior /\ c.pg = pg
        BY <1>1, <1>3, <3>2 DEF JobNew
      <4>2. PICK r \in manifest : /\ r.label = Root(c.label) /\ r.pg = c.pg
                                  /\ c.label \in Dependents(manifest, r.label)
        BY DEF Rooted
      <4>3. Root(job.label) = Root(job.prior)
        BY <1>1, <1>3, <3>2, LabelType DEF JobNew, Root
      <4>4. new.prior \in Dependents(manifest', r.label)
        BY <1>2, <2>1, <4>1, <4>2
      <4>5. new.label \in Dependents(manifest', r.label)
        BY <1>1, <4>4, DependentsKnown
      <4> QED BY <1>1, <1>2, <4>1, <4>2, <4>3, <4>5
    <3> QED BY <3>1, <3>2
  <2> QED BY <1>1, <2>2, <2>3 DEF Rooted
<1>9. Positions'
  <2>1. \A b \in manifest' : b.start # NoWal /\ b.start <= pos
    BY <1>1, <1>2, <1>3 DEF Positions
  <2>2. \A b, c \in manifest' : Before(b.label, c.label) => b.start <= c.start
    <3>1. ~Before(job.label, job.label)
      BY <1>3, BeforeOrder
    <3>2. \A b \in manifest : b.start <= job.start
      BY <1>1, <1>3 DEF Positions
    <3> QED BY <1>1, <1>2, <1>4, <3>1, <3>2 DEF Positions
  <2> QED BY <1>1, <2>1, <2>2 DEF Positions
<1>10. Archived'
  <2>1. Needed(new) \subseteq wal[pg] /\ new.pg = pg
    BY <1>1, <1>2 DEF Archived, Needed
  <2>2. Consistent'
    BY <1>1, <2>1 DEF Archived, Consistent
  <2> QED BY <1>1, <2>2 DEF Archived
<1> QED BY <1>5, <1>6, <1>7, <1>8, <1>9, <1>10

LEMMA ExactHistory ==
    ASSUME TypeInv, TypeInv', Exact, BackupHistory
    PROVE  Exact'
<1> USE ExactType DEF Exact, Saving, Removing, Preparing, Making, taskVars, pgVars, boundVars
<1>1. /\ UNCHANGED << info, manifest, dir, wal, pos, pg, faults, cur, job >> /\ pc = "history"
      /\ pc' = "info"
  BY DEF BackupHistory
<1>2. Agreed' /\ Same' /\ Rooted' /\ Expiring' /\ JobNew'
  BY <1>1, ZenonT(40) DEF Agreed, Labels, Same, Rooted, Expiring, JobNew, Stale
<1>3. Positions' /\ Archived'
  BY <1>1 DEF Positions, Archived, Consistent
<1> QED BY <1>2, <1>3

\* Once backup.info is saved it agrees with the manifests again.
LEMMA ExactInfo ==
    ASSUME TypeInv, TypeInv', Exact, BackupInfo
    PROVE  Exact'
<1> USE ExactType DEF Exact, Saving, Removing, Preparing, Making, pgVars, boundVars
<1>1. /\ UNCHANGED << manifest, dir, wal, pos, pg, faults >> /\ pc = "info"
      /\ pc' \in {"idle", "load"} /\ info' = cur \cup {b \in manifest : b.label = job.label}
  BY DEF BackupInfo, End
<1>2. info' = manifest
  BY <1>1 DEF Same, Without
<1>3. Agreed' /\ Same' /\ Rooted' /\ Expiring' /\ JobNew'
  BY <1>1, <1>2 DEF Agreed, Labels, Same, Rooted, Expiring, JobNew
<1>4. Positions' /\ Archived'
  BY <1>1 DEF Positions, Archived, Consistent
<1> QED BY <1>3, <1>4

LEMMA ExactBackups ==
    ASSUME TypeInv, TypeInv', WithFiles, Good, Trusted, Exact, Backups
    PROVE  Exact'
<1> USE DEF repoVars, pgVars, taskVars, boundVars, Saving, Removing, Preparing, Making
<1>0. faults \in Nat /\ pg \in Pg
  BY ExactType
<1>1. CASE BackupRemove \/ BackupNew
  BY <1>1, ExactGoesOn DEF BackupRemove, BackupNew, Plan
<1>2. CASE BackupCopy
  BY <1>2, ExactGoesOn DEF BackupCopy, TypeInv, Phases, Named
<1>3. CASE BackupCheck
  BY <1>3, ExactGoesOn DEF BackupCheck, Plan
<1>4. CASE BackupFinal
  BY <1>4, ExactGoesOn DEF BackupFinal, Exact, Archived
<1>5. CASE BackupLabelError \/ BackupTimeout
  BY <1>0, <1>5, ExactEnded DEF BackupLabelError, BackupTimeout, End
<1>6. ASSUME NEW o \in Options, BackupLoad(o) PROVE Exact'
  BY <1>6, ExactLoad
<1> QED BY <1>1, <1>2, <1>3, <1>4, <1>5, <1>6, ExactStart, ExactResume, ExactLabel, ExactStop,
           ExactManifest, ExactHistory, ExactInfo DEF Backups

-----------------------------------------------------------------------------
(* The steps of expire. *)

\* What retention or --set chooses when expire begins.
LEMMA ExactExpireLoad ==
    ASSUME TypeInv, TypeInv', Good, Exact, NEW c \in Config, ExpireLoad(c)
    PROVE  Exact'
<1> USE ExactType DEF Exact, Saving, Removing, Preparing, Making, repoVars, pgVars, boundVars
<1>1. /\ UNCHANGED << info, manifest, dir, wal, pos, pg, faults, clock, adhoc >> /\ pc = "load"
      /\ pc' = "full" /\ cur' = manifest
  BY LoadsManifests DEF ExpireLoad
<1>2. /\ c.full \in Nat /\ c.archiveType \in 0..2 /\ c.fullType \in {"count", "time"}
      /\ conf'.full = c.full /\ conf'.archiveType = c.archiveType /\ conf'.fullType = c.fullType
  BY BackupExpireAssumption DEF ExpireLoad
<1>3. Agreed' /\ Same' /\ Rooted' /\ JobNew'
  BY <1>1 DEF Agreed, Labels, Same, Rooted, JobNew
<1>4. Positions' /\ Archived'
  BY <1>1 DEF Positions, Archived, Consistent
<1>5. \A a, b \in manifest : a.label = b.label => a = b
  BY DEF Agreed
<1>6. Fulls' = Fulls /\ Fulls \subseteq manifest
  BY <1>1 DEF Fulls, OfKind
<1>7. ASSUME adhoc = NoLabel, NEW b \in manifest, b.label \in heads'
      PROVE  Spared(b)'
  <2>1. CASE c.fullType = "count"
    <3>1. heads' = FullExpired(manifest, c)
      BY <1>1, <1>7, <2>1 DEF ExpireLoad
    <3>2. PICK f \in Fulls : /\ f.label = b.label /\ c.full > 0
                             /\ Cardinality(Newer(Fulls, f)) >= c.full
      BY <1>7, <3>1 DEF FullExpired, Fulls
    <3>3. f = b
      BY <1>5, <1>6, <3>2
    <3>4. Newer(Fulls, b) # {}
      <4>1. Cardinality({}) = 0
        BY FS_EmptySet
      <4>2. Newer(Fulls, b) = {} => ~(0 >= c.full)
        BY <1>2, <3>2
      <4> QED BY <3>2, <3>3, <4>1, <4>2
    <3>5. Newer(Fulls, b)' = Newer(Fulls, b)
      BY <1>6 DEF Newer
    <3> QED BY <1>2, <2>1, <3>2, <3>3, <3>4, <3>5 DEF Spared
  <2>2. CASE c.fullType = "time"
    <3>1. heads' = TimeExpired(manifest, c, clock)
      BY <1>1, <1>7, <2>2 DEF ExpireLoad
    <3>2. PICK f \in Fulls : f.label = b.label /\ Newer(OlderThanPeriod(manifest, c, clock), f) # {}
      BY <1>7, <3>1 DEF TimeExpired, Fulls
    <3>3. f = b
      BY <1>5, <1>6, <3>2
    <3>4. PICK d \in Newer(Fulls, b) : d.end + c.full < clock
      BY <3>2, <3>3 DEF Newer, OlderThanPeriod, Fulls
    <3>5. Newer(Fulls, b)' = Newer(Fulls, b)
      BY <1>6 DEF Newer
    <3> QED BY <1>1, <1>2, <2>2, <3>4, <3>5 DEF Spared
  <2> QED BY <1>2, <2>1, <2>2
<1>8. ASSUME adhoc # NoLabel
      PROVE  /\ heads' \subseteq {adhoc}
             /\ \A b \in Fulls : (b.label \in heads' /\ b.label \in Newest(Labels(Fulls))) =>
                    \E d \in Fulls : d.label # b.label /\ d.pg = b.pg
  <2>1. heads' \subseteq {adhoc}
    BY <1>8 DEF ExpireLoad
  <2>2. ASSUME NEW b \in Fulls, b.label = adhoc, b.label \in Newest(Labels(Fulls))
        PROVE  \E d \in Fulls : d.label # b.label /\ d.pg = b.pg
    <3> DEFINE PgOf(m) == {a.pg : a \in {d \in manifest : d.label = m}}
    <3>1. ~Refused(manifest, adhoc)
      BY <1>1 DEF ExpireLoad
    <3>2. PICK m \in Labels(Fulls) : m # adhoc /\ PgOf(m) = PgOf(adhoc)
      BY <2>2, <3>1 DEF Refused, Fulls, Newest
    <3>3. PICK d \in Fulls : d.label = m
      BY DEF Labels
    <3>4. d.pg \in PgOf(m)
      BY <1>6, <3>3
    <3>5. PICK a \in manifest : a.label = adhoc /\ a.pg = d.pg
      BY <3>2, <3>4
    <3>6. a = b
      BY <1>5, <1>6, <2>2, <3>5
    <3> QED BY <2>2, <3>2, <3>3, <3>5, <3>6
  <2> QED BY <2>1, <2>2
<1>9. Expiring'
  BY <1>1, <1>2, <1>6, <1>7, <1>8 DEF Expiring
<1> QED BY <1>3, <1>4, <1>9

\* What goes next: a full backup only goes as the first of those to go.
LEMMA FullVictim ==
    ASSUME TypeInv, Good, NEW l \in Victim, l.kind = FullKind
    PROVE  l \in heads /\ \A h \in heads : ~Before(h, l)
<1>1. PICK h \in Oldest(heads) : l \in Newest(Dependents(cur, h))
  BY DEF Victim
<1>2. h \in Label /\ cur \subseteq Backup /\ l \in Dependents(cur, h)
  BY <1>1, ExactType DEF Oldest, Newest
<1>3. \A b \in cur : b.label.kind = FullKind => b.prior = NoLabel
  BY DEF Good, Ordered, Known
<1>4. l = h
  BY <1>2, <1>3, FullAlone
<1> QED BY <1>1, <1>4 DEF Oldest

\* Newer full backups stay when a backup goes in that order.
LEMMA NewerStay ==
    ASSUME TypeInv, Good, NEW l \in Victim, manifest' = Without(manifest, l),
           NEW b \in manifest, b.label \in heads
    PROVE  Newer(Fulls, b)' = Newer(Fulls, b)
<1>1. ASSUME NEW c \in Fulls, c.label = l PROVE ~Before(b.label, c.label)
  BY <1>1, FullVictim DEF Fulls, OfKind
<1>2. Fulls' = {c \in Fulls : c.label # l}
  BY DEF Fulls, OfKind, Without
<1> QED BY <1>1, <1>2 DEF Newer

\* A backup goes that nothing is built on: the others still have their full
\* backup.
LEMMA ExactRemoveManifest ==
    ASSUME TypeInv, TypeInv', Good, Exact,
           NEW p \in {"full", "diff"}, NEW q \in {"fullCopy", "diffCopy"},
           RemoveManifest(p, q), q = "fullCopy" <=> p = "full"
    PROVE  Exact'
<1> USE ExactType DEF Exact, Saving, Removing, Preparing, Making, taskVars, pgVars, boundVars
<1>1. /\ UNCHANGED << info, dir, wal, pos, pg, faults, clock, adhoc, cur, heads, conf >> /\ pc = p
      /\ pc' = q /\ cur = manifest
  BY DEF RemoveManifest, Same
<1>2. PICK l \in Victim : manifest' = Without(manifest, l)
  BY DEF RemoveManifest
<1>3. manifest' = {b \in manifest : b.label # l}
  BY <1>2 DEF Without
<1>4. PICK h \in Oldest(heads) : l \in Newest(Dependents(manifest, h))
  BY <1>1, <1>2 DEF Victim
<1>5. l \in Label
  BY <1>2, VictimType
<1>6. Agreed' /\ JobNew'
  BY <1>1, <1>3 DEF Agreed, JobNew
<1>7. Same'
  <2>1. Victim' = Victim
    BY <1>1 DEF Victim
  <2> QED BY <1>1, <1>2, <2>1 DEF Same
<1>8. \A b \in manifest : b.prior = l => b.label = l
  <2> SUFFICES ASSUME NEW b \in manifest, b.prior = l PROVE b.label = l
    OBVIOUS
  <2>1. b.label \in Dependents(manifest, h)
    BY <1>4, DependentsKnown DEF Newest
  <2>2. Before(l, b.label)
    BY <1>5, LabelType DEF Good, Ordered, Known
  <2> QED BY <1>4, <2>1, <2>2 DEF Newest
<1>9. Rooted'
  <2> SUFFICES ASSUME NEW b \in manifest, b.label # l
               PROVE  \E r \in manifest' : /\ r.label = Root(b.label) /\ r.pg = b.pg
                                           /\ b.label \in Dependents(manifest', r.label)
    BY <1>3 DEF Rooted
  <2>1. PICK r \in manifest : /\ r.label = Root(b.label) /\ r.pg = b.pg
                              /\ b.label \in Dependents(manifest, r.label)
    BY DEF Rooted
  <2>2. r.label # l
    <3> SUFFICES ASSUME r.label = l PROVE FALSE
      OBVIOUS
    <3>1. b.label \in Dependents(manifest, h)
      BY <1>4, <2>1, DependentsOfOne DEF Newest
    <3>2. Before(l, b.label)
      BY <2>1, RootFirst
    <3> QED BY <1>4, <3>1, <3>2 DEF Newest
  <2>3. b.label \in Dependents(manifest', r.label)
    BY <1>2, <1>8, <2>1, <2>2, DependentsLeft
  <2> QED BY <1>3, <2>1, <2>2, <2>3
<1>10. Positions'
  BY <1>1, <1>3 DEF Positions
<1>11. Expiring'
  <2>1. Fulls' = {c \in Fulls : c.label # l}
    BY <1>3 DEF Fulls, OfKind
  <2>2. ASSUME adhoc = NoLabel, p = "full", NEW b \in manifest', b.label \in heads
        PROVE  Spared(b)'
    <3>1. b \in manifest /\ Spared(b)
      BY <1>1, <1>3, <2>2 DEF Expiring
    <3>2. Newer(Fulls, b)' = Newer(Fulls, b)
      BY <1>2, <2>2, <3>1, NewerStay
    <3> QED BY <1>1, <3>1, <3>2 DEF Spared
  <2>3. ASSUME adhoc # NoLabel, p = "full", NEW b \in Fulls', b.label \in heads,
               b.label \in Newest(Labels(Fulls'))
        PROVE  \E c \in Fulls' : c.label # b.label /\ c.pg = b.pg
    <3>1. l.kind # FullKind
      <4> SUFFICES ASSUME l.kind = FullKind PROVE FALSE
        OBVIOUS
      <4>1. l \in heads
        BY <1>2, FullVictim
      <4>2. l = b.label
        BY <1>1, <2>3, <4>1 DEF Expiring
      <4> QED BY <2>1, <4>2
    <3>2. Fulls' = Fulls
      BY <2>1, <3>1 DEF Fulls, OfKind
    <3> QED BY <1>1, <2>3, <3>2 DEF Expiring
  <2> QED BY <1>1, <2>2, <2>3 DEF Expiring
<1>12. Archived'
  BY <1>1, <1>3 DEF Archived, Consistent
<1> QED BY <1>6, <1>7, <1>9, <1>10, <1>11, <1>12

LEMMA ExactRemoveCopy ==
    ASSUME TypeInv, TypeInv', Exact,
           NEW p \in {"full", "diff"}, NEW q \in {"fullCopy", "diffCopy"},
           RemoveCopy(q, p), q = "fullCopy" <=> p = "full"
    PROVE  Exact'
<1> USE ExactType DEF Exact, Saving, Removing, Preparing, Making, pgVars, boundVars
<1>1. /\ UNCHANGED << info, manifest, dir, wal, pos, pg, faults, clock, adhoc, conf >> /\ pc = q
      /\ pc' = p
  BY DEF RemoveCopy
<1>2. PICK l \in Victim : cur' = Without(cur, l) /\ heads' = heads \ {l}
  BY DEF RemoveCopy
<1>3. PICK m \in Victim : manifest = Without(cur, m)
  BY <1>1 DEF Same
<1>4. cur' = manifest
  BY <1>2, <1>3, VictimOne
<1>5. Agreed' /\ JobNew' /\ Same' /\ Rooted'
  BY <1>1, <1>4 DEF Agreed, JobNew, Same, Rooted
<1>6. Positions' /\ Archived'
  BY <1>1 DEF Positions, Archived, Consistent
<1>7. Expiring'
  <2>1. Fulls' = Fulls
    BY <1>1 DEF Fulls
  <2>2. \A b \in manifest : Spared(b)' = Spared(b)
    BY <1>1, <2>1 DEF Spared, Newer
  <2> QED BY <1>1, <1>2, <2>1, <2>2 DEF Expiring
<1> QED BY <1>5, <1>6, <1>7

LEMMA ExactDiffList ==
    ASSUME TypeInv, TypeInv', Exact, ExpireDiffList
    PROVE  Exact'
<1> USE ExactType DEF Exact, Saving, Removing, Preparing, Making, repoVars, pgVars, boundVars
<1>1. /\ UNCHANGED << info, manifest, dir, wal, pos, pg, faults, clock, adhoc, conf, cur >>
      /\ pc = "full" /\ pc' = "diff" /\ heads' = IF adhoc = NoLabel THEN DiffExpired(cur, conf) ELSE {}
  BY DEF ExpireDiffList
<1>2. \A h \in heads' : h.kind = DiffKind
  BY <1>1 DEF DiffExpired, OfKind
<1>3. Agreed' /\ JobNew' /\ Same' /\ Rooted' /\ Expiring'
  BY <1>1, <1>2 DEF Agreed, JobNew, Same, Rooted, Expiring
<1>4. Positions' /\ Archived'
  BY <1>1 DEF Positions, Archived, Consistent
<1> QED BY <1>3, <1>4

LEMMA ExactSave ==
    ASSUME TypeInv, TypeInv', Exact, ExpireSave
    PROVE  Exact'
<1> USE ExactType DEF Exact, Saving, Removing, Preparing, Making, pgVars, boundVars
<1>1. /\ UNCHANGED << manifest, dir, wal, pos, pg, faults, clock, conf, cur >>
      /\ pc = "diff" /\ pc' = "dirs" /\ info' = manifest
  BY DEF ExpireSave, Same
<1>2. Agreed' /\ JobNew' /\ Same' /\ Rooted' /\ Expiring'
  BY <1>1 DEF Agreed, JobNew, Same, Rooted, Expiring
<1>3. Positions' /\ Archived'
  BY <1>1 DEF Positions, Archived, Consistent
<1> QED BY <1>2, <1>3

\* None of the directories that are removed is of a complete backup.
LEMMA DirsIncomplete == Good /\ RemoveDir => manifest' = manifest
<1> SUFFICES ASSUME Good, RemoveDir PROVE manifest' = manifest
  OBVIOUS
<1>1. PICK l \in heads : manifest' = Without(manifest, l)
  BY DEF RemoveDir, Newest
<1>2. l \notin Labels(manifest)
  BY DEF Good, Listed, RemoveDir
<1> QED BY <1>1, <1>2 DEF Without, Labels

LEMMA ExactRemoveDir ==
    ASSUME TypeInv, TypeInv', Good, Exact, RemoveDir
    PROVE  Exact'
<1> USE ExactType DEF Exact, Saving, Removing, Preparing, Making, pgVars, boundVars
<1>1. /\ UNCHANGED << info, manifest, wal, pos, pg, faults, clock, conf, cur, job >>
      /\ pc = "dirs" /\ pc' = "dirs" /\ dir' \subseteq dir
  BY DirsIncomplete DEF RemoveDir
<1>2. Agreed' /\ JobNew' /\ Same' /\ Rooted' /\ Expiring'
  BY <1>1 DEF Agreed, JobNew, Same, Rooted, Expiring
<1>3. Positions' /\ Archived'
  BY <1>1 DEF Positions, Archived, Consistent
<1> QED BY <1>2, <1>3

\* The WAL that goes is found with the manifests.
LEMMA ExactArchiveList ==
    ASSUME TypeInv, TypeInv', Exact, ExpireArchiveList
    PROVE  Exact'
<1> USE ExactType DEF Exact, Saving, Removing, Preparing, Making, repoVars, pgVars, boundVars
<1>1. /\ UNCHANGED << info, manifest, dir, wal, pos, pg, faults, clock, conf, cur, adhoc, heads >>
      /\ pc = "dirs" /\ pc' = "wal" /\ cur = manifest
  BY DEF ExpireArchiveList, Same
<1>2. Agreed' /\ JobNew' /\ Same' /\ Rooted' /\ Expiring'
  BY <1>1 DEF Agreed, JobNew, Same, Rooted, Expiring
<1>3. Positions'
  BY <1>1 DEF Positions
<1>4. Orderly(manifest)
  BY DEF Orderly, Agreed, Rooted, Positions
<1>5. ASSUME NEW t \in trash', NEW b \in manifest, b.pg = t[1]
      PROVE  t[2] \notin Needed(b) /\ (Replayed(b) => t[2] < b.start)
  <2> DEFINE gone(c) == ArchiveExpired(manifest, conf.archiveType, conf.archive, c, pg, wal[c])
  <2>1. PICK c \in Pg : t \in {c} \X gone(c)
    <3>1. trash' = UNION {{c} \X gone(c) : c \in Pg}
      BY <1>1 DEF ExpireArchiveList
    <3> HIDE DEF gone
    <3> QED BY <1>5, <3>1
  <2>2. t[1] = c /\ t[2] \in gone(c)
    <3> HIDE DEF gone
    <3> QED BY <2>1
  <2>3. t[2] \in ArchiveExpired(manifest, conf.archiveType, conf.archive, b.pg, pg, wal[b.pg])
    BY <1>5, <2>2
  <2>4. wal[b.pg] \in SUBSET Seg /\ conf.archiveType \in 0..2
    BY <1>1 DEF Expiring
  <2>5. Replayed(b) <=> ReplayedIn(manifest, conf.archiveType, conf.archive, b)
    BY DEF Replayed, ReplayedIn
  <2> QED BY <1>4, <2>3, <2>4, <2>5, ArchiveKeeps
<1>6. Archived'
  <2>1. \A b \in manifest : Replayed(b)' = Replayed(b) /\ Needed(b)' = Needed(b)
    BY <1>1 DEF Replayed, Newer, OfKind, Needed
  <2> QED BY <1>1, <1>5, <2>1 DEF Archived, Consistent
<1> QED BY <1>2, <1>3, <1>6

LEMMA ExactRemoveWal ==
    ASSUME TypeInv, TypeInv', Exact, RemoveWal
    PROVE  Exact'
<1> USE ExactType DEF Exact, Saving, Removing, Preparing, Making, pgVars, boundVars
<1>1. /\ UNCHANGED << info, manifest, dir, pos, pg, faults, clock, conf, cur, adhoc, heads >>
      /\ pc = "wal" /\ pc' = "wal"
  BY DEF RemoveWal
<1>2. PICK t \in trash :
          LET gone == {u \in trash : u[1] = t[1] /\ Path(u[2]) = Path(t[2])}
          IN  /\ trash' = trash \ gone
              /\ wal' = [wal EXCEPT ![t[1]] = @ \ {u[2] : u \in gone}]
  BY DEF RemoveWal
<1>3. Agreed' /\ JobNew' /\ Same' /\ Rooted' /\ Expiring' /\ Positions'
  BY <1>1 DEF Agreed, JobNew, Same, Rooted, Expiring, Positions
<1>4. ASSUME NEW c \in Pg, NEW s \in wal[c], s \notin wal'[c] PROVE \E u \in trash : u[1] = c /\ u[2] = s
  BY <1>2, <1>4
<1>5. Consistent'
  <2> SUFFICES ASSUME NEW b \in manifest, NEW s \in Needed(b) PROVE s \in wal'[b.pg]
    BY <1>1 DEF Consistent, Needed
  <2>1. s \in wal[b.pg] /\ b.pg \in Pg
    BY DEF Archived, Consistent
  <2>2. ~(\E u \in trash : u[1] = b.pg /\ u[2] = s)
    BY <1>1 DEF Archived
  <2> QED BY <1>4, <2>1, <2>2
<1>6. Archived'
  <2>1. \A b \in manifest : Replayed(b)' = Replayed(b) /\ Needed(b)' = Needed(b)
    BY <1>1 DEF Replayed, Newer, OfKind, Needed
  <2>2. trash' \subseteq trash
    BY <1>2
  <2> QED BY <1>1, <1>5, <2>1, <2>2 DEF Archived
<1> QED BY <1>3, <1>6

LEMMA ExactExpires ==
    ASSUME TypeInv, TypeInv', Good, Exact, Expires
    PROVE  Exact'
<1> USE DEF repoVars, pgVars, taskVars, boundVars, Saving, Removing
<1>0. faults \in Nat
  BY ExactType
<1>1. ASSUME NEW l \in dir \cup {NoLabel}, Expire(l) PROVE Exact'
  BY <1>0, <1>1, ExactEnded DEF Expire
<1>2. CASE ExpireRefused \/ RemoveHistory
  BY <1>0, <1>2, ExactEnded DEF ExpireRefused, RemoveHistory, End
<1>3. CASE RemoveManifest("full", "fullCopy") \/ RemoveCopy("fullCopy", "full")
  BY <1>3, ExactRemoveManifest, ExactRemoveCopy
<1>4. CASE RemoveManifest("diff", "diffCopy") \/ RemoveCopy("diffCopy", "diff")
  BY <1>4, ExactRemoveManifest, ExactRemoveCopy
<1>5. ASSUME NEW c \in Config, ExpireLoad(c) PROVE Exact'
  BY <1>5, ExactExpireLoad
<1> QED BY <1>1, <1>2, <1>3, <1>4, <1>5, ExactDiffList, ExactSave, ExactRemoveDir, ExactArchiveList,
           ExactRemoveWal DEF Expires

LEMMA ExactStep ==
    ASSUME TypeInv, TypeInv', WithFiles, Good, Trusted, Exact, [Next]_vars, shifts = 0, shifts' = 0
    PROVE  Exact'
<1> USE DEF repoVars, pgVars, taskVars, boundVars
<1>0. /\ clock \in Nat /\ pos \in Nat /\ faults \in Nat /\ MaxFault \in Nat
      /\ wal \in [Pg -> SUBSET Seg] /\ pg \in Pg
  BY ExactType
<1>1. CASE Tick
  BY <1>0, <1>1, ExactQuiet DEF Tick
<1>2. CASE ClockBack
  BY <1>2 DEF ClockBack
<1>3. CASE Switch \/ Upgrade
  BY <1>0, <1>3, ExactQuiet DEF Switch, Upgrade
<1>4. ASSUME NEW s \in Seg, Archive(s) \/ Drop(s) PROVE Exact'
  <2>1. \A p \in Pg : wal[p] \subseteq wal'[p]
    BY <1>0, <1>4 DEF Archive, Drop
  <2> QED BY <1>0, <1>4, <2>1, ExactQuiet DEF Archive, Drop
<1>5. CASE Abort
  <2>1. faults' # 0 /\ ~Stale
    BY <1>0, <1>5 DEF Abort, Stale
  <2> QED BY <1>0, <1>5, <2>1, ExactEnded DEF Abort, End
<1>6. CASE UNCHANGED vars
  BY <1>0, <1>6, ExactQuiet DEF vars
<1> QED BY <1>1, <1>2, <1>3, <1>4, <1>5, <1>6, ExactBackups, ExactExpires DEF Next

LEMMA ExactInit == Init => Exact
BY Numbers DEF Init, Exact, Agreed, Same, JobNew, Rooted, Positions, Expiring, Archived, Consistent,
   Labels, Saving, Removing, Preparing, Making, Fulls, OfKind

LEMMA ExactInvariant ==
    ASSUME Trusted
    PROVE  Spec => []RetentionInv
<1>1. Init => RetentionInv
  BY TypeInit, GoodInit, ExactInit DEF RetentionInv, BackupInv, Init, WithFiles, Labels, Started
<1>2. RetentionInv /\ [Next]_vars => RetentionInv'
  BY TypeStep, FilesStep, GoodStep, ExactStep, ShiftsGrow DEF RetentionInv, BackupInv
<1> QED BY <1>1, <1>2, PTL DEF Spec

\* PostgreSQL becomes consistent from every backup that is complete: the
\* archive has all WAL from its start to its stop, whatever retention and
\* --set have removed and wherever backup and expire were interrupted.  This
\* is as long as the clock is not set back, and for two faults or more only
\* without resume: run backup_stale shows what happens with it.
THEOREM WalKept ==
    ASSUME Trusted
    PROVE  Spec => [](shifts = 0 => Consistent)
<1>1. RetentionInv => (shifts = 0 => Consistent)
  BY DEF RetentionInv, Exact, Archived
<1> QED BY <1>1, ExactInvariant, PTL

\* expireBackup() is the only one that takes a manifest.
LEMMA ManifestGone ==
    ASSUME Good, [Next]_vars, NEW b \in manifest, b \notin manifest'
    PROVE  RemoveManifest("full", "fullCopy") \/ RemoveManifest("diff", "diffCopy")
<1> USE DEF repoVars, pgVars, taskVars, boundVars
<1>1. ~Backups
  BY DEF Backups, BackupLoad, BackupStart, BackupResume, BackupRemove, BackupNew, BackupLabel,
     BackupLabelError, BackupCopy, BackupStop, BackupCheck, BackupTimeout, BackupFinal,
     BackupManifest, BackupHistory, BackupInfo, Plan
<1>2. ~RemoveDir
  BY DirsIncomplete
<1> QED BY <1>1, <1>2 DEF Next, vars, Tick, ClockBack, Switch, Upgrade, Abort, Archive, Drop, Expires,
     Expire, ExpireLoad, ExpireRefused, RemoveCopy, ExpireDiffList, ExpireSave,
     ExpireArchiveList, RemoveWal, RemoveHistory

\* The step in which a full backup loses its manifest.
LEMMA FullGone ==
    ASSUME TypeInv, Good, Exact, [Next]_vars, NEW b \in Fulls, b \notin manifest'
    PROVE  /\ pc = "full" /\ b.label \in heads /\ Newer(Fulls, b)' = Newer(Fulls, b)
           /\ UNCHANGED << conf, clock, adhoc >> /\ b.label \in Victim
           /\ manifest' = Without(manifest, b.label)
<1> USE DEF taskVars, pgVars
<1>1. b \in manifest /\ b.label.kind = FullKind
  BY DEF Fulls, OfKind
<1>2. PICK p \in {"full", "diff"}, q \in {"fullCopy", "diffCopy"} : RemoveManifest(p, q)
  BY <1>1, ManifestGone
<1>3. PICK l \in Victim : manifest' = Without(manifest, l)
  BY <1>2 DEF RemoveManifest
<1>4. b.label = l
  BY <1>1, <1>3 DEF Without
<1>5. l \in heads
  BY <1>1, <1>3, <1>4, FullVictim
<1>6. pc = "full"
  <2>1. l.kind # DiffKind
    BY <1>1, <1>4 DEF FullKind, DiffKind
  <2> QED BY <1>2, <1>5, <2>1 DEF Exact, Expiring, RemoveManifest
<1> QED BY <1>1, <1>2, <1>3, <1>4, <1>5, <1>6, NewerStay DEF RemoveManifest

\* The invariant holds of a state from which the clock is not set back.
LEMMA Steady ==
    ASSUME MaxShift = 0, RetentionInv
    PROVE  TypeInv /\ Good /\ Exact
<1>1. shifts = 0
  BY DEF RetentionInv, BackupInv, TypeInv, TypeOK
<1> QED BY <1>1 DEF RetentionInv, BackupInv

\* A retention rule never takes a full backup before as many newer ones as
\* it asks for are complete, or one of them covers the whole period.
THEOREM RetentionHeld ==
    ASSUME Trusted, MaxShift = 0
    PROVE  Spec => RetentionKept
<1>1. ASSUME RetentionInv, [Next]_vars, NEW b \in Fulls \ manifest', adhoc = NoLabel
      PROVE  LET newer == Newer(Fulls', b)
             IN  IF conf.fullType = "count" THEN Cardinality(newer) >= conf.full
                 ELSE \E c \in newer : c.end + conf.full < clock
  <2>1. TypeInv /\ Good /\ Exact
    BY <1>1, Steady
  <2>2. /\ pc = "full" /\ b.label \in heads /\ b \in manifest
        /\ Newer(Fulls', b) = Newer(Fulls, b)
    BY <1>1, <2>1, FullGone DEF Fulls, OfKind
  <2>3. Spared(b)
    BY <1>1, <2>1, <2>2 DEF Exact, Expiring
  <2> QED BY <2>2, <2>3 DEF Spared
<1>2. ASSUME RetentionInv, [Next]_vars
      PROVE  \A b \in OfKind(manifest, {FullKind}) \ manifest' :
                adhoc = NoLabel =>
                    LET newer == Newer(OfKind(manifest', {FullKind}), b)
                    IN  IF conf.fullType = "count" THEN Cardinality(newer) >= conf.full
                        ELSE \E c \in newer : c.end + conf.full < clock
  BY <1>1, <1>2 DEF Fulls
<1> QED BY <1>2, ExactInvariant, PTL DEF Spec, RetentionKept

\* Neither retention nor --set leaves the cluster of the newest full backup
\* without a full backup.
THEOREM LastFullHeld ==
    ASSUME Trusted, MaxShift = 0
    PROVE  Spec => LastFullKept
<1>1. ASSUME RetentionInv, [Next]_vars, NEW b \in Fulls, b.label \in Newest(Labels(Fulls))
      PROVE  \E c \in Fulls' : c.pg = b.pg
  <2>1. TypeInv /\ Good /\ Exact
    BY <1>1, Steady
  <2>2. CASE b \in manifest'
    BY <1>1, <2>2 DEF Fulls, OfKind
  <2>3. CASE b \notin manifest'
    <3>1. /\ pc = "full" /\ b.label \in heads /\ b \in manifest
          /\ manifest' = Without(manifest, b.label)
      BY <1>1, <2>1, <2>3, FullGone DEF Fulls, OfKind
    <3>2. Newer(Fulls, b) = {}
      BY <1>1 DEF Newest, Newer, Labels
    <3>3. adhoc # NoLabel
      BY <2>1, <3>1, <3>2 DEF Exact, Expiring, Spared
    <3>4. PICK c \in Fulls : c.label # b.label /\ c.pg = b.pg
      BY <1>1, <2>1, <3>1, <3>3 DEF Exact, Expiring
    <3>5. c \in Fulls'
      BY <3>1, <3>4 DEF Fulls, OfKind, Without
    <3> QED BY <3>4, <3>5
  <2> QED BY <2>2, <2>3
<1>2. ASSUME RetentionInv, [Next]_vars
      PROVE  \A b \in OfKind(manifest, {FullKind}) :
                b.label \in Newest(Labels(OfKind(manifest, {FullKind}))) =>
                    \E c \in OfKind(manifest', {FullKind}) : c.pg = b.pg
  BY <1>1, <1>2 DEF Fulls
<1> QED BY <1>2, ExactInvariant, PTL DEF Spec, LastFullKept

\* expire is the only one that takes WAL from the archive.
LEMMA WalGone ==
    ASSUME TypeInv, [Next]_vars, NEW p \in Pg, NEW s \in wal[p] \ wal'[p]
    PROVE  pc = "wal" /\ \E t \in trash : t[1] = p /\ t[2] = s
<1> USE DEF repoVars, pgVars, taskVars, boundVars
<1>1. ~Backups
  BY DEF Backups, BackupLoad, BackupStart, BackupResume, BackupRemove, BackupNew, BackupLabel,
     BackupLabelError, BackupCopy, BackupStop, BackupCheck, BackupTimeout, BackupFinal,
     BackupManifest, BackupHistory, BackupInfo, Plan
<1>2. ASSUME NEW r \in Seg PROVE ~Archive(r) /\ ~Drop(r)
  BY ExactType DEF Archive, Drop
<1>3. RemoveWal
  BY <1>1, <1>2 DEF Next, vars, Tick, ClockBack, Switch, Upgrade, Abort, Expires, Expire, ExpireLoad,
     ExpireRefused, RemoveManifest, RemoveCopy, ExpireDiffList, ExpireSave, RemoveDir,
     ExpireArchiveList, RemoveHistory
<1>4. PICK t \in trash :
          wal' = [wal EXCEPT ![t[1]] =
                      @ \ {u[2] : u \in {v \in trash : v[1] = t[1] /\ Path(v[2]) = Path(t[2])}}]
  BY <1>3 DEF RemoveWal
<1>5. \E u \in trash : u[1] = p /\ u[2] = s
  BY <1>4, ExactType
<1> QED BY <1>3, <1>5 DEF RemoveWal

\* expire removes no WAL that recovery may replay from one of the newest
\* backups, as many as archive retention asks for, or from the newest backup
\* of a cluster.
THEOREM PitrHeld ==
    ASSUME Trusted, MaxShift = 0
    PROVE  Spec => PitrKept
<1>1. ASSUME RetentionInv, [Next]_vars, NEW p \in Pg, NEW s \in wal[p] \ wal'[p], NEW b \in manifest,
             b.pg = p, Replayed(b)
      PROVE  s < b.start
  <2>1. TypeInv /\ Good /\ Exact
    BY <1>1, Steady
  <2>2. pc = "wal" /\ \E t \in trash : t[1] = p /\ t[2] = s
    BY <1>1, <2>1, WalGone
  <2> QED BY <1>1, <2>1, <2>2 DEF Exact, Archived
<1>2. ASSUME RetentionInv, [Next]_vars
      PROVE  \A p \in Pg : \A s \in wal[p] \ wal'[p] : \A b \in manifest :
                /\ b.pg = p
                /\ \/ Cardinality(Newer(OfKind(manifest, 0..conf.archiveType), b)) < conf.archive
                   \/ \A c \in Newer(manifest, b) : c.pg # p
                => s < b.start
  BY <1>1, <1>2 DEF Replayed
<1> QED BY <1>2, ExactInvariant, PTL DEF Spec, PitrKept
=============================================================================
