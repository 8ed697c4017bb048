---------------------------- MODULE MCBackupPlan ----------------------------
(* The backups that BackupPlan is checked with: two in a row of a cluster   *)
(* whose files change, grow, shrink and go while they are copied.           *)
EXTENDS BackupPlan

MCCopyNames == << "base", "conf", "control", "more", "ts" >>
MCTargetOf == [n \in Range(MCCopyNames) |-> IF n = "ts" THEN 2 ELSE 1]
MCOnStandby == {"base", "control", "more", "ts"}

DiskFile(size, time, data) == [size |-> size, time |-> time, data |-> data]
Disk1 == {("control" :> DiskFile(1, 9, "p")) @@ ("base" :> DiskFile(5, 1, "a")) @@ ("more" :> DiskFile(1, 1, "m"))
            @@ ("conf" :> DiskFile(0, 4, "e")) @@ ("ts" :> DiskFile(2, 2, "c")),
          ("control" :> DiskFile(1, 9, "p")) @@ ("base" :> DiskFile(2, 1, "a")) @@ ("more" :> DiskFile(3, 9, "m"))
            @@ ("conf" :> DiskFile(1, 4, "e")) @@ ("ts" :> DiskFile(0, 2, "c"))}

\* One file is rewritten, grows, is truncated or goes; pg_control is always written.
With(d, name, f) == [n \in DOMAIN d |-> IF n = name THEN f ELSE d[n]]
Without(d, name) == [n \in DOMAIN d \ {name} |-> d[n]]
Changes(d, t, data) ==
    {With(x, "control", DiskFile(1, t, data)) :
        x \in {d} \cup {Without(d, n) : n \in {"base", "ts"}}
                \cup {With(d, n, DiskFile(d[n].size + more, t, new)) : n \in {"base", "ts"}, more \in 0..1, new \in {"a", "c", data}}
                \cup {With(d, n, DiskFile(0, t, data)) : n \in {"base", "ts"}}}
OneLater(d, t, b) ==
    {d, [d EXCEPT !["control"] = DiskFile(1, t, b), !["more"] = DiskFile(0, t, b)],
     [n \in DOMAIN d \ {"more"} |-> d[n]]}

Plain == [bundle |-> FALSE, size |-> 0, limit |-> 0, standby |-> FALSE, clients |-> 2, order |-> << 1 >>, online |-> TRUE,
          delta |-> FALSE, block |-> FALSE, compress |-> FALSE, fullIncr |-> FALSE, now |-> 10]
Bundled == [Plain EXCEPT !.bundle = TRUE, !.size = 4, !.limit = 2, !.compress = TRUE]
Options ==
    {Plain, [Plain EXCEPT !.standby = TRUE, !.clients = 3, !.order = << 2, 2, 0 >>, !.compress = TRUE],
     [Plain EXCEPT !.delta = TRUE, !.fullIncr = TRUE], [Plain EXCEPT !.fullIncr = TRUE, !.block = TRUE], Bundled,
     [Bundled EXCEPT !.block = TRUE, !.clients = 1, !.order = << >>],
     [Bundled EXCEPT !.block = TRUE, !.delta = TRUE, !.standby = TRUE],
     [Bundled EXCEPT !.fullIncr = TRUE, !.size = 2, !.standby = TRUE, !.clients = 3]}

BackupAt(kind, o, label, disk, first, second, after) ==
    [kind |-> kind, option |-> o, label |-> label, disk |-> disk, first |-> first, second |-> second,
     after |-> after, limit |-> o.now - 2, damaged |-> {"more"}]

\* The second backup follows one that ended, or one that was killed after a job.
MCNextBackups(b) ==
    {BackupAt(k, [p EXCEPT !.now = 20], "two", w[1], w[1], w[2], 0) :
        k \in IF b.after = 0 THEN {"full", "incr"} ELSE {"full"},
        p \in {b.option, [b.option EXCEPT !.bundle = ~@, !.size = 4, !.limit = 2], [b.option EXCEPT !.block = ~@]},
        w \in UNION {{d} \X OneLater(d, 22, "x") : d \in {b.second, With(b.second, "base", DiskFile(5, 15, "n"))}}}
MCFirstBackups ==
    {BackupAt("full", o, "one", d[1], d[1], d[2], after) :
        o \in Options, after \in {0, 2}, d \in UNION {{d1} \X Changes(d1, 12, "b") : d1 \in Disk1}}

MCInitCalls ==
    [online : BOOLEAN, option : {"n", "prefer", "y"}, standby : BOOLEAN, checksum : {None, "y", "n"}, enabled : BOOLEAN, match : BOOLEAN]
=============================================================================
