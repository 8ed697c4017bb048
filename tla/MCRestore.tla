----------------------------- MODULE MCRestore -----------------------------
(* Instances of Restore for TLC.                                            *)
EXTENDS Restore

Has(v, t) == [ver |-> v, time |-> t, mark |-> "none"]
Contents(S, f) == [e \in Entry |-> IF e \in S THEN f[e] ELSE Nothing]

Dirs ==
    [e \in {"PG_VERSION", "postgresql.auto.conf", "recovery.signal", "backup.manifest",
            "postmaster.pid", "d", "global", "ts"} |-> "pg_data"]
    @@ [e \in {"pg_control", "pg_control.tmp", "a"} |-> "global"]
    @@ ("t" :> "ts") @@ ("junk" :> "d")

F(v, t, sz, b, r, o, blk) ==
    [ver |-> v, time |-> t, size |-> sz, bundle |-> b, ref |-> r, offset |-> o, block |-> blk, mark |-> "none"]

\* The first backup is offline and has no tablespace; the second is built on it
\* and one of its files was changed in the second in which the copy began.
Backups ==
    << [online |-> FALSE, copyStart |-> 3, path |-> {"global"},
        file |-> ("PG_VERSION" :> F(1, 1, 1, 1, 0, 0, FALSE)) @@ ("pg_control" :> F(1, 1, 2, 0, 0, 0, FALSE))
              @@ ("a" :> F(1, 1, 1, 1, 0, 1, TRUE))
              @@ ("postgresql.auto.conf" :> [F(1, 1, 1, 1, 0, 2, FALSE) EXCEPT !.mark = "default"])],
       [online |-> TRUE, copyStart |-> 5, path |-> {"global", "ts"},
        file |-> ("PG_VERSION" :> F(1, 1, 1, 1, 1, 0, FALSE)) @@ ("pg_control" :> F(2, 4, 2, 0, 0, 0, FALSE))
              @@ ("a" :> F(2, 5, 3, 0, 0, 0, TRUE)) @@ ("t" :> F(1, 2, 1, 2, 0, 0, FALSE))] >>

O(s, r, d, f, t, z) == [set |-> s, repo |-> r, delta |-> d, force |-> f, type |-> t, zero |-> z]
OptionsAll ==
    {O(1, 1, FALSE, FALSE, "none", {}), O(2, 1, TRUE, FALSE, "default", {"t"}),
     O(2, 1, TRUE, TRUE, "none", {}), O(1, 2, TRUE, FALSE, "preserve", {})}

Base == {"PG_VERSION", "pg_control", "global", "a"}
ClustersAll ==
    {Contents({}, << >>),
     Contents({"d", "junk"}, [e \in {"d", "junk"} |-> Has(1, 1)]),
     Contents(Base \cup {"d", "junk", "ts", "t", "recovery.signal"},
              [e \in Base \cup {"d", "junk", "ts", "t", "recovery.signal"} |->
                    IF e = "a" THEN Has(99, 5) ELSE IF e = "ts" THEN [Has(1, 1) EXCEPT !.mark = "other"]
                    ELSE Has(99, 7)])}
=============================================================================
