--------------------------- MODULE MCBackupExpire ---------------------------
(* Instances of BackupExpire for TLC. *)
EXTENDS BackupExpire

Retain(t, f, d, a, y, h) ==
    [fullType |-> t, full |-> f, diff |-> d, archive |-> a, archiveType |-> y, history |-> h]
Take(k, res, pre) == [kind |-> k, resume |-> res, prelim |-> pre]

Online == {Take(k, TRUE, FALSE) : k \in 0..2}
Every == Online \cup {Take(0, TRUE, TRUE), Take(0, FALSE, FALSE)}

Configs == {Retain("count", 2, 1, 2, 2, 0), Retain("time", 1, 0, 0, 0, MaxTime)}
ThreeFull == {Retain("count", 3, 0, 1, 0, MaxTime)}
NoHistory == {Retain("count", 2, 0, 0, 0, 0)}
FullDiff == {Take(k, TRUE, FALSE) : k \in 0..1}
FullOnly == {Take(0, TRUE, FALSE)}
=============================================================================
