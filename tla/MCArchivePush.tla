---------------------------- MODULE MCArchivePush ----------------------------
(* Instances of ArchivePush for TLC. *)
EXTENDS ArchivePush, TLC

CONSTANTS r1, r2, a1, a2, w1, w2

Symmetry == Permutations({r1, r2}) \cup Permutations({a1, a2})
=============================================================================
