------------------------------- MODULE MCLock -------------------------------
(* Instances of Lock for TLC.  A repository host runs a stanza command that *)
(* takes both locks, a foreground archive-push that wants one of them, and  *)
(* a process the stanza command has spawned.                                *)
EXTENDS Lock, TLC

CONSTANTS p1, p2, p3, r1, f1, f2, f3, i1, i2, i3, i4, i5, x1, x2, x3

\* Two contenders at most for each of three lock files; p3 runs under p1's
\* exec-id.
PairExec == (p1 :> x1) @@ (p2 :> x2) @@ (p3 :> x1)
PairList == (p1 :> << f1, f2, f3 >>) @@ (p2 :> << f1, f2 >>) @@ (p3 :> << f3 >>)

\* Three contenders for one lock file.
ThreeExec == (p1 :> x1) @@ (p2 :> x2) @@ (p3 :> x3)
ThreeList == [p \in {p1, p2, p3} |-> << f1 >>]
=============================================================================
