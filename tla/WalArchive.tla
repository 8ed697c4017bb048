----------------------------- MODULE WalArchive -----------------------------
(***************************************************************************)
(* What archiving promises PostgreSQL: a WAL segment is acknowledged, and  *)
(* may then be recycled, only when every repository has it or when it has  *)
(* been given up.  What a repository has, it keeps.                        *)
(***************************************************************************)
CONSTANTS Seg, Repo

VARIABLES
    acked,      \* segments PostgreSQL has been told are archived
    stored,     \* stored[r]: segments repository r has
    given       \* segments given up

vars == << acked, stored, given >>

Init == acked = {} /\ stored = [r \in Repo |-> {}] /\ given = {}

Store(r, s) ==
    /\ stored' = [stored EXCEPT ![r] = @ \cup {s}]
    /\ UNCHANGED << acked, given >>

GiveUp(s) ==
    /\ given' = given \cup {s}
    /\ UNCHANGED << acked, stored >>

Acknowledge(s) ==
    /\ s \in given \/ \A r \in Repo : s \in stored[r]
    /\ acked' = acked \cup {s}
    /\ UNCHANGED << stored, given >>

Next ==
    \E s \in Seg : GiveUp(s) \/ Acknowledge(s) \/ \E r \in Repo : Store(r, s)

Spec == Init /\ [][Next]_vars
=============================================================================
