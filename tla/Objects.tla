------------------------------ MODULE Objects ------------------------------
(***************************************************************************)
(* An object that several calls work on, one after the other.              *)
(***************************************************************************)
EXTENDS Calls

Made(op, o) == [op |-> op, obj |-> o]
Become(o) == call' = [call EXCEPT !.obj = o]
=============================================================================
