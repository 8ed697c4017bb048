------------------------------- MODULE Calls -------------------------------
(***************************************************************************)
(* Code that is a function of its arguments, one call at a time: an action *)
(* picks the arguments and keeps them with the result, and an invariant    *)
(* says what the result must be.                                           *)
(***************************************************************************)

VARIABLE call       \* the call that was made, with its result

None == "none"
Error == "error"

NoCall == call = [op |-> None]

Called(op, a, result) == [op |-> op, arg |-> a, result |-> result]

Returns(op) == call.op = op
=============================================================================
