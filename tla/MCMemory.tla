------------------------------ MODULE MCMemory ------------------------------
(* The programs whose memory contexts and errors are followed.              *)
EXTENDS Memory

Catcher(catch, final) == [catch |-> catch, final |-> final]
Scope(contexts, frames, calls, errors, moves, kinds, tries) ==
    [contexts |-> contexts, frames |-> frames, calls |-> calls, errors |-> errors, moves |-> moves, kinds |-> kinds, tries |-> tries]

MCScopes ==
    {Scope(3, 2, 0, 0, 2, {<< TRUE, "good" >>}, {}),
     Scope(2, 3, 0, 1, 0, {<< TRUE, "bad" >>}, {Catcher(<< "any" >>, FALSE)}),
     Scope(2, 2, 0, 0, 1, {<< FALSE, None >>}, {}),
     Scope(1, 4, 1, 2, 0, {<< TRUE, "good" >>}, {Catcher(<< >>, TRUE), Catcher(<< "ExecuteError", "fatal" >>, FALSE)}),
     Scope(0, 4, 1, 2, 0, {}, {Catcher(<< >>, TRUE), Catcher(<< "any" >>, TRUE), Catcher(<< "ExecuteError", "fatal" >>, FALSE)})}
=============================================================================
