-------------------------- MODULE MCWorkerRouting --------------------------
(* A group of two processes, one of which may die, and two groups of one   *)
(* that are unloaded and loaded; a handler that every group serves and one *)
(* that only those two do.                                                 *)
EXTENDS WorkerRouting, TLC

CONSTANTS ga, gb, gc, every, some

MCGroup        == {ga, gb, gc}
MCProcessCount == [g \in MCGroup |-> IF g = ga THEN 2 ELSE 1]
MCOrder        == <<ga, gb>>
MCLateGroup    == {gb, gc}
MCMortal       == {<<ga, 0>>}
MCHandler      == {every, some}
MCServes       == [h \in MCHandler |-> IF h = every THEN MCGroup ELSE {gb, gc}]
=============================================================================
