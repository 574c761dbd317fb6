--------------------------- MODULE TaskLifecycle ---------------------------
(***************************************************************************)
(* What the scheduler promises for a task, whatever its threads do: a      *)
(* request is admitted at most once and only below the limit of tasks      *)
(* admitted and not released; it then runs at most once and finishes       *)
(* exactly once; a finished outcome never changes, it can only be          *)
(* forgotten; and the place a task takes is given back once, after it      *)
(* finished.  Module Scheduler is shown to implement this specification.   *)
(***************************************************************************)
EXTENDS Naturals, FiniteSets

CONSTANTS Request, Capacity

VARIABLES
    phase,  \* where each request is in its life
    held    \* the requests that occupy one of the Capacity places

vars == <<phase, held>>

Active   == {"PENDING", "RUNNING"}
Finished == {"COMPLETED", "FAILED"}
Phase    == Active \cup Finished \cup {"new", "gone"}

LifecycleTypeOK ==
    /\ phase \in [Request -> Phase]
    /\ held \in SUBSET Request

Init == phase = [q \in Request |-> "new"] /\ held = {}

Admit(q) ==
    /\ phase[q] = "new"
    /\ Cardinality(held) < Capacity
    /\ phase' = [phase EXCEPT ![q] = "PENDING"]
    /\ held' = held \cup {q}

Begin(q) ==
    /\ phase[q] = "PENDING"
    /\ phase' = [phase EXCEPT ![q] = "RUNNING"]
    /\ UNCHANGED held

\* A running request finishes either way; one that never ran can only fail.
\* The step may forget requests that had finished before.
Finish(q, o, forgotten) ==
    /\ phase[q] \in Active
    /\ phase[q] = "PENDING" => o = "FAILED"
    /\ \A f \in forgotten : phase[f] \in Finished
    /\ phase' = [f \in Request |-> IF f \in forgotten THEN "gone"
                                   ELSE IF f = q THEN o ELSE phase[f]]
    /\ UNCHANGED held

Forget(q) ==
    /\ phase[q] \in Finished
    /\ phase' = [phase EXCEPT ![q] = "gone"]
    /\ UNCHANGED held

Release(q) ==
    /\ q \in held
    /\ phase[q] \notin Active
    /\ held' = held \ {q}
    /\ UNCHANGED phase

FinishSome(q) ==
    \E o \in Finished, forgotten \in SUBSET Request : Finish(q, o, forgotten)

Next ==
    \E q \in Request :
        Admit(q) \/ Begin(q) \/ FinishSome(q) \/ Forget(q) \/ Release(q)

Spec == Init /\ [][Next]_vars

\* What is admitted finishes and gives its place back.
Fairness == \A q \in Request : WF_vars(FinishSome(q)) /\ WF_vars(Release(q))
=============================================================================
