---------------------------- MODULE MCScheduler ----------------------------
(* Small instances of the scheduler: the sets the configurations choose    *)
(* from.                                                                   *)
EXTENDS SchedulerProperties, TLC

CONSTANTS t1, t2, w1, w2, c1, c2, c3

OneTask      == {t1}
TwoTasks     == {t1, t2}
OneWorker    == {w1}
TwoWorkers   == {w1, w2}
TwoClients   == {c1, c2}
ThreeClients == {c1, c2, c3}

Success       == {"COMPLETED"}
EitherOutcome == {"COMPLETED", "FAILED"}
Flat          == {0}
TwoLevels     == {0, 1}

Calls(apis, timed, consume) == [api : apis, timed : timed, consume : consume]

\* Every way to submit and wait; nobody reads twice, nobody consumes.
Waiting == Calls({"wait", "async"}, {FALSE}, {FALSE})

\* Every kind of call: with a timeout where one waits for one's own task,
\* consuming where a thread reads.
Reading ==
    Calls({"wait"}, BOOLEAN, BOOLEAN) \cup Calls({"async"}, BOOLEAN, {FALSE})
        \cup Calls({"query", "look"}, {FALSE}, {TRUE}) \cup Calls({"submit"}, {FALSE}, {FALSE})

\* Threads that wait for their own task and readers of any task, consuming or
\* not.
Consuming == Calls({"wait", "query"}, {FALSE}, BOOLEAN)

\* Every way to wait.
EveryWait == Calls({"wait", "async", "query"}, BOOLEAN, {FALSE})

Symmetry ==
    Permutations(TwoTasks) \cup Permutations(TwoWorkers) \cup Permutations(ThreeClients)
=============================================================================
