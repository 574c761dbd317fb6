------------------------ MODULE SchedulerProperties ------------------------
(***************************************************************************)
(* What the scheduler guarantees, stated over the state of module          *)
(* Scheduler: conservation of slots, ownership of tasks, wakeups that are  *)
(* not lost, a stop that leaves nothing behind, and the refinement of the  *)
(* abstract specification TaskLifecycle.                                   *)
(***************************************************************************)
EXTENDS Scheduler

-----------------------------------------------------------------------------
(* Safety.                                                                 *)

\* No slot is leaked or released twice: the free permits and the ids that
\* hold one always add up to max_outstanding_tasks.
SlotAccounting == slots + Cardinality(outstanding) = MaxOutstanding

\* The ids that hold a slot are exactly the tasks that are not finished and
\* the ones whose finishing thread has not reached its release yet.
AboutToRelease(t) ==
    \/ \E r \in Run : exec[r].task = t /\ exec[r].pc = "record"
    \/ failPc = "release" /\ failTask = t

OutstandingExact ==
    \A t \in Task : t \in outstanding <=> status[t] \in Live \/ AboutToRelease(t)

\* Nobody loses a task and no two threads have the same one: a PENDING record
\* is in the heap or in the hands of one worker, a RUNNING one with a worker
\* about to execute it or in one execution that has not updated it, and a
\* record that is finished or gone is being executed by nobody.
Holding(t, pc) == {w \in Worker : workerPc[w] = pc /\ workerEntry[w].id = t}
Executing(t)   == {r \in Run : exec[r].task = t /\ exec[r].pc \in {"flying", "update"}}

OneOwner ==
    \A t \in Task :
        LET queued  == Cardinality({e \in pending : e.id = t})
            starting == Cardinality(Holding(t, "run"))
            running == Cardinality(Holding(t, "execute")) + Cardinality(Executing(t))
        IN  /\ status[t] = "PENDING" => queued + starting = 1
            /\ running = IF status[t] = "RUNNING" THEN 1 ELSE 0

\* No wakeup is lost: a worker waits beside a queued task, or beside the stop
\* flag, only while the thread that caused it is still on its way to
\* notify_all (or was thrown out of submit by a trace sink, or out of stop by
\* strategy.close(), see README.md); and so does a caller of query beside a
\* finished task.
WorkerWakeup ==
    \A w \in Worker \cap waitSet :
        /\ pending # {} /\ ~closed =>
               \E c \in Client : \/ clientPc[c] \in {"record", "notify"}
                               \/ outcome[c] = "SINK_ERROR"
        /\ closed => stopPc \in {"close", "closing", "notify"} \/ CloseRaised

CallerWakeup ==
    \A c \in Client \cap waitSet :
        LET t == call[c].task
        IN  status[t] \notin Live =>
               \/ \E r \in Run : exec[r].task = t /\ exec[r].pc \in {"record", "notify"}
               \/ failPc \in {"update", "release", "notify"}

\* A coroutine that awaits its future still has a thread that will resolve it.
AsyncWakeup ==
    \A c \in Client :
        LET t == call[c].task
        IN  clientPc[c] = "await" /\ c \notin resolved =>
               /\ asyncWaiter[t] = c
               /\ \/ status[t] \in Live
                  \/ \E r \in Run : /\ exec[r].task = t
                                    /\ exec[r].pc \in {"record", "notify", "resolve"}
                  \/ failPc = "release" /\ failTask = t

\* Once the last worker thread of a stopped scheduler is gone and stop is not
\* running, whether it returned or raised, no task is left behind: none is
\* PENDING, and a RUNNING one is an execution whose future the strategy still
\* owes, or whose callback is about to write the outcome.
NothingLeftBehind ==
    closed /\ stopPc = "idle" /\ threads = {} =>
        \A t \in Task :
            /\ status[t] # "PENDING"
            /\ status[t] = "RUNNING" => Executing(t) # {}

\* submit_and_wait and submit_and_wait_async return the outcome of the task, or
\* refuse the submission, or time out when they were given a timeout, or hand
\* on the exception of a trace sink; the task is not found only when records
\* are consumed or evicted.
MayLose ==
    RetainLimit > 0 \/ \E c \in Client : clientPc[c] # "idle" /\ call[c].consume

WaitersGetOutcome ==
    \A c \in Client :
        clientPc[c] = "done" /\ call[c].api \in {"wait", "async"} =>
            \/ outcome[c] \in Terminal \cup {"INVALID_STATE", "INVALID_REQUEST", "OVERLOADED"}
            \/ outcome[c] = "TIMEOUT" /\ call[c].timed
            \/ outcome[c] = "NOT_FOUND" /\ MayLose
            \/ outcome[c] = "SINK_ERROR" /\ SinkMayRaise

\* At most one consuming call gets the outcome of a task.
ConsumedOnce ==
    \A c, d \in Client :
        /\ {clientPc[c], clientPc[d]} = {"done"}
        /\ {outcome[c], outcome[d]} \subseteq Terminal
        /\ call[c].consume /\ call[d].consume
        /\ call[c].task = call[d].task
        => c = d

\* The counters never run ahead of the tasks and the in-flight gauge never
\* reads less than the submissions counted and not finished.
MetricsConsistent ==
    LET finished == finishedTotal["COMPLETED"] + finishedTotal["FAILED"]
    IN  /\ submittedTotal <= sequence
        /\ startedTotal <= sequence
        /\ finished <= startedTotal
        /\ inflight + finished >= submittedTotal

\* When every call has returned and no work is left, what was started was
\* finished, and what was submitted and not finished are the tasks that were
\* never started: those that stop() failed, which are counted nowhere.
CountersSettle ==
    LET finished == finishedTotal["COMPLETED"] + finishedTotal["FAILED"]
    IN  AtRest =>
           /\ startedTotal = finished
           /\ submittedTotal =
                 finished + Cardinality({r \in Run : exec[r].pc = "queued"})

\* A finished task keeps its outcome until its record is dropped: stop, a late
\* callback and a worker never overwrite one another's verdict.
OutcomeStable ==
    [][\A t \in Task :
          status[t] \in Terminal => status'[t] \in {status[t], "absent"}]_vars

-----------------------------------------------------------------------------
(* Liveness, under FairSpec.                                               *)

\* Every call returns, and the scheduler may be stopped at any moment.  If
\* strategy.close() raised out of stop(), stop() has to be called again until
\* close() returns: before that, calls without a timeout may wait for ever.
CallsReturn ==
    <>[]~CloseRaised => \A c \in Client : clientPc[c] # "idle" ~> clientPc[c] = "done"

\* stop() returns or raises: it does not wait for the futures.
StopTerminates == stopPc # "idle" ~> stopPc = "idle"

-----------------------------------------------------------------------------
(* The scheduler implements TaskLifecycle.  A record that is absent after  *)
(* its id was accepted has been forgotten.                                 *)
Accepted(t) == \E r \in Run : exec[r].task = t

Lifecycle ==
    INSTANCE TaskLifecycle WITH
        Request  <- Task,
        Capacity <- MaxOutstanding,
        phase    <- [t \in Task |-> IF status[t] # "absent" THEN status[t]
                                    ELSE IF Accepted(t) THEN "gone" ELSE "new"],
        held     <- outstanding

ImplementsLifecycle == Lifecycle!Spec

\* What is admitted finishes and gives its place back, unless strategy.close()
\* raised out of stop() and stop() was not called again.
ImplementsFairLifecycle == Lifecycle!Spec /\ (<>[]~CloseRaised => Lifecycle!Fairness)

-----------------------------------------------------------------------------
(* What the documentation and the tests say, and the code does not keep.   *)

\* "The same TaskRequest can only be submitted once" (README.md:135): no two
\* accepted submissions carry the same id.
AcceptedOnce ==
    \A r, q \in Run : exec[r].task = exec[q].task /\ exec[r].task # None => r = q

\* "Current inflight tasks." (the HELP text of the gauge) is zero when every
\* call has returned and no task is left (tests/test_observability.py:109).
GaugeAtRest == AtRest => inflight = 0

\* A call that waits for a task that disappears is told so (the test
\* test_query_wait_raises_not_found_when_task_disappears_during_wait): the
\* asynchronous wait returns as well.
AsyncCallsReturn ==
    \A c \in Client : clientPc[c] = "await" ~> clientPc[c] = "done"
=============================================================================
