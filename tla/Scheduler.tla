----------------------------- MODULE Scheduler -----------------------------
(***************************************************************************)
(* TaskScheduler (src/infly/runtime/scheduler.py) over the in-memory       *)
(* backend and the instrumentation: client threads and coroutines that     *)
(* submit, wait, query and consume; worker threads that pull and run;      *)
(* completion callbacks on whatever thread finishes the strategy's future; *)
(* and a thread that stops the scheduler.                                  *)
(*                                                                         *)
(* The execution strategy is the port of src/infly/core/ports.py: execute  *)
(* raises, returns a finished future, or returns one that finishes later.  *)
(* Once close was called it hands out failed futures only; close fails     *)
(* futures that are left and then returns, or raises, whether or not       *)
(* other threads of the strategy still have futures in their hands.        *)
(*                                                                         *)
(* Steps of one thread are merged only where no other thread can tell the  *)
(* difference; README.md gives the argument for each.                      *)
(***************************************************************************)
EXTENDS TaskBackend, Instrumentation

CONSTANTS
    Worker,          \* the scheduler's worker threads (num_threads of them)
    Client,          \* callers, each making one call
    Call,            \* the calls clients may make, a subset of CallKind
    MaxOutstanding,  \* max_outstanding_tasks
    StrategyOutcome, \* how an execution may end before the strategy is closed
    Resubmit,        \* may an id that was handed to submit be submitted again?
    MayStop,         \* does anyone call stop()?
    SinkMayRaise,    \* may a trace sink raise?
    CloseMayRaise,   \* may strategy.close() raise?
    Stopper,         \* the thread that calls stop()
    None             \* no thread, no task, no client

\* submit, submit_and_wait, submit_and_wait_async, query(wait=True) and
\* query(wait=False).
CallKind == [api     : {"submit", "wait", "async", "query", "look"},
             timed   : BOOLEAN,   \* with a timeout
             consume : BOOLEAN]   \* consume=True

Reader == {"query", "look"}

ASSUME WorkerAssumption      == IsFiniteSet(Worker) /\ Worker # {}
ASSUME CallAssumption        == Call \subseteq CallKind
ASSUME OutstandingAssumption == MaxOutstanding \in Nat \ {0}
ASSUME OutcomeAssumption     == StrategyOutcome \subseteq Terminal
ASSUME SwitchAssumption      ==
    {Resubmit, MayStop, SinkMayRaise, CloseMayRaise} \subseteq BOOLEAN
ASSUME ActorAssumption ==
    /\ Worker \cap Client = {}
    /\ Stopper \notin Worker \cup Client
    /\ None \notin Task \cup Worker \cup Client \cup {Stopper} \cup HeapEntry

\* An accepted submission is named by its heap sequence number.
Run == 0 .. MaxSequence - 1

VARIABLES
    slots,          \* free permits of _outstanding_slots
    outstanding,    \* _outstanding_task_ids
    waitSet,        \* threads blocked in _condition.wait()
    asyncWaiter,    \* _async_waiters: the coroutine registered for a task
    resolved,       \* coroutines whose future was handed its result
    lifecycleLock,  \* holder of _lifecycle_lock
    threadsLock,    \* holder of _threads_lock
    closed,         \* _stop, _closed and not _accepting, always set together
    threads,        \* _threads
    workerPc,       \* where a worker thread is
    workerEntry,    \* the heap entry a worker pulled
    refusing,       \* strategy.close() was called: it takes no more requests
    strategyClosed, \* _strategy_closed: strategy.close() returned
    exec,           \* the execution of each accepted submission
    clientPc,       \* where a caller is
    call,           \* what it called
    expired,        \* callers whose deadline passed
    outcome,        \* what the call returned or raised
    stopPc,         \* where the stopping thread is
    failPc,         \* where the thread in _fail_pending_tasks is
    failBy,         \* that thread
    failTodo,       \* the records it still has to fail
    failTask        \* the record it is failing

admissionVars == <<slots, outstanding>>
asyncVars     == <<asyncWaiter, resolved>>
workerVars    == <<threads, workerPc, workerEntry>>
clientVars    == <<clientPc, call, expired, outcome>>
failVars      == <<failPc, failBy, failTodo, failTask>>
stopVars      == <<closed, refusing, strategyClosed, stopPc>>
lockVars      == <<lifecycleLock, threadsLock>>
taskVars      == <<backendVars, metricsVars, admissionVars>>
shutdownVars  == <<failVars, stopVars, lockVars>>

vars == <<taskVars, waitSet, asyncVars, workerVars, clientVars, shutdownVars, exec>>

NoRun == [pc |-> "none", task |-> None, outcome |-> "none", by |-> None]
Queued(t) == [NoRun EXCEPT !.pc = "queued", !.task = t]

Init ==
    /\ BackendInit
    /\ MetricsInit
    /\ slots = MaxOutstanding
    /\ outstanding = {}
    /\ waitSet = {}
    /\ asyncWaiter = [t \in Task |-> None]
    /\ resolved = {}
    /\ lifecycleLock = None
    /\ threadsLock = None
    /\ closed = FALSE
    /\ threads = {}
    /\ workerPc = [w \in Worker |-> "none"]
    /\ workerEntry = [w \in Worker |-> None]
    /\ refusing = FALSE
    /\ strategyClosed = FALSE
    /\ exec = [r \in Run |-> NoRun]
    /\ clientPc = [c \in Client |-> "idle"]
    /\ call = [c \in Client |-> None]
    /\ expired = {}
    /\ outcome = [c \in Client |-> "none"]
    /\ stopPc = "idle"
    /\ failPc = "idle"
    /\ failBy = None
    /\ failTodo = {}
    /\ failTask = None

-----------------------------------------------------------------------------
(* Steps shared by several methods.                                        *)

(* The operators named Bug... are faulty variants of the definition that    *)
(* follows them.  No action uses them: each shows that a property notices   *)
(* the mistake.                                                            *)

\* notify() for notify_all().
BugNotifyOne ==
    IF waitSet = {} THEN UNCHANGED waitSet
                    ELSE \E x \in waitSet : waitSet' = waitSet \ {x}

\* _notify_waiters: every thread in the wait set may run again.
NotifyWaiters == waitSet' = {}

\* The semaphore is not released.
BugPermitKept(t) == outstanding' = outstanding \ {t} /\ UNCHANGED slots

\* _release_outstanding_slot: nothing when the id holds no slot.
ReleaseSlot(t) ==
    IF t \in outstanding
    THEN /\ outstanding' = outstanding \ {t}
         /\ slots' = slots + 1
    ELSE UNCHANGED admissionVars

\* _resolve_async_waiter: the registered future, if any, is popped and set.
ResolveAsyncWaiter(t) ==
    /\ asyncWaiter' = [asyncWaiter EXCEPT ![t] = None]
    /\ resolved' = IF asyncWaiter[t] = None THEN resolved
                                            ELSE resolved \cup {asyncWaiter[t]}

\* The call of client c returns (or raises) o.
Return(c, o) ==
    /\ clientPc' = [clientPc EXCEPT ![c] = "done"]
    /\ outcome' = [outcome EXCEPT ![c] = o]
    /\ UNCHANGED <<call, expired>>

GoTo(c, pc) ==
    /\ clientPc' = [clientPc EXCEPT ![c] = pc]
    /\ UNCHANGED <<call, expired, outcome>>

WorkerGoTo(w, pc) ==
    /\ workerPc' = [workerPc EXCEPT ![w] = pc]
    /\ UNCHANGED <<threads, workerEntry>>

-----------------------------------------------------------------------------
(* submit, called by every client but the pure readers.                    *)

\* The id of a request no client has handed to submit.
Unused(t) ==
    /\ \A r \in Run : exec[r].task # t
    /\ \A c \in Client : clientPc[c] = "submit" => call[c].task # t

CallOn(k, t) ==
    [api |-> k.api, timed |-> k.timed, consume |-> k.consume, task |-> t]

\* A reader calls query(task_id, ...).
CallQuery(c, k, t) ==
    /\ clientPc[c] = "idle"
    /\ k.api \in Reader
    /\ call' = [call EXCEPT ![c] = CallOn(k, t)]
    /\ clientPc' =
          [clientPc EXCEPT ![c] = IF k.api = "query" THEN "wait" ELSE "collect"]
    /\ UNCHANGED <<taskVars, waitSet, asyncVars, workerVars, expired, outcome,
                   shutdownVars, exec>>

\* The first half of submit: start() refuses a closed scheduler and, the
\* first time, spawns the worker threads.
CallSubmit(c, k, t) ==
    /\ clientPc[c] = "idle"
    /\ k.api \notin Reader
    /\ Resubmit \/ Unused(t)
    /\ lifecycleLock = None
    /\ call' = [call EXCEPT ![c] = CallOn(k, t)]
    /\ IF closed
       THEN /\ clientPc' = [clientPc EXCEPT ![c] = "done"]
            /\ outcome' = [outcome EXCEPT ![c] = "INVALID_STATE"]
            /\ UNCHANGED workerVars
       ELSE /\ clientPc' = [clientPc EXCEPT ![c] = "submit"]
            /\ IF threads = {}
               THEN /\ threads' = Worker
                    /\ workerPc' = [w \in Worker |-> "pull"]
                    /\ UNCHANGED workerEntry
               ELSE UNCHANGED workerVars
            /\ UNCHANGED outcome
    /\ UNCHANGED <<taskVars, waitSet, asyncVars, expired, shutdownVars, exec>>

\* The second half takes the lifecycle lock again: closed, duplicate or
\* overloaded submissions are refused, an accepted one keeps the lock.
Refuse(c, t) ==
    /\ Return(c, IF closed THEN "INVALID_STATE"
                 ELSE IF status[t] # "absent" THEN "INVALID_REQUEST"
                 ELSE "OVERLOADED")
    /\ UNCHANGED <<backendVars, admissionVars, lifecycleLock, exec>>

Accept(c, t, p) ==
    /\ sequence < MaxSequence
    /\ slots' = slots - 1
    /\ outstanding' = outstanding \cup {t}
    /\ Submit(t, p)
    /\ exec' = [exec EXCEPT ![sequence] = Queued(t)]
    /\ lifecycleLock' = c
    /\ GoTo(c, "record")

\* The limit is not looked at.
BugNoLimit(c) ==
    LET t == call[c].task
    IN  /\ clientPc[c] = "submit"
        /\ lifecycleLock = None
        /\ IF closed \/ status[t] # "absent"
           THEN Refuse(c, t)
           ELSE \E p \in Priority :
                   /\ outstanding' = outstanding \cup {t}
                   /\ slots' = slots - 1
                   /\ Submit(t, p)
                   /\ exec' = [exec EXCEPT ![sequence] = Queued(t)]
                   /\ lifecycleLock' = c
                   /\ GoTo(c, "record")
        /\ UNCHANGED <<metricsVars, waitSet, asyncVars, workerVars, failVars,
                       stopVars, threadsLock>>

SubmitTask(c) ==
    LET t == call[c].task
    IN  /\ clientPc[c] = "submit"
        /\ lifecycleLock = None
        /\ IF closed \/ status[t] # "absent" \/ slots = 0
           THEN Refuse(c, t)
           ELSE \E p \in Priority : Accept(c, t, p)
        /\ UNCHANGED <<metricsVars, waitSet, asyncVars, workerVars, failVars,
                       stopVars, threadsLock>>

\* record_submitted comes after the task can be pulled.  It counts, then calls
\* the trace sinks: an exception of theirs leaves submit, with the task in the
\* heap and before notify_all.
RecordSubmission(c) ==
    /\ clientPc[c] = "record"
    /\ RecordSubmitted(call[c].task)
    /\ \/ GoTo(c, "notify") /\ UNCHANGED lifecycleLock
       \/ SinkMayRaise /\ Return(c, "SINK_ERROR") /\ lifecycleLock' = None
    /\ UNCHANGED <<backendVars, admissionVars, waitSet, asyncVars, workerVars,
                   failVars, stopVars, threadsLock, exec>>

\* Wake the workers, release the lifecycle lock, return the id or wait.
NotifySubmission(c) ==
    /\ clientPc[c] = "notify"
    /\ NotifyWaiters
    /\ lifecycleLock' = None
    /\ \/ call[c].api = "submit" /\ Return(c, "SUBMITTED")
       \/ call[c].api = "wait"   /\ GoTo(c, "wait")
       \/ call[c].api = "async"  /\ GoTo(c, "register")
    /\ UNCHANGED <<taskVars, asyncVars, workerVars, failVars, stopVars, threadsLock,
                   exec>>

-----------------------------------------------------------------------------
(* Waiting and reading.                                                    *)

\* _read_terminal_response and the branches before it.
ReadResponse(c) ==
    LET t == call[c].task
    IN  IF status[t] = "absent"
        THEN Return(c, "NOT_FOUND") /\ UNCHANGED backendVars
        ELSE Return(c, status[t]) /\ Read(t, call[c].consume)

\* One turn of the loop in _wait_for_terminal_response, under _condition.
WaitTerminal(c) ==
    LET t == call[c].task
    IN  /\ clientPc[c] = "wait"
        /\ c \notin waitSet
        /\ \/ /\ status[t] \notin Live
              /\ ReadResponse(c)
              /\ UNCHANGED waitSet
           \/ /\ status[t] \in Live
              /\ c \in expired
              /\ Return(c, "TIMEOUT")
              /\ UNCHANGED <<backendVars, waitSet>>
           \/ /\ status[t] \in Live
              /\ c \notin expired
              /\ waitSet' = waitSet \cup {c}
              /\ UNCHANGED <<backendVars, clientVars>>
        /\ UNCHANGED <<metricsVars, admissionVars, asyncVars, workerVars,
                       shutdownVars, exec>>

\* A timed wait(min(remaining, 0.1)) ends by itself at the poll interval ...
PollWake(c) ==
    /\ clientPc[c] = "wait"
    /\ call[c].timed
    /\ c \in waitSet
    /\ waitSet' = waitSet \ {c}
    /\ UNCHANGED <<taskVars, asyncVars, workerVars, clientVars, shutdownVars, exec>>

\* ... or at the deadline, which may also pass while the thread is runnable.
DeadlinePasses(c) ==
    /\ clientPc[c] = "wait"
    /\ call[c].timed
    /\ c \notin expired
    /\ expired' = expired \cup {c}
    /\ waitSet' = waitSet \ {c}
    /\ UNCHANGED <<taskVars, asyncVars, workerVars, clientPc, call, outcome,
                   shutdownVars, exec>>

\* submit_and_wait_async registers its future after submit returned ...
RegisterAsync(c) ==
    /\ clientPc[c] = "register"
    /\ asyncWaiter' = [asyncWaiter EXCEPT ![call[c].task] = c]
    /\ GoTo(c, "check")
    /\ UNCHANGED <<taskVars, waitSet, resolved, workerVars, shutdownVars, exec>>

\* Any record is taken for a finished one.
BugCheckAnyRecord(c) ==
    LET t == call[c].task
    IN  /\ clientPc[c] = "check"
        /\ IF status[t] # "absent"
           THEN ResolveAsyncWaiter(t) /\ GoTo(c, "collect")
           ELSE GoTo(c, "await") /\ UNCHANGED asyncVars
        /\ UNCHANGED <<taskVars, waitSet, workerVars, shutdownVars, exec>>

\* ... and looks whether the task finished before that.
CheckAsync(c) ==
    LET t == call[c].task
    IN  /\ clientPc[c] = "check"
        /\ IF status[t] \in Terminal
           THEN ResolveAsyncWaiter(t) /\ GoTo(c, "collect")
           ELSE GoTo(c, "await") /\ UNCHANGED asyncVars
        /\ UNCHANGED <<taskVars, waitSet, workerVars, shutdownVars, exec>>

\* The await ends with the result or at the timeout; either way the finally
\* clause drops the registration.
AwaitEnds(c) ==
    /\ clientPc[c] = "await"
    /\ \/ c \in resolved /\ GoTo(c, "collect")
       \/ call[c].timed /\ Return(c, "TIMEOUT")
    /\ asyncWaiter' = [asyncWaiter EXCEPT ![call[c].task] = None]
    /\ UNCHANGED <<taskVars, waitSet, resolved, workerVars, shutdownVars, exec>>

\* query(wait=False): a live record is returned as it is.
Collect(c) ==
    LET t == call[c].task
    IN  /\ clientPc[c] = "collect"
        /\ \/ status[t] \in Live /\ Return(c, status[t]) /\ UNCHANGED backendVars
           \/ status[t] \notin Live /\ ReadResponse(c)
        /\ UNCHANGED <<metricsVars, admissionVars, waitSet, asyncVars, workerVars,
                       shutdownVars, exec>>

ClientStep(c) ==
    \/ SubmitTask(c)       \/ RecordSubmission(c) \/ NotifySubmission(c)
    \/ WaitTerminal(c)     \/ PollWake(c)         \/ DeadlinePasses(c)
    \/ RegisterAsync(c)    \/ CheckAsync(c)       \/ AwaitEnds(c)
    \/ Collect(c)

-----------------------------------------------------------------------------
(* The worker threads: _worker_loop.                                       *)

\* _pull_task_or_none, under _condition: stop, pull or wait.
PullTask(w) ==
    /\ workerPc[w] = "pull"
    /\ w \notin waitSet
    /\ \/ /\ closed
          /\ WorkerGoTo(w, "exit")
          /\ UNCHANGED <<backendVars, waitSet>>
       \/ /\ ~closed
          /\ \E e \in pending :
                /\ Pull(e)
                /\ workerPc' = [workerPc EXCEPT ![w] = "run"]
                /\ workerEntry' = [workerEntry EXCEPT ![w] = e]
          /\ UNCHANGED <<threads, waitSet>>
       \/ /\ ~closed
          /\ pending = {}
          /\ waitSet' = waitSet \cup {w}
          /\ UNCHANGED <<backendVars, workerVars>>
    /\ UNCHANGED <<metricsVars, admissionVars, asyncVars, clientVars, shutdownVars,
                   exec>>

\* exec[r] enters the completion path with outcome o, on thread by.
Finishing(r, o, by) ==
    [exec EXCEPT ![r].pc = "update", ![r].outcome = o, ![r].by = by]

\* The head of _run_task: an entry whose record is gone or no longer PENDING
\* is skipped, another one is marked RUNNING and counted.  If a trace sink
\* raises then, _handle_worker_loop_task_failure fails the task on this thread.
StartTask(w) ==
    LET t == workerEntry[w].id
    IN  /\ workerPc[w] = "run"
        /\ \/ /\ status[t] = "PENDING"
              /\ UpdateStatus(t, "RUNNING")
              /\ RecordStarted
              /\ \/ WorkerGoTo(w, "execute") /\ UNCHANGED exec
                 \/ /\ SinkMayRaise
                    /\ exec' = Finishing(workerEntry[w].seq, "FAILED", w)
                    /\ WorkerGoTo(w, "callback")
           \/ /\ status[t] # "PENDING"
              /\ WorkerGoTo(w, "pull")
              /\ UNCHANGED <<backendVars, metricsVars, exec>>
        /\ UNCHANGED <<admissionVars, waitSet, asyncVars, clientVars, shutdownVars>>

\* strategy.execute raises (_fail_task) or returns a future that is already
\* finished (add_done_callback calls _complete_task at once): either way the
\* worker itself walks the completion path.  A closed strategy only raises.
ExecuteInline(w) ==
    /\ workerPc[w] = "execute"
    /\ \E o \in IF refusing THEN {"FAILED"} ELSE StrategyOutcome :
          exec' = Finishing(workerEntry[w].seq, o, w)
    /\ WorkerGoTo(w, "callback")
    /\ UNCHANGED <<taskVars, waitSet, asyncVars, clientVars, shutdownVars>>

\* strategy.execute returns a future that some thread of the strategy will
\* finish; the worker goes back to pulling.
ExecuteLater(w) ==
    /\ workerPc[w] = "execute"
    /\ ~refusing
    /\ exec' = [exec EXCEPT ![workerEntry[w].seq].pc = "flying"]
    /\ WorkerGoTo(w, "pull")
    /\ UNCHANGED <<taskVars, waitSet, asyncVars, clientVars, shutdownVars>>

\* A thread of the strategy finishes a future; once close was called it may
\* also be one that fails what it had taken, see module ProcessPool.
FutureDone(r) ==
    /\ exec[r].pc = "flying"
    /\ \E o \in StrategyOutcome \cup (IF refusing THEN {"FAILED"} ELSE {}) :
          exec' = Finishing(r, o, None)
    /\ UNCHANGED <<taskVars, waitSet, asyncVars, workerVars, clientVars,
                   shutdownVars>>

-----------------------------------------------------------------------------
(* The completion path: _complete_task, _fail_task or                      *)
(* _handle_worker_loop_task_failure, then _finish_execution, on the thread *)
(* exec[r].by.  A trace sink that raises here is caught on the way and     *)
(* changes nothing: _finish_execution runs all the same.                   *)

ExecGoTo(r, pc) == exec' = [exec EXCEPT ![r].pc = pc]

\* update_status with the outcome.
CompleteUpdate(r) ==
    /\ exec[r].pc = "update"
    /\ UpdateStatus(exec[r].task, exec[r].outcome)
    /\ ExecGoTo(r, "record")
    /\ UNCHANGED <<metricsVars, admissionVars, waitSet, asyncVars, workerVars,
                   clientVars, shutdownVars>>

\* An outcome other than COMPLETED is not counted.
BugReleaseUncounted(r) ==
    /\ exec[r].pc = "record"
    /\ IF exec[r].outcome = "COMPLETED"
       THEN RecordFinished(exec[r].task, exec[r].outcome)
       ELSE UNCHANGED metricsVars
    /\ ReleaseSlot(exec[r].task)
    /\ ExecGoTo(r, "notify")
    /\ UNCHANGED <<backendVars, waitSet, asyncVars, workerVars, clientVars,
                   shutdownVars>>

\* record_completed or record_failed, then _release_outstanding_slot.
CompleteRelease(r) ==
    /\ exec[r].pc = "record"
    /\ RecordFinished(exec[r].task, exec[r].outcome)
    /\ ReleaseSlot(exec[r].task)
    /\ ExecGoTo(r, "notify")
    /\ UNCHANGED <<backendVars, waitSet, asyncVars, workerVars, clientVars,
                   shutdownVars>>

\* The waiters are not told.
BugCompleteSilently(r) ==
    /\ exec[r].pc = "notify"
    /\ ExecGoTo(r, "resolve")
    /\ UNCHANGED <<taskVars, waitSet, asyncVars, workerVars, clientVars, shutdownVars>>

CompleteNotify(r) ==
    /\ exec[r].pc = "notify"
    /\ NotifyWaiters
    /\ ExecGoTo(r, "resolve")
    /\ UNCHANGED <<taskVars, asyncVars, workerVars, clientVars, shutdownVars>>

\* The last step; a worker that ran the path inline returns to its loop.
CompleteResolve(r) ==
    /\ exec[r].pc = "resolve"
    /\ ResolveAsyncWaiter(exec[r].task)
    /\ exec' = [exec EXCEPT ![r].pc = "done", ![r].by = None]
    /\ IF exec[r].by \in Worker
       THEN WorkerGoTo(exec[r].by, "pull")
       ELSE UNCHANGED workerVars
    /\ UNCHANGED <<taskVars, waitSet, clientVars, shutdownVars>>

CompletionStep(r) ==
    \/ CompleteUpdate(r) \/ CompleteRelease(r)
    \/ CompleteNotify(r) \/ CompleteResolve(r)

-----------------------------------------------------------------------------
(* _fail_pending_tasks, on the last worker to exit or on the stopper.      *)

\* The status is not looked at; nothing is found.
BugEveryLiveTask == {t \in outstanding : status[t] \in Live}
BugNothingFound  == {}

\* The snapshot: outstanding ids whose record is still PENDING.
NeverStarted == {t \in outstanding : status[t] = "PENDING"}

\* The empty snapshot is forgotten.
BugFailBegin(by) ==
    /\ failPc' = "update"
    /\ failBy' = by
    /\ failTodo' = NeverStarted
    /\ UNCHANGED failTask

FailBegin(by) ==
    /\ failPc' = IF NeverStarted = {} THEN "done" ELSE "update"
    /\ failBy' = by
    /\ failTodo' = NeverStarted
    /\ UNCHANGED failTask

\* Each record of the snapshot is failed ...
FailUpdate ==
    /\ failPc = "update"
    /\ \E t \in failTodo :
          /\ UpdateStatus(t, "FAILED")
          /\ failTask' = t
          /\ failTodo' = failTodo \ {t}
    /\ failPc' = "release"
    /\ UNCHANGED <<metricsVars, admissionVars, waitSet, asyncVars, workerVars,
                   clientVars, failBy, stopVars, lockVars, exec>>

\* The slot is kept; the coroutine is left alone.
BugFailKeepsSlot ==
    /\ failPc = "release"
    /\ ResolveAsyncWaiter(failTask)
    /\ failPc' = IF failTodo = {} THEN "notify" ELSE "update"
    /\ failTask' = None
    /\ UNCHANGED <<taskVars, waitSet, workerVars, clientVars, failBy, failTodo,
                   stopVars, lockVars, exec>>

BugFailLeavesAsync ==
    /\ failPc = "release"
    /\ ReleaseSlot(failTask)
    /\ failPc' = IF failTodo = {} THEN "notify" ELSE "update"
    /\ failTask' = None
    /\ UNCHANGED <<backendVars, metricsVars, waitSet, asyncVars, workerVars, clientVars,
                   failBy, failTodo, stopVars, lockVars, exec>>

\* ... then its slot is released and its coroutine resolved.
FailRelease ==
    /\ failPc = "release"
    /\ ReleaseSlot(failTask)
    /\ ResolveAsyncWaiter(failTask)
    /\ failPc' = IF failTodo = {} THEN "notify" ELSE "update"
    /\ failTask' = None
    /\ UNCHANGED <<backendVars, metricsVars, waitSet, workerVars, clientVars,
                   failBy, failTodo, stopVars, lockVars, exec>>

\* The waiters are notified once, after the last record.
FailNotify ==
    /\ failPc = "notify"
    /\ NotifyWaiters
    /\ failPc' = "done"
    /\ UNCHANGED <<taskVars, asyncVars, workerVars, clientVars, failBy, failTodo,
                   failTask, stopVars, lockVars, exec>>

FailStep == FailUpdate \/ FailRelease \/ FailNotify

FailEnds == failPc' = "idle" /\ failBy' = None /\ UNCHANGED <<failTodo, failTask>>

-----------------------------------------------------------------------------
(* _worker_exited: under _threads_lock the last worker fails what is       *)
(* pending before it leaves _threads.                                      *)
IsLastWorker(w) == \A x \in threads : x = w \/ workerPc[x] = "dead"

WorkerLeaves(w) ==
    /\ threads' = threads \ {w}
    /\ workerPc' = [workerPc EXCEPT ![w] = "dead"]
    /\ UNCHANGED workerEntry

\* The last worker leaves the pending tasks to stop(), which may be over.
BugExitLeavesPending(w) ==
    /\ workerPc[w] = "exit"
    /\ threadsLock = None
    /\ WorkerLeaves(w)
    /\ UNCHANGED <<taskVars, waitSet, asyncVars, clientVars, shutdownVars, exec>>

WorkerExit(w) ==
    /\ workerPc[w] = "exit"
    /\ threadsLock = None
    /\ IF IsLastWorker(w)
       THEN /\ FailBegin(w)
            /\ threadsLock' = w
            /\ WorkerGoTo(w, "failing")
       ELSE /\ WorkerLeaves(w)
            /\ UNCHANGED <<failVars, threadsLock>>
    /\ UNCHANGED <<taskVars, waitSet, asyncVars, clientVars, stopVars,
                   lifecycleLock, exec>>

WorkerExited(w) ==
    /\ workerPc[w] = "failing"
    /\ failPc = "done"
    /\ FailEnds
    /\ WorkerLeaves(w)
    /\ threadsLock' = None
    /\ UNCHANGED <<taskVars, waitSet, asyncVars, clientVars, stopVars,
                   lifecycleLock, exec>>

WorkerStep(w) ==
    \/ PullTask(w) \/ StartTask(w) \/ ExecuteInline(w) \/ ExecuteLater(w)
    \/ WorkerExit(w) \/ WorkerExited(w)

-----------------------------------------------------------------------------
(* stop.  It may be called again: a call after one that raised closes the  *)
(* strategy once more.  A call that finds the strategy closed and every    *)
(* thread gone has nothing to do and is left out.                          *)
StopBegin ==
    /\ MayStop
    /\ stopPc = "idle"
    /\ lifecycleLock = None
    /\ ~strategyClosed \/ threads # {}
    /\ lifecycleLock' = Stopper
    /\ closed' = TRUE
    /\ stopPc' = IF strategyClosed THEN "notify" ELSE "close"
    /\ UNCHANGED <<taskVars, waitSet, asyncVars, workerVars, clientVars, failVars,
                   refusing, strategyClosed, threadsLock, exec>>

\* strategy.close(): no new request is taken ...
CloseStrategy ==
    /\ stopPc = "close"
    /\ refusing' = TRUE
    /\ stopPc' = "closing"
    /\ UNCHANGED <<taskVars, waitSet, asyncVars, workerVars, clientVars, failVars,
                   closed, strategyClosed, lockVars, exec>>

\* ... and futures that are left are failed, the callback of one running to
\* the end on the stopping thread before the next one's.
StopperBusy == \E r \in Run : exec[r].by = Stopper

\* A future that was finished a moment ago is finished again.
BugFailDoneFuture(r) ==
    /\ stopPc = "closing"
    /\ ~StopperBusy
    /\ exec[r].pc \in {"flying", "record"}
    /\ exec' = Finishing(r, "FAILED", Stopper)
    /\ UNCHANGED <<taskVars, waitSet, asyncVars, workerVars, clientVars, shutdownVars>>

FailFuture(r) ==
    /\ stopPc = "closing"
    /\ ~StopperBusy
    /\ exec[r].pc = "flying"
    /\ exec' = Finishing(r, "FAILED", Stopper)
    /\ UNCHANGED <<taskVars, waitSet, asyncVars, workerVars, clientVars,
                   shutdownVars>>

\* close() is over, with futures left or not: it raises out of stop(), which
\* lets go of the lock and does nothing else ...
CloseRaises ==
    /\ CloseMayRaise
    /\ stopPc = "closing"
    /\ ~StopperBusy
    /\ stopPc' = "idle"
    /\ lifecycleLock' = None
    /\ UNCHANGED <<taskVars, waitSet, asyncVars, workerVars, clientVars, failVars,
                   closed, refusing, strategyClosed, threadsLock, exec>>

\* The sleeping threads are not woken.
BugStopSilently ==
    /\ \/ stopPc = "notify"
       \/ stopPc = "closing" /\ ~StopperBusy
    /\ strategyClosed' = TRUE
    /\ stopPc' = "join"
    /\ UNCHANGED <<taskVars, waitSet, asyncVars, workerVars, clientVars, failVars,
                   closed, refusing, lockVars, exec>>

\* ... or it returns, and the threads in _condition are woken.
StopNotify ==
    /\ \/ stopPc = "notify"
       \/ stopPc = "closing" /\ ~StopperBusy
    /\ strategyClosed' = TRUE
    /\ NotifyWaiters
    /\ stopPc' = "join"
    /\ UNCHANGED <<taskVars, asyncVars, workerVars, clientVars, failVars, closed,
                   refusing, lockVars, exec>>

\* The joins end with the threads or at the deadline; the threads still alive
\* are kept, and when there are none the pending tasks are failed.
JoinThreads ==
    /\ stopPc = "join"
    /\ threadsLock = None
    /\ threads' = {w \in threads : workerPc[w] # "dead"}
    /\ UNCHANGED <<workerPc, workerEntry>>
    /\ IF threads' = {}
       THEN FailBegin(Stopper) /\ stopPc' = "failing" /\ UNCHANGED lifecycleLock
       ELSE stopPc' = "idle" /\ lifecycleLock' = None /\ UNCHANGED failVars
    /\ UNCHANGED <<taskVars, waitSet, asyncVars, clientVars, closed, refusing,
                   strategyClosed, threadsLock, exec>>

StopReturns ==
    /\ stopPc = "failing"
    /\ failPc = "done"
    /\ FailEnds
    /\ stopPc' = "idle"
    /\ lifecycleLock' = None
    /\ UNCHANGED <<taskVars, waitSet, asyncVars, workerVars, clientVars, closed,
                   refusing, strategyClosed, threadsLock, exec>>

StopStep ==
    \/ CloseStrategy \/ CloseRaises \/ StopNotify \/ JoinThreads \/ StopReturns
    \/ \E r \in Run : FailFuture(r)

-----------------------------------------------------------------------------
\* No call is under way and no work is left; the workers wait, or are gone.
AtRest ==
    /\ \A c \in Client : clientPc[c] \in {"idle", "done"}
    /\ \A w \in Worker : workerPc[w] \in {"none", "dead"} \/ w \in waitSet
    /\ \A r \in Run : exec[r].pc \notin {"flying", "update", "record", "notify", "resolve"}
    /\ stopPc = "idle"

Rest == AtRest /\ UNCHANGED vars

Next ==
    \/ \E c \in Client, k \in Call, t \in Task : CallQuery(c, k, t) \/ CallSubmit(c, k, t)
    \/ \E c \in Client : ClientStep(c)
    \/ \E w \in Worker : WorkerStep(w)
    \/ \E r \in Run : FutureDone(r) \/ CompletionStep(r)
    \/ StopBegin
    \/ StopStep
    \/ FailStep
    \/ Rest

Spec == Init /\ [][Next]_vars

-----------------------------------------------------------------------------
(* Fairness.  Threads the operating system schedules do not stand still at *)
(* an enabled step, a deadline passes, close() ends, and the strategy      *)
(* finishes each future it returned, unless its close() raised: then it    *)
(* owes nothing until stop() is called again.  Nobody is obliged to call   *)
(* anything.                                                               *)
CloseRaised == closed /\ ~strategyClosed /\ stopPc = "idle"

Progress(c) ==
    \/ SubmitTask(c)    \/ RecordSubmission(c) \/ NotifySubmission(c)
    \/ WaitTerminal(c)  \/ RegisterAsync(c)    \/ CheckAsync(c)
    \/ AwaitEnds(c)     \/ Collect(c)

Fairness ==
    /\ \A c \in Client : WF_vars(Progress(c)) /\ WF_vars(DeadlinePasses(c))
    /\ \A w \in Worker : WF_vars(WorkerStep(w))
    /\ \A r \in Run : WF_vars(~CloseRaised /\ FutureDone(r))
                         /\ WF_vars(CompletionStep(r))
    /\ WF_vars(StopStep)
    /\ WF_vars(FailStep)

FairSpec == Spec /\ Fairness

-----------------------------------------------------------------------------
(* Type correctness.                                                       *)
Thread == Worker \cup Client \cup {Stopper}

ClientPc == {"idle", "submit", "record", "notify", "wait", "register", "check",
             "await", "collect", "done"}
Outcome  == Status \cup {"none", "SUBMITTED", "NOT_FOUND", "TIMEOUT", "INVALID_STATE",
                         "INVALID_REQUEST", "OVERLOADED", "SINK_ERROR"}
WorkerPc == {"none", "pull", "run", "execute", "callback", "exit", "failing", "dead"}
ExecPc   == {"none", "queued", "flying", "update", "record", "notify", "resolve", "done"}
StopPc   == {"idle", "close", "closing", "notify", "join", "failing"}
FailPc   == {"idle", "update", "release", "notify", "done"}

CallRecord == [api : {"submit", "wait", "async", "query", "look"},
               timed : BOOLEAN, consume : BOOLEAN, task : Task]
ExecRecord == [pc : ExecPc, task : Task \cup {None},
               outcome : Terminal \cup {"none"}, by : Thread \cup {None}]

TypeOK ==
    /\ BackendTypeOK
    /\ submittedTotal \in Nat
    /\ startedTotal \in Nat
    /\ finishedTotal \in [Terminal -> Nat]
    /\ inflight \in Nat
    /\ submittedAt \in SUBSET Task
    /\ slots \in Nat
    /\ outstanding \in SUBSET Task
    /\ waitSet \in SUBSET (Worker \cup Client)
    /\ asyncWaiter \in [Task -> Client \cup {None}]
    /\ resolved \in SUBSET Client
    /\ lifecycleLock \in Client \cup {Stopper, None}
    /\ threadsLock \in Worker \cup {None}
    /\ closed \in BOOLEAN
    /\ threads \in SUBSET Worker
    /\ workerPc \in [Worker -> WorkerPc]
    /\ workerEntry \in [Worker -> HeapEntry \cup {None}]
    /\ refusing \in BOOLEAN
    /\ strategyClosed \in BOOLEAN
    /\ exec \in [Run -> ExecRecord]
    /\ clientPc \in [Client -> ClientPc]
    /\ call \in [Client -> CallRecord \cup {None}]
    /\ expired \in SUBSET Client
    /\ outcome \in [Client -> Outcome]
    /\ stopPc \in StopPc
    /\ failPc \in FailPc
    /\ failBy \in Worker \cup {Stopper, None}
    /\ failTodo \in SUBSET Task
    /\ failTask \in Task \cup {None}
=============================================================================
