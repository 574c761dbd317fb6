# A TLA+ model of infly

infly runs user handlers in worker processes. A client hands a `TaskRequest` to
`TaskScheduler`, whose threads pull it from an in-memory store and give it to an
execution strategy; `ProcessPoolStrategy` sends it to one of its processes and
finishes a future when the result, or the process's death, comes back. A log
manager per pool writes what all of these processes log. This directory specifies
that core in TLA+, checks it with TLC on small instances and proves nearly all of
its safety with TLAPS for every instance.

1. [The system](#1-the-system) · 2. [Modules](#2-modules) ·
3. [Model and code](#3-model-and-code) · 4. [What is checked](#4-what-is-checked) ·
5. [Bounds](#5-bounds-and-why-they-are-enough) · 6. [Fairness](#6-fairness) ·
7. [Where the code falls short](#7-where-the-code-falls-short) ·
8. [What is proved](#8-what-is-proved) · 9. [Not modelled](#9-what-is-not-modelled) ·
10. [Maintenance](#10-maintenance)

Paths below are relative to `src/infly/`.

## 1. The system

| Component | State it keeps | Operations | What makes it correct |
|---|---|---|---|
| Task backend, `runtime/task_backend.py` | records by id, a heap of pending ids, finish stamps, read marks, two counters | `submit`, `pull`, `get`, `read` (consuming or not), `update_status` with a prune inside, `list_all` | the indexes agree; eviction spares live records and prefers read, then older ones; the limit holds |
| Scheduler, `runtime/scheduler.py` | a semaphore of slots and the ids that hold one, a condition, worker threads, async waiters, the closed/accepting flags, two lifecycle locks | `start`, `submit`, `submit_and_wait`, `submit_and_wait_async`, `query`, `stop`; the worker loop; completion callbacks | one owner per task, one outcome, slots conserved, no lost wakeup, every call returns, nothing left after `stop` |
| Instrumentation, `runtime/observability.py` | counters, the in-flight gauge, submit times, trace sinks | `record_submitted/started/completed/failed`, snapshots | counters follow the tasks; the gauge is zero at rest |
| Process pool, `runtime/strategy/process_pool.py` | worker states with generations, futures, assignments, groups, closing flags, queues | `execute`, `register/unregister_worker_group`, `close`; result loop; supervisor; the worker processes | every future is finished once, by one party; assignments name the current launch; nothing is launched after closing |
| Worker routing (in the pool) | a smooth weight and a cursor per group, outstanding counters | select a group, order its workers, offer the request, go on if a queue refuses it | no group starves, no worker idles beside a busy one, credits stay bounded, a refusal means that nobody was there |
| Ports, `core/ports.py` | none | the protocols between the above | the contract each side relies on |
| Handler executor, registry, loader, `runtime/executor.py` … | instance cache, definitions | `execute`, `preload`, `add`, `get` | one instance per definition version |
| Logging, `runtime/log.py` | the logger's handlers, what each manager saved of them, a queue with buffers and a pipe, a listener thread with a table of file handlers | `setup_main_logging`, `setup_worker_logging`, `start`, `stop`; the listener's `_run` and `handle` | nothing on the queue is lost by `stop`, no file stays open, the logger is given back, `stop` returns |
| Configuration, contracts, errors, demo | none | validation | ranges of the parameters |

How they meet. The scheduler *calls* the backend (under the backend's own lock)
and the instrumentation; it *calls* `strategy.execute` and is *called back* by
whichever thread finishes the future: the worker thread itself when the future is
already done, the pool's result loop, its supervisor, or the thread in
`strategy.close()`. Trace sinks run inside those calls and may raise. Clients and
workers share one `Condition`; coroutines wait on
an asyncio future kept in a table. The pool shares queues with its processes and
one reentrant lock among its threads; futures are always finished outside it.
`execute` chooses a worker under that lock, while processes die and the supervisor
marks workers alive without it. Closing the pool stops its log manager; all
managers of a process share the one logger.

What is hard. Wakeups that are raised outside the lock the sleeper tests under;
completion in four separate steps; a `stop` that may time out and race the exit
of the last worker; tasks that finish before their submission is counted or their
waiter registered; records that vanish by eviction or by another consumer;
processes that die at any point; results that arrive late; a restart, a load, an
unload and a close that overlap; weights and cursors that outlive the workers they
were computed for; a listener that dies, or outlives the join of `stop`. `PROJECT.json`
lists each at its line under
`hazards`, with the properties that would notice it going wrong.

## 2. Modules

| Module | What it is |
|---|---|
| `TaskBackend` | the backend: one action per method, and its safety properties |
| `Instrumentation` | the counters: one operator per `record_` method |
| `Scheduler` | EXTENDS both; clients, workers, completions, `stop`, type invariant |
| `SchedulerProperties` | what the scheduler guarantees; the refinement of `TaskLifecycle` |
| `TaskLifecycle` | abstract specification: what a client is promised about one task |
| `ExecutionPort` | abstract specification: what the scheduler relies on from a strategy |
| `ProcessPool` | the pool's threads and processes, its properties, the refinement of `ExecutionPort` |
| `WorkerRouting` | which worker `execute` picks, step by step |
| `LogManager` | log managers, the listener thread, the queue between the processes |
| `MCTaskBackend`, `MCScheduler`, `MCProcessPool`, `MCWorkerRouting`, `MCLogManager` | small sets for TLC |
| `TaskBackendProofs` | theorems about the backend |
| `SchedulerProofs`, `OwnershipProofs`, `LifecycleProofs`, `CallerProofs` | theorems about the scheduler, each module resting on the one before |
| `ProcessPoolProofs`, `RoutingProofs`, `LogProofs` | theorems about the other three |

`Scheduler` sees its strategy as the port: `execute` raises, returns a finished
future, or returns one that some thread finishes later, once; from the moment `close`
begins it only refuses. `ProcessPool` is shown to implement that port, so the two
halves meet at `ExecutionPort` and neither is checked inside the other's state space.
The port promises nothing of `close` itself, and the scheduler relies on nothing:
`close` fails some of the futures that are left, then returns or raises, at any
moment and with futures still in the hands of other threads. That each future is
finished in the end is liveness, `FuturesFinish` of the pool, which holds unless one
of the pool's threads raised; the liveness of the scheduler assumes it only while
`close` has not raised (section 6). In the same way `ProcessPool.Execute` picks any
live group and any least busy worker in it, and `WorkerRouting` is the one that
looks at how the code picks: nothing the pool promises depends on the choice.

Operators named `Bug...` are faulty variants of the definition after them. No
action uses them; each is put in the place of the definition it varies to see
that a property notices (`mutants` in `PROJECT.json`).

## 3. Model and code

### TaskBackend

Every method holds `self._lock`, so a method is one action. A record is its
status; request, result, error and time stamps are payload nothing branches on.
`pending` is the heap as a set, `PulledBefore` its order (`(-priority, sequence)`).
The finish stamp is the pair of a clock reading and a counter, both monotonic and
taken under the lock: the counter alone orders the same way. `Evicted` is the slice
`terminal_task_ids[:-limit]`: the records with at least `limit` others after them
in the sort order.

### Scheduler

| Code | Actions |
|---|---|
| `start`, first half of `submit` | `CallSubmit` |
| critical section of `submit` | `SubmitTask` (`Refuse`, `Accept`), `RecordSubmission`, `NotifySubmission` |
| `query`, `_wait_for_terminal_response`, `_read_terminal_response` | `CallQuery`, `WaitTerminal`, `PollWake`, `DeadlinePasses`, `Collect` |
| `submit_and_wait_async` | `RegisterAsync`, `CheckAsync`, `AwaitEnds`, `Collect` |
| `_pull_task_or_none`, `_run_task` | `PullTask`, `StartTask`, `ExecuteInline`, `ExecuteLater` |
| `_handle_worker_loop_task_failure` | second disjunct of `StartTask`, then the completion actions |
| `_complete_task`, `_fail_task`, `_finish_execution` | `CompleteUpdate`, `CompleteRelease`, `CompleteNotify`, `CompleteResolve` |
| `_fail_pending_tasks` | `FailBegin`, `FailUpdate`, `FailRelease`, `FailNotify` |
| `_worker_exited` | `WorkerExit`, `WorkerExited` |
| `stop` | `StopBegin`, `CloseStrategy`, `FailFuture`, `CloseRaises` or `StopNotify`, `JoinThreads`, `StopReturns` |

A thread's steps are merged only where no other thread can tell:

- the duplicate check, the slot, the id and `backend.submit` are inside the
  lifecycle lock; other threads can touch the id only after it is in the heap,
  and a release that falls in between only adds a permit, which is the same as
  one just before or just after. Under that lock `backend.submit` cannot find
  the id taken, so its `except` branch is unreachable;
- looking at a record and acting on it (`StartTask`, `WaitTerminal`, `Collect`):
  a PENDING record in a worker's hands is changed by nobody else, and a record
  that vanishes between the two reads gives the same NOT_FOUND as one step later;
- `update_status(RUNNING)` with `record_started`, and `record_completed/failed`
  with the release of the slot: the counters are read by no step of the scheduler;
- removing the id and `semaphore.release()`: the id is gone from then on, and a
  submission in between is refused as it would be a moment before;
- `_stop`, `_closed` and `not _accepting` are set one after the other under the
  lifecycle lock; a worker that sees `_stop` a moment before the others are set
  does nothing with them. They are the one variable `closed`;
- `start` spawns all threads under the lifecycle lock;
- the release and the `_resolve_async_waiter` of `_fail_pending_tasks`.

`add_done_callback` on a future that is already done runs the callback on the
worker: `ExecuteInline`, which also stands for `execute` raising (`_fail_task`
takes the same path). A join may time out at any moment, so `JoinThreads` is
always possible; `stop` may be called again while threads remain. `Run` names
accepted submissions by their heap sequence number; `exec[r]` keeps what became
of each, the task included, which the refinement uses as history.

`SinkMayRaise` stands for trace sinks that raise, wherever `record_submitted` and
`record_started` emit to them. In `submit` (`RecordSubmission`) the exception
leaves the method after the task is in the heap and before the notification: the
caller gets an error for a task that will be run. In a worker (`StartTask`) it
reaches `_handle_worker_loop_task_failure`, which fails the task it was holding. A
sink that raises when a task ends changes nothing: the record is updated, and each
way out leads to `_finish_execution`.

`CloseMayRaise` lets `strategy.close()` raise out of `stop` after `_stop` and `_closed`
are set: the lock is released, nobody is notified or joined, no pending task is failed.
`CloseRaised` is the state this leaves until `stop` is called again, which it may be.

`Resubmit = FALSE` says that clients keep the rule of the README (one submission
per request, ids are fresh UUIDs); only the run `resubmission` lifts it.

### ProcessPool

Everything under `self._lock` is one action; every future is finished in a step
of its own, because the code finishes futures outside the lock. The five parties
that may hold an unfinished future are the table `_futures`, the result loop, the
supervisor, the caller of `close` and the administrator who unloads a group.

| Code | Actions |
|---|---|
| `execute` | `Execute` |
| `_worker_loop` of a process | `ProcessReady`, `ProcessTakes`, `ProcessFinishes`, `ProcessDies` |
| `_result_loop` | `ResultTaken`, `ResultSet`, `ResultLoopEnds` |
| `_supervisor_loop`, `_handle_worker_exit` | `SupervisorFindsExit`, `SupervisorFails`, `SupervisorDecides` |
| `_schedule_restart`, `_restart_worker`, `_await_worker_ready` | `ScheduleRestart`, `SupervisorRestarts`, `SupervisorSeesReady`, `SupervisorGivesUp`, `SupervisorCleansUp` |
| `_shutdown_after_worker_failure` | `SupervisorKills`, `SupervisorTakesAll`, `SupervisorFails`, `SupervisorEnds` |
| `close` | `CloseBegins`, `CloseSignals`, `CloseStops`, `CloseTakesAll`, `CloseFails` |
| `unregister_worker_group` | `UnloadBegins`, `AdminDisposes`, `AdminFails` |
| `register_worker_group` | `LoadBegins`, `LoadLaunches`, `LoadEnds`, `LoadFails` |

`proc[w]` tells an exited process from one whose handle was closed: `join` and
`is_alive` of the latter raise `ValueError`, and `CanStop` is where that is decided.
`_stop_process` is one step with two outcomes. The process ends and is closed
(`ProcessGone`), or, for the workers in `Stubborn`, it is alive after `terminate()`
and `join(1)`: closing its handle raises a suppressed `ValueError`, and it runs on
(`ProcessSurvives`), may take what is in its queue and answer it, and may be stopped
again. A survivor is forgotten when its worker is launched anew: that gives the worker
new queues, and nothing assigned to the launch before is registered any more. A
sentinel in a task queue ends a process like any other death, so it is not a message
of its own, and what a dead process left in its queue is dropped at once, since nobody
reads it. The result queue is a set, because results of different processes have no
order. `restarts[w]` is the length of `restart_times`, from which any number may have
left the window. `SupervisorSeesReady` sets `alive` without the lock and without
looking again at what happened to the worker meanwhile, as `_await_worker_ready` does:
if an unload or a close has stopped the process in between, the flag is set on a
closed process. Simplifications: every group serves the one handler; which worker
`execute` picks is left to `WorkerRouting`; the queues accept what is put in them;
each request is executed once (the scheduler's ids are unique); a group name is not
reused.

### WorkerRouting

| Code | Actions |
|---|---|
| `execute`, up to the choice of a group | `Begin` |
| `_select_group_locked` | `Select`, with `Earned`, `Richest`, `Charge` |
| `_ordered_workers_locked` | `Order`, with `Distance`, `OfferedBefore` |
| the loop over the workers, `put_nowait`, the cursor | `Assign`, `PutFails`, `NextCursor` |
| the end of the loops | `GroupExhausted`, `Refused` |
| a process dies; `_handle_worker_exit` | `ProcessDies`, `WorkerExit` |
| `_restart_worker`, `_await_worker_ready` | `Restart`, `RestartReady`, `RestartDone` |
| `_result_loop` | `Answer` |
| `register/unregister_worker_group` | `Load`, `Unload` |

One call of `execute` holds the lock throughout; what changes beside it is the
process (`ProcessDies`) and the flag the supervisor sets without the lock
(`RestartReady`), which is why the call is several steps. Every other action needs
the lock (`pc` idle). A death and a restart wipe out the credit of the worker's
group. Credits are kept for all handlers together, as in the code: a group that
serves two handlers pays for both out of one. `steady`, `offered`, `passed` and `idle` are
history for the properties; `Recount` starts the counts of a group, or a worker, anew
when it changes.

### LogManager

| Code | Actions |
|---|---|
| `setup_main_logging` | `SaveLogger`, `ClearLogger`, `AddHandler`: nothing locks the logger |
| `start` | `StartListener` |
| a record logged in the main process, or in a worker | `MainLogs`, `WorkerLogs`, `WorkerKilled` |
| the feeder threads of `multiprocessing.Queue` | `Feed`, `FeedFromWorker` |
| `RoutingQueueListener._run`, `handle`, `_get_file_handler` | `Take`, `PollClosedQueue`, `GetFileHandler`, `FactoryFails`, `Write` |
| `stop` of manager and listener | `StopBegin`, `JoinEnds`, `JoinTimesOut`, `CloseFiles`, `RestoreLogger`, `JoinThread` |

`multiprocessing.Queue` is external and modelled by what the code relies on: an
unbounded buffer in each process, a feeder thread, a pipe of limited size, the
order of one process kept, `get` on a closed queue raising, `join_thread` waiting
for the buffer to empty. `FactoryMayFail` is a file that cannot be opened: nothing
catches it in the listener, whose thread ends. `Startable` says which managers
somebody calls `start` of. `stack` and `nested` are history: they say which managers
are on the logger as long as setups and stops nest.

## 4. What is checked

Passing runs:

| Run | Instance | Properties |
|---|---|---|
| `backend` | 3 ids, 2 priorities, limit 2, 4 submissions | `BackendTypeOK`, `IndexConsistent`, `RetentionBound`, `LiveNeverDropped`, `UnreadEvictedLast` |
| `sched_wait` | 2 clients that submit, wait, await, query and consume; 1 worker, 2 tasks, one slot, room for 1 finished record, both outcomes, timeouts, sinks that raise | `TypeOK`, `SlotAccounting`, `CallerWakeup`, `WaitersGetOutcome`, `MetricsConsistent`, `ConsumedOnce`, `ImplementsLifecycle` |
| `sched_stop` | 2 clients, 2 workers, 2 tasks, 2 slots, `stop`, a `close` that may raise | `OutstandingExact`, `OneOwner`, `WorkerWakeup`, `NothingLeftBehind`, `AsyncWakeup`, `CountersSettle`, `OutcomeStable` |
| `sched_live` | 2 clients, every way to wait, 1 worker, 1 task, `stop`, a `close` that may raise, fairness | `CallsReturn`, `StopTerminates`, `ImplementsFairLifecycle` |
| `pool_safety` | 3 workers, 1 in a group that shuts the pool down and 2 in a group that is loaded late and restarts them; 2 requests, 2 generations, 1 restart in the window, a process that survives `terminate()`, unload, close | `PoolTypeOK`, `FutureHeldOnce`, `AssignmentsCurrent`, `RequestReachable`, `CloseLeavesNothing`, `NoLaunchAfterClose` |
| `pool_live` | 3 workers in 3 groups, one for each safety mode, one loaded late, 1 request, 2 generations, failing startups, a process that survives `terminate()`, unload, close, fairness | `ImplementsPort`, `FuturesFinish` |
| `routing` | 3 groups, one of 2 processes, one late, one mortal process, 2 handlers, failing puts, 1 unanswered request | `RoutingTypeOK`, `RefusedByAll`, `NoGroupStarves`, `NoWorkerIdles`, `CreditBounded` |
| `logging` | 2 managers, one of which is started, 2 records of the main process and 1 of a worker, 2 files, a pipe of 1, a factory that may fail, fairness | `LogTypeOK`, `DueHandled`, `FilesClosed`, `LoggerRestored`, `StopReturns` |

What they show, in the order a reader would ask:

- *A task is run and answered once.* `OneOwner` follows it from the heap to a
  worker to an execution; `OutcomeStable` says nobody overwrites a verdict;
  `WaitersGetOutcome` and `ConsumedOnce` say what callers are told of it;
  `ImplementsLifecycle` puts these together with the limit, against a specification
  without threads, locks or queues.
- *Limits hold.* `SlotAccounting` and `OutstandingExact` tie the semaphore, the set
  of ids and the records; `RetentionBound` the records kept; `CreditBounded` the
  credit a group can save up and the debt it can be in.
- *Nobody sleeps for ever.* `WorkerWakeup`, `CallerWakeup` and `AsyncWakeup` say, as
  invariants, who is still on the way to wake a sleeper; `CallsReturn` and
  `StopTerminates` say the same as liveness.
- *What stopping leaves is known.* `NothingLeftBehind` and `CountersSettle` for the
  scheduler: no task is left PENDING, and one left RUNNING is an execution whose future
  the strategy still owes. `NoLaunchAfterClose` and `CloseLeavesNothing` for the pool:
  its table holds no future, and the processes that still run are those somebody is
  about to stop and the two kinds nobody will (section 7). `DueHandled`, `FilesClosed`
  and `LoggerRestored` for logging.
- *Process death is an error, not a silence.* `FutureHeldOnce`,
  `AssignmentsCurrent`, `RequestReachable`, `ImplementsPort` and `FuturesFinish`.
- *Work is spread.* `NoGroupStarves` and `NoWorkerIdles`; and `RefusedByAll`: a call is
  refused only if every worker that was there all the time was offered it.

Properties that the code keeps only under a condition name the condition instead of
leaving the case out: `WorkerWakeup` excepts a submission whose sink raised and a
`stop` out of which `close` raised, `CallsReturn` and the fairness in
`ImplementsFairLifecycle` such a `stop` that is never followed by one that gets past
`close` (`CloseRaised`), `CloseLeavesNothing` the processes named above,
`FuturesFinish` a thread that ran into a closed process (`NothingRaised`),
`StopReturns` a pipe that is full with nobody to read it (`Clogged`), `FilesClosed` a
join that timed out, `LoggerRestored` managers that do not nest.

## 5. Bounds and why they are enough

`MaxSequence` bounds submissions (and, in `backend`, finish stamps), `MaxGeneration`
launches of a worker, `MaxOutstanding` the unanswered requests of `WorkerRouting` (in
`Scheduler` it is the code's own limit); all are guards of the actions that count. Two
workers are the fewest for which "the last worker" and a wakeup taken by the wrong
thread mean something, two clients and one slot the fewest for a refusal and for a
record that disappears under a waiter. A retention limit of one or two already
separates read from unread and old from new records. In the pool, groups with
different modes let a restart, a shutdown, a load and an unload overlap with `close`.
A group of two workers is the smallest whose unload can raise half way and abandon a
process; two generations are the fewest for a stale result, one restart in the window
the fewest for one too many. `Stubborn` is the last worker in `pool_safety`, which may
be abandoned or survive, with its request, in the pool or outside; in `pool_live` it
is the worker that is loaded late. The launch of a worker whose process survived needs
a third generation and is left to the proofs. Startups that fail without the process
dying are in `pool_live` only, which has the third safety mode as well. In `routing` a
group of two processes is the smallest with a cursor, a third group lets one be passed
over while two others change, and two handlers with different groups share one credit.
Three groups are too few to show how far a credit can swing: twice the number of
processes of the pool, a bound that holds in the run, is exceeded by groups of 8, 1, 1
and 1 processes. `CreditBound` grows with the number of groups, and section 8 proves
it. With one unanswered request no worker is busy when a request comes, so that a
worker is passed over only because of the cursor; that a busier worker is never
preferred to it is in the theorem. The retention limit in `backend` is two, and the
limit 0, which keeps every record, in `sched_stop` and `sched_live`: no property of
the backend is about it. In `logging` two managers are the fewest that nest or fail
to, and a pipe of one with three records is the smallest that clogs. Clients are
symmetric, tasks too; symmetry is used in runs without liveness properties only. What
these bounds could hide of the safety properties is what the proofs of section 8
settle.

Deadlock is checked in `sched_stop` and `routing`: `Rest` stutters when, and only
when, every call has returned, nothing executes and the workers wait or are gone,
so a state where somebody is stuck is reported. It is off where the system may
really stop: the backend when its counters reach their bound, the pool once it is
closed or all requests are answered, logging when nobody logs or a pipe is clogged,
`sched_wait` because a sink that raises in `submit` really leaves a task in the heap
beside a sleeping worker, and the runs with liveness, where a stuck caller violates
the property itself.

## 6. Fairness

Weak fairness, of each thread's next step, of a deadline, of a strategy
finishing the futures it returned, of a child process coming up (or dying while
it tries), taking a request and finishing it. This is what an operating system's
scheduler, `Condition.wait(timeout)` and a terminating handler give. No client is
obliged to call, no process is obliged to die, nobody has to call `stop` or `close`.
Weak fairness is enough for threads that queue for a lock because each client makes
one call, so every lock is at last left alone; the code's locks make no stronger
promise. In `sched_live` the strategy is obliged to finish its futures only while `~CloseRaised`,
so the run promises nothing that a `close` that raised does not keep. That the pool
meets this obligation is `FuturesFinish`, under `NothingRaised`: where the pool raises
in the supervisor or in an unload instead of in `close`, it does not, and the liveness
of the scheduler is not claimed for it. In `logging` the steps of
`stop` after its first, the listener's and the feeder's of the main process are fair;
nobody has to log, no worker's feeder has to run, and the join of `stop` need not
time out.

## 7. Where the code falls short

Four runs violate something the documentation or a test says:

- `resubmission`: `submit` remembers only ids that still have a record, so a request
  whose record was consumed or evicted can be submitted again (`README.md:135` says
  once). If the first execution still holds its slot, the second release at
  `runtime/scheduler.py:547` finds the id gone and a permit is lost for good.
- `inflight_gauge`: the task is visible to workers before `record_submitted`; a fast
  worker leaves the gauge at one for ever (`tests/test_observability.py:109`).
- `async_evicted`: a coroutine that registers after its record was evicted waits for
  ever, where the synchronous wait raises NOT_FOUND (`tests/test_scheduler_runtime.py:580`).
- `pool_unload`: after a failed restart the process is closed; unloading the group
  raises `ValueError` before the group's futures are failed (docstring at
  `runtime/strategy/process_pool.py:489`).

The same closed process makes `close` raise, before it fails what is pending and
stops the log manager. The model follows it (`closePc = "raised"`), and likewise
a supervisor whose restart is disposed of by an unload (`supPc = "dead"`).
`FuturesFinish` assumes that none of this happened (`NothingRaised`), and shows that
nothing else leaves a future unfinished.

Other hazards met while modelling, which no document denies:

- A `strategy.close()` that raises leaves `stop` at `runtime/scheduler.py:120`, when the
  flags are set and nobody is notified yet. Workers sleep on beside `_stop`, the futures
  the strategy still has may never be finished, and callers without a deadline wait,
  until `stop` is called again and gets past `close`. With the pool of this repository
  it does not: `close` meets the same closed process again. The same callers wait if
  `close` returns, but a future stays with a thread that never finishes it.
- A process that is alive a second after `terminate()` runs on
  (`runtime/strategy/process_pool.py:821`): `_stop_process` suppresses the `ValueError`
  of `process.close()` and reports success. And where an unload raises at
  `runtime/strategy/process_pool.py:713`, the other processes of its group are in no
  table of the pool any more. Both may run after a completed `close`
  (`CloseLeavesNothing`); nobody is left to stop them.

- A trace sink that raises in `submit` leaves a task in the heap and the workers
  asleep until the next submission wakes one.
- `join_thread` at `runtime/log.py:371` has no timeout. When the listener is gone
  (never started, ended by a file it could not open, or past its sentinel) and the
  records left in the buffer do not fit into the pipe, `stop`, and `close` of the
  pool with it, waits for ever.
- A manager stopped while a younger one is on the logger puts back what it saved:
  the younger one's handler is gone, or the handler of a closed queue stays.
- `stop` sets the logger's level to NOTSET, not to the one `setup` found and passed on
  (`runtime/log.py:364`).

## 8. What is proved

Machine-checked for every value of the constants under the named assumptions of the
modules (a finite set of ids, integer priorities, limits in the naturals, the actors
distinct); TLC evaluates those assumptions in every run.

`TaskBackendProofs`, of `BackendSpec`:

- `BackendTypeCorrect`, `IndexAlwaysConsistent`: typing and the agreement of the
  indexes are together inductive (`BackendInv`): the prune reads stamps, so it is
  defined only while every finished record has one.
- `RetentionBounded`: after an update the survivors of a prune are the records
  with fewer than `limit` records after them. `SurvivorsBounded` maps each survivor
  to its rank; ranks are distinct, so there are at most `limit` of them.
- `LiveIsNeverDropped`: only finished records are evicted, and the newest unread
  one never is (`NewestSurvives`).
- `UnreadIsEvictedLast`: what is evicted is closed downwards (`EvictedDownward`).

`SchedulerProofs`, of `Spec` of the scheduler:

- `SchedulerTypeCorrect`: `TypeOK` alone is not inductive, because a step applies
  functions to the task of a call, an entry or an execution; `TypeInv` adds that
  each of them names one when its program counter says so.
- `SlotsConserved`, if no id is submitted twice (`Resubmit = FALSE`; where a theorem
  below needs this too, it says so). The strengthening
  `SlotInv` adds that the ids holding a slot were accepted, and that the id a
  client is about to submit was not and is about to be submitted by nobody else:
  then an acceptance adds a new id and takes a permit, and a release removes one and
  gives it back. The assumption is needed: `resubmission` is the counterexample.
  The same invariant gives `RequestsAcceptedOnce`, for the theorems below that need it.

`OwnershipProofs`:

- `EveryTaskHasOneOwner`, whatever ids are submitted: `CoreInv` says that the entries
  of the heap, the hands of the workers and the executions stand for different runs and
  share out the live tasks, and that what executes is marked RUNNING. Two parts of it
  carry an id that comes back: `OneAhead`, at most one run of an id has still to finish,
  and `QueuedLive`, a queued run has a live record until the scheduler is closed, so
  that `submit`, which refuses an id with a record, cannot set a second run beside it.
- `NoWorkerWakeupLost`, `NoCallerWakeupLost`, whatever ids are submitted: `WakeInv` ties
  each sleeper with a reason to be awake to the thread that will notify. For a worker
  this thread is lost if a trace sink raised in `submit` or `close` raised in `stop`, which
  the property names (`CloseRaised`); `StopWakes` is the part of the invariant
  that says so, and `CloseKnown` that `strategy.close()` is called under the stop flag.
- `SlotsHeldExactly`, without resubmission: `ReleaseInv` adds to `CoreInv` who is to
  release the slot of a finished task. `OwnStep` proves both at once: every step
  keeps `CoreInv`, and `ReleaseInv` as long as `SlotInv` holds.
- `StopLeavesNothing`, without resubmission, and whether `close` returned with futures
  left, returned without, or raised: what is PENDING when `_fail_pending_tasks` begins is
  in the list it works off (`Drained`), and it begins when the last thread is gone,
  in `stop` or in the last worker's exit. A task still RUNNING then has its execution, by
  `CoreInv`: the theorem says nobody forgets it, not that the strategy finishes it.

`LifecycleProofs`:

- `SchedulerKeepsIndex`: what `backend` checks of the store alone holds under the
  scheduler, for which every step is shown to be one of few kinds as the records see
  it (`StepKind`), whatever ids are submitted.
- `OutcomeNeverChanges`, whatever ids are submitted: a record is finished from a live
  state only (`FinishesLive`), because what executes is its only owner.
- `SchedulerImplementsLifecycle`, without resubmission: the safety half of the
  refinement. Each kind of step is a step of `TaskLifecycle` or a stutter.
- `CountersNeverRunAhead`, `CountersSettleAtRest`, whatever ids are submitted: the totals
  are the sizes of sets of runs, `startedTotal` of `Begun` and the finished ones of
  `Ended`, and each step adds one run to one of these sets and one to its counter, or
  touches neither (`Counts`; `RunsStep` goes through the actions, `CountsKept` does the
  arithmetic). Then the order of the totals is `Ended \subseteq Begun \subseteq Issued`.
  `submittedTotal` follows the heap only because the lifecycle lock is held from an
  acceptance to its count (`SubmitCounted`, `LockKnown`); the gauge stops at zero, so it
  can only read too much.

`CallerProofs`:

- `WaitersAreAnswered`, `OutcomeConsumedOnce`, without resubmission: `CallerInv` relates
  each call to the record
  it is about; a record is missing only where records are consumed or evicted.
- `NoCoroutineForgotten`, without resubmission, retention limit and consuming callers:
  then a record that a coroutine finds missing was never there. `async_evicted` is
  the counterexample without it.

`ProcessPoolProofs`, of `Spec` of the pool:

- `NothingLaunchedAfterClose`: the supervisor and the publishing step of a load test
  the flag under the lock; what remains is the launch of a group being loaded,
  which tests nothing. `LaunchInv` says why it is harmless: every worker in
  the pool belongs to a group in the pool, and the group being loaded is not one.
- `PoolTypeCorrect`: with which future or worker each thread has in hand where.
- `FutureHasOneHolder`: `HoldInv`, the holders partition the unfinished futures.
- `AssignmentsAreCurrent`: `ThreadInv` and `WorkInv`, of which the heart is
  `DeadOwnNothing`: a worker is launched again only after what was assigned to the
  launch before was failed, and its counter counts what is left.
- `NoRequestLostInWorker`: from those, a process that lives still has what it was given.
- `CloseIsThorough`: `CloseInv`, what `close` has tried to stop so far it need not try
  again, since nothing is launched in the pool any more, and a process outside the pool
  that nobody tried to stop is one an administrator is about to stop or has abandoned.
- `PoolImplementsPort`: the safety refinement of `ExecutionPort`.

`RoutingProofs`:

- `RoutingTypeCorrect`.
- `RefusalIsJustified`: `AskInv`, a worker that has been live since the call began was
  offered the request, is among those of the chosen group still to be offered it, or is
  in a group still to be selected.
- `CursorReachesEveryone`: `IdleInv`, the number of requests a worker has been passed
  over for, plus its distance from the cursor, is below the size of the group: the
  worker that got the request either was nearer to the cursor, which then moves past
  it and nearer, or the passed-over one would have been less busy.
- `CreditsStayBounded`: the credits add up to zero only until a death or a restart
  clears one of them; from then on any group may owe or own what another lost. No bound
  on the single credits is inductive, for a group in debt says nothing of what the
  winner of the next round pays. `CreditInv` bounds the sum over *every* set of groups
  at once: with `n` groups, the two largest with `P` processes together, any `k` of them
  have between minus and plus `P*k*(2n-k-1)/2`. Clearing a group makes a sum that of the
  set without it, whose room is smaller. A round leaves a set with the winner and all
  other candidates as it was; one with the winner and without some candidates loses;
  one without the winner gains, but holds only groups that are no richer than the
  winner, and the rooms of the sets with one group less and with the missing candidates
  added balance it (`RoomMeets`). For `k = 1` this is `CreditBounded`.
- `GroupsAreServed`: `WaitInv`, a group with a live worker gains at least one credit each
  time it is passed over, so it was passed over at most as often as its credit lies above
  the largest debt. One without live workers gains nothing; it leaves the candidates
  of the call that passed it over when it is selected itself.

A sum over a set of groups is a recursive function. The proof only uses that there is
a function on the sets that adds up over disjoint ones (`Measure`); induction over
finite sets is done by taking a counterexample of least cardinality.

`LogProofs`:

- `LogTypeCorrect`.
- `StopLosesNothing`: `DueInv`, a record that is due is in the listener's hand or ahead of
  every sentinel, in the pipe or, while the pipe has none, in the buffer.
- `FilesAreClosed`: `FilesInv`, open files are in the listener's table, and a listener
  outlives the join only if the join timed out.
- `LoggerComesBack`: `NestInv`, each manager on the stack has saved what the one below
  it made of the logger.

Why some theorems exclude resubmission. An id whose record was consumed may be
submitted again while its first run is still on its way out. If that run has still
to release its slot, the two share one place in the set of outstanding ids: a permit is
lost (`resubmission`), and once the first release has taken the id out of the set,
`_fail_pending_tasks`, which looks there, misses the second run. If it has still to
resolve its waiters, it resolves a coroutine that waits for the second run, which then
returns a record that is PENDING. With `Resubmit` set in instances of the size of these
runs, TLC finds such violations of `SlotAccounting`, `OutstandingExact`,
`NothingLeftBehind`, `WaitersGetOutcome`, `AsyncWakeup`, `ConsumedOnce` and
`ImplementsLifecycle`, and none of the properties proved without the assumption.

Only model-checked: every liveness property and the fair half of the refinements,
which are beyond the prover's reach (`CallsReturn`, `StopTerminates`,
`ImplementsFairLifecycle`, `FuturesFinish`, `StopReturns`). Every other property of the
passing runs is stated by a theorem.

## 9. What is not modelled

- A sink that calls the scheduler back (the lifecycle lock is not reentrant), a
  priority that does not compare, a backend that raises in `submit`, requests and
  results that do not pickle.
- A child killed while it holds the lock of the shared queue; asyncio's own
  queue of callbacks; a task queue so full that closing it waits for its feeder.
- The constructor of the pool and its abort (`Init` is the state it ends in when
  it succeeds), and a group name used again after an unload, whose workers start at
  generation one.
- A strategy's `close()` that never returns, and so `join_thread` and `_close_queue` as
  seen from the scheduler: `StopTerminates` is about a `close` that returns or raises.
- In the pool: a second `close()` after one that raised; a launch in which creating the
  queues or `process.start()` raises after the generation was counted. `SupervisorFindsExit`
  is two sections under the lock in the code, the second of which looks again whether
  the worker is alive, retiring or gone from the pool, and gives up if so: the action is
  the second one, which takes effect.
- In logging: record sinks, settings, levels, formats and context variables. A
  `console_handler_factory` that raises after `setup_main_logging` cleared the logger, and
  a file handler whose `close()` raises, which leaves the other files open. `RestoreLogger`
  is one step where the code writes to the logger several times without a lock; the
  level, which it resets, is not part of the state.
- Health snapshots and the Prometheus text, which only read.
- `HandlerExecutor`: its cache is used by one thread in each worker process, so its
  lock and its unlocked fast path have nobody to meet.
- The registry, the loader, configuration, the contracts and the demos: sequential
  code without a protocol.

## 10. Maintenance

When a method changes, `map` in `PROJECT.json` names the definition that stands for
its lines. Change the definition, let TLC look at the runs of its module, then check
the proof module: a theorem whose invariant still holds usually needs one case of one
lemma repaired, since there is one lemma, or one case, for each action. A property
stays only while its mutant violates it.

Worth adding, should the code move that way: reuse of a group name, which needs the
results to carry the process as well as the generation; a handler cache shared by
threads; and, in `Scheduler`, a store that can fail.
