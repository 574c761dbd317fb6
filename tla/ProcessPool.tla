---------------------------- MODULE ProcessPool ----------------------------
(***************************************************************************)
(* ProcessPoolStrategy (src/infly/runtime/strategy/process_pool.py): it    *)
(* spreads requests over worker processes and survives their deaths.  Its  *)
(* threads are modelled one step at a time: callers of execute, the result *)
(* loop, the supervisor, a caller of close and an administrator who loads  *)
(* and unloads worker groups; beside them the worker processes, which may  *)
(* die at any moment.  What happens under self._lock is one step.          *)
(***************************************************************************)
EXTENDS Integers, FiniteSets

CONSTANTS
    Request,        \* requests, each executed once
    NumWorkers,     \* workers 1 .. NumWorkers, in the order of _workers
    Group,          \* worker groups
    GroupOf,        \* the group of each worker
    LateGroup,      \* the groups that are only registered at run time
    Mode,           \* the safety mode of each group
    RestartLimit,   \* restart_limit of every group
    MaxGeneration,  \* model bound on launches of one worker
    Stubborn,       \* workers whose process may outlive terminate()
    StartupMayFail, \* may a relaunched worker fail to start by itself?
    MayClose,       \* does anyone call close()?
    MayUnload,      \* does the administrator unload groups?
    None            \* no request, no assignment

Worker == 1 .. NumWorkers

ASSUME PoolAssumption ==
    /\ NumWorkers \in Nat \ {0}
    /\ GroupOf \in [Worker -> Group]
    /\ LateGroup \subseteq Group
    /\ Mode \in [Group -> {"shutdown", "degrade", "restart"}]
    /\ RestartLimit \in Nat
    /\ MaxGeneration \in Nat \ {0}
    /\ Stubborn \subseteq Worker
    /\ {StartupMayFail, MayClose, MayUnload} \subseteq BOOLEAN
    /\ None \notin Request \cup (Worker \X (1 .. MaxGeneration))

VARIABLES
    future,      \* the future of each request, as its holder sees it
    registered,  \* _futures: the requests whose future the pool holds
    assigned,    \* _assignments: <<worker, generation>> of each request
    members,     \* _workers: the workers in the pool
    groups,      \* _groups: the groups in the pool
    gen,         \* generation of each worker
    alive,       \* the alive flag
    outstanding, \* the outstanding counter
    retiring,    \* the retiring flag
    restartDue,  \* is next_restart_at set?
    restarts,    \* len(restart_times)
    proc,        \* process: none, starting, running, exited, closed or survived
    booted,      \* did the process report READY?
    inbox,       \* the task queue of the current process
    current,     \* the request a process is working on
    results,     \* the shared result queue
    accepting,   \* _accepting
    closing,     \* _closing, and _supervisor_stop set with or after it
    resultStop,  \* _result_stop
    resultPc,    \* where the result loop is
    resultHeld,  \* the future it is about to finish
    supPc,       \* where the supervisor is
    supWorker,   \* the worker it handles
    supHeld,     \* the futures it took and has not failed yet
    supTodo,     \* the workers it still has to stop (shutdown mode)
    closePc,     \* where the caller of close is
    closeHeld,   \* the futures it took
    closeTodo,   \* the workers it still has to visit
    admPc,       \* where the administrator is
    admGroup,    \* the group it loads
    admHeld,     \* the futures it took
    admTodo      \* the workers it still has to visit

futureVars == <<future, registered, assigned>>
workerVars == <<members, groups, gen, alive, outstanding, retiring, restartDue, restarts>>
procVars   == <<proc, booted, inbox, current>>
flagVars   == <<accepting, closing, resultStop>>
supVars    == <<supPc, supWorker, supHeld, supTodo>>
closeVars  == <<closePc, closeHeld, closeTodo>>
admVars    == <<admPc, admGroup, admHeld, admTodo>>

resultVars == <<results, resultPc, resultHeld>>

vars == <<futureVars, workerVars, procVars, flagVars, resultVars, supVars,
          closeVars, admVars>>

MembersOf(g) == {w \in Worker : GroupOf[w] = g}
Initial      == {w \in Worker : GroupOf[w] \notin LateGroup}

\* The constructor has launched the initial groups and seen every READY.
Init ==
    /\ future = [q \in Request |-> "none"]
    /\ registered = {}
    /\ assigned = [q \in Request |-> None]
    /\ members = Initial
    /\ groups = Group \ LateGroup
    /\ gen = [w \in Worker |-> IF w \in Initial THEN 1 ELSE 0]
    /\ alive = [w \in Worker |-> w \in Initial]
    /\ outstanding = [w \in Worker |-> 0]
    /\ retiring = [w \in Worker |-> FALSE]
    /\ restartDue = [w \in Worker |-> FALSE]
    /\ restarts = [w \in Worker |-> 0]
    /\ proc = [w \in Worker |-> IF w \in Initial THEN "running" ELSE "none"]
    /\ booted = [w \in Worker |-> w \in Initial]
    /\ inbox = [w \in Worker |-> {}]
    /\ current = [w \in Worker |-> None]
    /\ results = {}
    /\ accepting = TRUE
    /\ closing = FALSE
    /\ resultStop = FALSE
    /\ resultPc = "get" /\ resultHeld = None
    /\ supPc = "scan"  /\ supWorker = 0 /\ supHeld = {} /\ supTodo = {}
    /\ closePc = "idle" /\ closeHeld = {} /\ closeTodo = {}
    /\ admPc = "idle" /\ admGroup = None /\ admHeld = {} /\ admTodo = {}

-----------------------------------------------------------------------------
(* Helpers.                                                                *)

\* A process that survived still runs; Unstopped(w): nobody tried to stop it.
ProcessAlive(w) == proc[w] \in {"starting", "running", "survived"}
Unstopped(w)    == proc[w] \in {"starting", "running"}

\* _alive_workers_locked, over every group that serves the request.
LiveWorkers == {w \in members : alive[w] /\ ProcessAlive(w)}

\* The dict order of _workers.
FirstOf(W) == CHOOSE w \in W : \A v \in W : w <= v

(* The operators named Bug... are faulty variants of the definition that    *)
(* follows them.  No action uses them: each shows that a property notices   *)
(* the mistake.                                                            *)

\* Looked up under the number of the launch before.
BugOwnedByEarlier(W) ==
    {q \in registered : assigned[q] \in {<<w, gen[w] - 1>> : w \in W}}

\* _take_worker_futures_locked for the current generations of the workers W.
OwnedBy(W) == {q \in registered : assigned[q] \in {<<w, gen[w]>> : w \in W}}

\* One request is counted off, however many are taken.
BugTakeCountsOne(W) ==
    /\ registered' = registered \ OwnedBy(W)
    /\ assigned' = [q \in Request |-> IF q \in OwnedBy(W) THEN None ELSE assigned[q]]
    /\ outstanding' = [w \in Worker |-> IF w \in W THEN outstanding[w] - 1 ELSE outstanding[w]]
    /\ UNCHANGED future

Take(W) ==
    /\ registered' = registered \ OwnedBy(W)
    /\ assigned' = [q \in Request |-> IF q \in OwnedBy(W) THEN None ELSE assigned[q]]
    /\ outstanding' = [w \in Worker |-> IF w \in W THEN 0 ELSE outstanding[w]]
    /\ UNCHANGED future

\* The table is copied and not cleared.
BugTakeAllCopies ==
    /\ assigned' = [q \in Request |-> None]
    /\ outstanding' = [w \in Worker |-> IF w \in members THEN 0 ELSE outstanding[w]]
    /\ UNCHANGED <<future, registered>>

\* The first half of _fail_all_pending.
TakeAll ==
    /\ registered' = {}
    /\ assigned' = [q \in Request |-> None]
    /\ outstanding' = [w \in Worker |-> IF w \in members THEN 0 ELSE outstanding[w]]
    /\ UNCHANGED future

\* future.set_exception on one future (_fail_futures skips the ones done).
FailOne(q) ==
    /\ future' = [future EXCEPT ![q] = IF @ = "waiting" THEN "failed" ELSE @]
    /\ UNCHANGED <<registered, assigned>>

\* _stop_process, which raises ValueError on a process that was closed before.
CanStop(w) == proc[w] # "closed"

\* The process ends, by itself or at terminate(), and is closed; or it is still
\* alive a second after terminate(), and process.close() raises ValueError,
\* which is suppressed: it runs on, and may be stopped again.
ProcessGone(w) ==
    /\ proc' = [proc EXCEPT ![w] = IF @ = "none" THEN @ ELSE "closed"]
    /\ inbox' = [inbox EXCEPT ![w] = {}]
    /\ current' = [current EXCEPT ![w] = None]

ProcessSurvives(w) ==
    /\ w \in Stubborn
    /\ ProcessAlive(w)
    /\ proc' = [proc EXCEPT ![w] = "survived"]
    /\ UNCHANGED <<inbox, current>>

StopProcess(w) ==
    /\ ProcessGone(w) \/ ProcessSurvives(w)
    /\ alive' = [alive EXCEPT ![w] = IF proc[w] = "none" THEN @ ELSE FALSE]
    /\ UNCHANGED booted

\* _launch_worker: the next generation, with empty queues of its own.  A process
\* that survived the generation before is not heard of any more: no request was
\* assigned to it after it was stopped.
Launch(w) ==
    /\ gen' = [gen EXCEPT ![w] = @ + 1]
    /\ alive' = [alive EXCEPT ![w] = FALSE]
    /\ outstanding' = [outstanding EXCEPT ![w] = 0]
    /\ restartDue' = [restartDue EXCEPT ![w] = FALSE]
    /\ proc' = [proc EXCEPT ![w] = "starting"]
    /\ booted' = [booted EXCEPT ![w] = FALSE]
    /\ inbox' = [inbox EXCEPT ![w] = {}]
    /\ current' = [current EXCEPT ![w] = None]

-----------------------------------------------------------------------------
(* execute: refused with a failed future, or given to the least busy live  *)
(* worker of some group.  Which group, and which of several equally busy   *)
(* workers, is a choice here.                                              *)
LeastBusy(w) ==
    \A v \in LiveWorkers : GroupOf[v] = GroupOf[w] => outstanding[w] <= outstanding[v]

\* Whether the pool accepts is not asked.
BugExecuteAnyway(q) ==
    /\ future[q] = "none"
    /\ \/ /\ LiveWorkers = {}
          /\ future' = [future EXCEPT ![q] = "failed"]
          /\ UNCHANGED <<registered, assigned, outstanding, inbox>>
       \/ /\ future' = [future EXCEPT ![q] = "waiting"]
          /\ registered' = registered \cup {q}
          /\ \E w \in LiveWorkers :
                /\ assigned' = [assigned EXCEPT ![q] = <<w, gen[w]>>]
                /\ outstanding' = [outstanding EXCEPT ![w] = @ + 1]
                /\ inbox' = [inbox EXCEPT ![w] = @ \cup {q}]
    /\ UNCHANGED <<members, groups, gen, alive, retiring, restartDue, restarts, proc,
                   booted, current, flagVars, resultVars, supVars, closeVars, admVars>>

Execute(q) ==
    /\ future[q] = "none"
    /\ \/ /\ ~accepting \/ LiveWorkers = {}
          /\ future' = [future EXCEPT ![q] = "failed"]
          /\ UNCHANGED <<registered, assigned, outstanding, inbox>>
       \/ /\ accepting
          /\ future' = [future EXCEPT ![q] = "waiting"]
          /\ registered' = registered \cup {q}
          /\ \E w \in LiveWorkers :
                /\ LeastBusy(w)
                /\ assigned' = [assigned EXCEPT ![q] = <<w, gen[w]>>]
                /\ outstanding' = [outstanding EXCEPT ![w] = @ + 1]
                /\ inbox' = [inbox EXCEPT ![w] = @ \cup {q}]
    /\ UNCHANGED <<members, groups, gen, alive, retiring, restartDue, restarts, proc,
                   booted, current, flagVars, resultVars, supVars, closeVars, admVars>>

-----------------------------------------------------------------------------
(* A worker process: _worker_loop.                                         *)
Others == UNCHANGED <<futureVars, workerVars, flagVars, supVars, closeVars, admVars>>

ProcessReady(w) ==
    /\ ~booted[w]
    /\ ProcessAlive(w)
    /\ proc' = [proc EXCEPT ![w] = IF @ = "starting" THEN "running" ELSE @]
    /\ booted' = [booted EXCEPT ![w] = TRUE]
    /\ UNCHANGED <<inbox, current, resultVars>> /\ Others

Working(w) == booted[w] /\ ProcessAlive(w)

ProcessTakes(w) ==
    /\ Working(w)
    /\ current[w] = None
    /\ \E q \in inbox[w] :
          /\ current' = [current EXCEPT ![w] = q]
          /\ inbox' = [inbox EXCEPT ![w] = @ \ {q}]
    /\ UNCHANGED <<proc, booted, resultVars>> /\ Others

\* An error inside the handler leaves no result.
BugFinishesSilently(w) ==
    /\ Working(w)
    /\ current[w] # None
    /\ current' = [current EXCEPT ![w] = None]
    /\ UNCHANGED <<proc, booted, inbox, resultVars>> /\ Others

ProcessFinishes(w) ==
    /\ Working(w)
    /\ current[w] # None
    /\ results' = results \cup {<<current[w], <<w, gen[w]>>>>}
    /\ current' = [current EXCEPT ![w] = None]
    /\ UNCHANGED <<proc, booted, inbox, resultPc, resultHeld>> /\ Others

\* Killed, crashed, failed to start, or told to stop by the sentinel.  Nobody
\* reads its queue any more.
ProcessDies(w) ==
    /\ ProcessAlive(w)
    /\ proc' = [proc EXCEPT ![w] = "exited"]
    /\ inbox' = [inbox EXCEPT ![w] = {}]
    /\ current' = [current EXCEPT ![w] = None]
    /\ UNCHANGED <<booted, resultVars>> /\ Others

-----------------------------------------------------------------------------
(* The result loop.                                                        *)
NextResult == IF resultStop THEN "stopped" ELSE "get"

\* The worker's counter is not lowered.
BugResultKeepsCount ==
    /\ resultPc = "get"
    /\ \E r \in results :
          /\ results' = results \ {r}
          /\ IF assigned[r[1]] = r[2]
             THEN /\ assigned' = [assigned EXCEPT ![r[1]] = None]
                  /\ registered' = registered \ {r[1]}
                  /\ resultHeld' = r[1]
                  /\ resultPc' = "set"
             ELSE /\ resultPc' = NextResult
                  /\ UNCHANGED <<assigned, registered, resultHeld>>
    /\ UNCHANGED <<future, workerVars, procVars, flagVars, supVars, closeVars, admVars>>

\* A result is taken if its request is still assigned to the very launch of
\* the worker that produced it, and ignored as stale otherwise.
ResultTaken ==
    /\ resultPc = "get"
    /\ \E r \in results :
          /\ results' = results \ {r}
          /\ IF assigned[r[1]] = r[2]
             THEN /\ assigned' = [assigned EXCEPT ![r[1]] = None]
                  /\ registered' = registered \ {r[1]}
                  /\ outstanding' = [w \in Worker |->
                        IF w = r[2][1] /\ w \in members /\ outstanding[w] > 0
                        THEN outstanding[w] - 1 ELSE outstanding[w]]
                  /\ resultHeld' = r[1]
                  /\ resultPc' = "set"
             ELSE /\ resultPc' = NextResult
                  /\ UNCHANGED <<assigned, registered, outstanding, resultHeld>>
    /\ UNCHANGED <<future, members, groups, gen, alive, retiring, restartDue, restarts,
                   procVars, flagVars, supVars, closeVars, admVars>>

\* future.set_result or set_exception, outside the lock.
ResultSet ==
    /\ resultPc = "set"
    /\ \E o \in {"ok", "failed"} :
          future' = [future EXCEPT ![resultHeld] = IF @ = "waiting" THEN o ELSE @]
    /\ resultHeld' = None
    /\ resultPc' = NextResult
    /\ UNCHANGED <<registered, assigned, workerVars, procVars, flagVars, results,
                   supVars, closeVars, admVars>>

ResultLoopEnds ==
    /\ resultPc = "get"
    /\ resultStop
    /\ resultPc' = "stopped"
    /\ UNCHANGED <<futureVars, workerVars, procVars, flagVars, results, resultHeld,
                   supVars, closeVars, admVars>>

ResultStep == ResultTaken \/ ResultSet \/ ResultLoopEnds

-----------------------------------------------------------------------------
(* The supervisor.                                                         *)
\* Between two workers it handles none.
SupervisorGoTo(pc) ==
    /\ supPc' = pc
    /\ supWorker' = IF pc = "cleanup" THEN supWorker ELSE 0
    /\ UNCHANGED <<supHeld, supTodo>>

\* Whether the pool is closing is not asked.
BugSupervisedAnyway(w) == w \in members /\ ~retiring[w]

Supervised(w) == w \in members /\ ~retiring[w] /\ ~closing

\* _handle_worker_exit: a worker found dead loses its requests ...
SupervisorFindsExit(w) ==
    /\ supPc = "scan"
    /\ Supervised(w)
    /\ alive[w] /\ ~ProcessAlive(w)
    /\ alive' = [alive EXCEPT ![w] = FALSE]
    /\ Take({w})
    /\ supPc' = "fail" /\ supWorker' = w /\ supHeld' = OwnedBy({w})
    /\ UNCHANGED <<members, groups, gen, retiring, restartDue, restarts, procVars,
                   flagVars, resultVars, supTodo, closeVars, admVars>>

\* ... which are failed outside the lock, here and at the end of a shutdown.
SupervisorFails ==
    /\ supPc \in {"fail", "failAll"}
    /\ \E q \in supHeld : FailOne(q) /\ supHeld' = supHeld \ {q}
    /\ UNCHANGED <<workerVars, procVars, flagVars, resultVars, supPc, supWorker,
                   supTodo, closeVars, admVars>>

\* _schedule_restart: restarts older than the window no longer count.
ScheduleRestart(w) ==
    \E n \in 0 .. restarts[w] :
        /\ restarts' = [restarts EXCEPT ![w] = n]
        /\ restartDue' = [restartDue EXCEPT ![w] = n < RestartLimit]

\* The safety mode of the group decides what follows: nothing (degrade), a
\* restart, or _shutdown_after_worker_failure.
SupervisorDecides ==
    LET mode == Mode[GroupOf[supWorker]]
    IN  /\ supPc = "fail"
        /\ supHeld = {}
        /\ \/ /\ mode = "degrade"
              /\ SupervisorGoTo("scan")
              /\ UNCHANGED <<restarts, restartDue, flagVars>>
           \/ /\ mode = "restart"
              /\ ScheduleRestart(supWorker)
              /\ SupervisorGoTo("scan")
              /\ UNCHANGED flagVars
           \/ /\ mode = "shutdown"
              /\ accepting' = FALSE /\ closing' = TRUE /\ resultStop' = TRUE
              /\ supPc' = "kill" /\ supWorker' = 0 /\ supTodo' = members \ {supWorker}
              /\ UNCHANGED <<restarts, restartDue, supHeld>>
        /\ UNCHANGED <<futureVars, members, groups, gen, alive, outstanding, retiring,
                       procVars, resultVars, closeVars, admVars>>

\* Shutdown mode stops the other workers one by one; a process somebody else
\* closed raises and ends the supervisor.
SupervisorKills ==
    LET w == FirstOf(supTodo)
    IN  /\ supPc = "kill"
        /\ supTodo # {}
        /\ IF CanStop(w)
           THEN /\ StopProcess(w)
                /\ supTodo' = supTodo \ {w}
                /\ UNCHANGED <<supPc, supWorker, supHeld>>
           ELSE SupervisorGoTo("dead") /\ UNCHANGED <<procVars, alive>>
        /\ UNCHANGED <<futureVars, members, groups, gen, outstanding, retiring,
                       restartDue, restarts, flagVars, resultVars, closeVars, admVars>>

SupervisorTakesAll ==
    /\ supPc = "kill"
    /\ supTodo = {}
    /\ TakeAll
    /\ supPc' = "failAll" /\ supHeld' = registered
    /\ UNCHANGED <<members, groups, gen, alive, retiring, restartDue, restarts,
                   procVars, flagVars, resultVars, supWorker, supTodo, closeVars,
                   admVars>>

\* The loop ends at the stop flag, and a shutdown raises it.
SupervisorEnds ==
    /\ \/ supPc = "scan" /\ closing
       \/ supPc = "failAll" /\ supHeld = {}
    /\ SupervisorGoTo("stopped")
    /\ UNCHANGED <<futureVars, workerVars, procVars, flagVars, resultVars, closeVars,
                   admVars>>

\* _restart_worker: relaunch under the lock, then wait for READY without it.
SupervisorRestarts(w) ==
    /\ supPc = "scan"
    /\ Supervised(w)
    /\ ~alive[w] /\ restartDue[w]
    /\ gen[w] < MaxGeneration
    /\ Launch(w)
    /\ restarts' = [restarts EXCEPT ![w] = @ + 1]
    /\ supPc' = "await" /\ supWorker' = w
    /\ UNCHANGED <<futureVars, members, groups, retiring, flagVars, resultVars,
                   supHeld, supTodo, closeVars, admVars>>

\* The READY message may be read just before somebody closes the process; the
\* flag is written without the lock, after that.
SupervisorSeesReady ==
    /\ supPc = "await"
    /\ booted[supWorker]
    /\ alive' = [alive EXCEPT ![supWorker] = TRUE]
    /\ SupervisorGoTo("scan")
    /\ UNCHANGED <<futureVars, members, groups, gen, outstanding, retiring, restartDue,
                   restarts, procVars, flagVars, resultVars, closeVars, admVars>>

\* The wait is interrupted, the process died or was disposed of under the
\* supervisor, the handlers failed to load, or the timeout passed.
SupervisorGivesUp ==
    LET w == supWorker
    IN  /\ supPc = "await"
        /\ \/ closing
           \/ proc[w] \in {"closed", "survived"}
           \/ proc[w] = "exited" /\ ~booted[w]
           \/ StartupMayFail
        /\ SupervisorGoTo("cleanup")
        /\ UNCHANGED <<futureVars, workerVars, procVars, flagVars, resultVars,
                       closeVars, admVars>>

\* The process of a failed restart is stopped and closed; when someone closed
\* it before, the exception leaves the handler and ends the supervisor.
SupervisorCleansUp ==
    LET w == supWorker
    IN  /\ supPc = "cleanup"
        /\ IF CanStop(w)
           THEN /\ StopProcess(w)
                /\ SupervisorGoTo("scan")
                /\ IF ~closing /\ ~retiring[w]
                   THEN ScheduleRestart(w)
                   ELSE UNCHANGED <<restarts, restartDue>>
           ELSE /\ SupervisorGoTo("dead")
                /\ UNCHANGED <<procVars, alive, restarts, restartDue>>
        /\ UNCHANGED <<futureVars, members, groups, gen, outstanding, retiring,
                       flagVars, resultVars, closeVars, admVars>>

SupervisorStep ==
    \/ \E w \in Worker : SupervisorFindsExit(w) \/ SupervisorRestarts(w)
    \/ SupervisorFails \/ SupervisorDecides \/ SupervisorKills
    \/ SupervisorTakesAll \/ SupervisorEnds \/ SupervisorSeesReady
    \/ SupervisorGivesUp \/ SupervisorCleansUp

-----------------------------------------------------------------------------
(* close.  A second call after a completed one returns at once.            *)
CloseGoTo(pc, todo) ==
    closePc' = pc /\ closeTodo' = todo /\ UNCHANGED closeHeld

CloseBegins ==
    /\ MayClose
    /\ closePc = "idle"
    /\ accepting' = FALSE /\ closing' = TRUE
    /\ CloseGoTo("signal", members)
    /\ UNCHANGED <<futureVars, workerVars, procVars, resultStop, resultVars, supVars,
                   admVars>>

\* The sentinel round asks each process whether it is alive; one that was
\* closed before raises ValueError out of close.
CloseSignals ==
    LET w == FirstOf(closeTodo)
    IN  /\ closePc = "signal"
        /\ IF closeTodo = {} THEN CloseGoTo("stop", members)
           ELSE IF CanStop(w) THEN CloseGoTo("signal", closeTodo \ {w})
           ELSE CloseGoTo("raised", {})
        /\ UNCHANGED <<futureVars, workerVars, procVars, flagVars, resultVars, supVars,
                       admVars>>

\* Then every process is stopped, and at last the result loop.
CloseStops ==
    LET w == FirstOf(closeTodo)
    IN  /\ closePc = "stop"
        /\ \/ /\ closeTodo = {}
              /\ CloseGoTo("join", {})
              /\ resultStop' = TRUE
              /\ UNCHANGED <<procVars, alive>>
           \/ /\ closeTodo # {} /\ CanStop(w)
              /\ StopProcess(w)
              /\ CloseGoTo("stop", closeTodo \ {w})
              /\ UNCHANGED resultStop
           \/ /\ closeTodo # {} /\ ~CanStop(w)
              /\ CloseGoTo("raised", {})
              /\ UNCHANGED <<procVars, alive, resultStop>>
        /\ UNCHANGED <<futureVars, members, groups, gen, outstanding, retiring,
                       restartDue, restarts, accepting, closing, resultVars, supVars,
                       admVars>>

\* Both joins may time out, then _fail_all_pending takes what is left.
CloseTakesAll ==
    /\ closePc = "join"
    /\ TakeAll
    /\ closePc' = "failAll" /\ closeHeld' = registered
    /\ UNCHANGED <<members, groups, gen, alive, retiring, restartDue, restarts,
                   procVars, flagVars, resultVars, supVars, closeTodo, admVars>>

CloseFails ==
    /\ closePc = "failAll"
    /\ IF closeHeld = {}
       THEN closePc' = "done" /\ UNCHANGED <<futureVars, closeHeld>>
       ELSE /\ \E q \in closeHeld : FailOne(q) /\ closeHeld' = closeHeld \ {q}
            /\ UNCHANGED closePc
    /\ UNCHANGED <<workerVars, procVars, flagVars, resultVars, supVars, closeTodo,
                   admVars>>

CloseStep == CloseSignals \/ CloseStops \/ CloseTakesAll \/ CloseFails

-----------------------------------------------------------------------------
(* The administrator: one thread that loads and unloads groups.            *)

\* unregister_worker_group, under the lock: the group leaves routing and its
\* requests are taken from it.
UnloadBegins(g) ==
    LET W == MembersOf(g)
    IN  /\ MayUnload
        /\ admPc = "idle"
        /\ ~closing
        /\ g \in groups
        /\ groups' = groups \ {g}
        /\ members' = members \ W
        /\ retiring' = [w \in Worker |-> w \in W \/ retiring[w]]
        /\ alive' = [w \in Worker |-> w \notin W /\ alive[w]]
        /\ restartDue' = [w \in Worker |-> w \notin W /\ restartDue[w]]
        /\ Take(W)
        /\ admPc' = "dispose" /\ admTodo' = W /\ admHeld' = OwnedBy(W)
        /\ UNCHANGED <<gen, restarts, procVars, flagVars, resultVars, supVars,
                       closeVars, admGroup>>

\* _dispose_workers: a process that was closed before raises, and the futures
\* taken above stay in the hands of the caller it raises to.
AdminDisposes ==
    LET w == FirstOf(admTodo)
    IN  /\ admPc = "dispose"
        /\ admTodo # {}
        /\ IF CanStop(w)
           THEN /\ StopProcess(w)
                /\ retiring' = [retiring EXCEPT ![w] = TRUE]
                /\ admTodo' = admTodo \ {w}
                /\ UNCHANGED admPc
           ELSE /\ admPc' = "raised"
                /\ UNCHANGED <<procVars, alive, retiring, admTodo>>
        /\ UNCHANGED <<futureVars, members, groups, gen, outstanding, restartDue,
                       restarts, flagVars, resultVars, supVars, closeVars, admGroup,
                       admHeld>>

\* Only when all are disposed of are the futures failed.
AdminFails ==
    /\ admPc = "dispose"
    /\ admTodo = {}
    /\ IF admHeld = {}
       THEN admPc' = "idle" /\ UNCHANGED <<futureVars, admHeld>>
       ELSE /\ \E q \in admHeld : FailOne(q) /\ admHeld' = admHeld \ {q}
            /\ UNCHANGED admPc
    /\ UNCHANGED <<workerVars, procVars, flagVars, resultVars, supVars, closeVars,
                   admGroup, admTodo>>

\* register_worker_group checks under the lock that the pool is open and the
\* name free ...
LoadBegins(g) ==
    /\ admPc = "idle"
    /\ ~closing
    /\ g \notin groups
    /\ \A w \in MembersOf(g) : proc[w] = "none"
    /\ admPc' = "load" /\ admGroup' = g
    /\ UNCHANGED <<futureVars, workerVars, procVars, flagVars, resultVars, supVars,
                   closeVars, admHeld, admTodo>>

\* ... then launches the workers, which are not in the pool yet.
LoadLaunches ==
    LET W == MembersOf(admGroup)
    IN  /\ admPc = "load"
        /\ gen' = [w \in Worker |-> IF w \in W THEN 1 ELSE gen[w]]
        /\ proc' = [w \in Worker |-> IF w \in W THEN "starting" ELSE proc[w]]
        /\ admPc' = "boot"
        /\ UNCHANGED <<futureVars, members, groups, alive, outstanding, retiring,
                       restartDue, restarts, booted, inbox, current, flagVars,
                       resultVars, supVars, closeVars, admGroup, admHeld, admTodo>>

\* Whether the pool is still open is not asked again.
BugLoadPublishes ==
    LET W == MembersOf(admGroup)
    IN  /\ admPc = "boot"
        /\ \A w \in W : booted[w]
        /\ groups' = groups \cup {admGroup}
        /\ members' = members \cup W
        /\ alive' = [w \in Worker |-> w \in W \/ alive[w]]
        /\ admPc' = "idle" /\ admGroup' = None
        /\ UNCHANGED <<futureVars, gen, outstanding, retiring, restartDue, restarts,
                       procVars, flagVars, resultVars, supVars, closeVars, admHeld,
                       admTodo>>

\* Published only when every worker reported READY and the pool is still open.
LoadEnds ==
    LET W == MembersOf(admGroup)
    IN  /\ admPc = "boot"
        /\ ~closing
        /\ \A w \in W : booted[w]
        /\ groups' = groups \cup {admGroup}
        /\ members' = members \cup W
        /\ alive' = [w \in Worker |-> w \in W \/ alive[w]]
        /\ admPc' = "idle" /\ admGroup' = None
        /\ UNCHANGED <<futureVars, gen, outstanding, retiring, restartDue, restarts,
                       procVars, flagVars, resultVars, supVars, closeVars, admHeld,
                       admTodo>>

LoadFails ==
    LET W == MembersOf(admGroup)
    IN  /\ admPc = "boot"
        /\ closing \/ StartupMayFail \/ \E w \in W : proc[w] = "exited" /\ ~booted[w]
        /\ admPc' = "dispose" /\ admGroup' = None /\ admTodo' = W
        /\ UNCHANGED <<futureVars, workerVars, procVars, flagVars, resultVars, supVars,
                       closeVars, admHeld>>

AdminStep ==
    AdminDisposes \/ AdminFails \/ LoadLaunches \/ LoadEnds \/ LoadFails

-----------------------------------------------------------------------------
Next ==
    \/ \E q \in Request : Execute(q)
    \/ \E w \in Worker :
          ProcessReady(w) \/ ProcessTakes(w) \/ ProcessFinishes(w) \/ ProcessDies(w)
    \/ ResultStep
    \/ SupervisorStep
    \/ CloseBegins \/ CloseStep
    \/ (\E g \in Group : UnloadBegins(g) \/ LoadBegins(g))
    \/ AdminStep

Spec == Init /\ [][Next]_vars

\* Threads and processes that can move do; handlers return or their process
\* dies; nobody is obliged to call anything.
Fairness ==
    /\ \A w \in Worker :
          /\ WF_vars(proc[w] = "starting" /\ (ProcessReady(w) \/ ProcessDies(w)))
          /\ WF_vars(ProcessTakes(w)) /\ WF_vars(ProcessFinishes(w))
    /\ WF_vars(ResultStep)
    /\ WF_vars(SupervisorStep)
    /\ WF_vars(CloseStep)
    /\ WF_vars(AdminStep)

FairSpec == Spec /\ Fairness

-----------------------------------------------------------------------------
(* Properties.                                                             *)
Launches == {<<w, n>> : w \in Worker, n \in 1 .. MaxGeneration}

PoolTypeOK ==
    /\ future \in [Request -> {"none", "waiting", "ok", "failed"}]
    /\ registered \in SUBSET Request
    /\ assigned \in [Request -> Launches \cup {None}]
    /\ members \in SUBSET Worker /\ groups \in SUBSET Group
    /\ gen \in [Worker -> 0 .. MaxGeneration]
    /\ alive \in [Worker -> BOOLEAN] /\ retiring \in [Worker -> BOOLEAN]
    /\ restartDue \in [Worker -> BOOLEAN] /\ booted \in [Worker -> BOOLEAN]
    /\ outstanding \in [Worker -> Nat] /\ restarts \in [Worker -> Nat]
    /\ proc \in [Worker -> {"none", "starting", "running", "exited", "closed",
                         "survived"}]
    /\ inbox \in [Worker -> SUBSET Request]
    /\ current \in [Worker -> Request \cup {None}]
    /\ results \in SUBSET (Request \X Launches)
    /\ {accepting, closing, resultStop} \subseteq BOOLEAN
    /\ resultPc \in {"get", "set", "stopped"} /\ resultHeld \in Request \cup {None}
    /\ supPc \in {"scan", "fail", "kill", "failAll", "await", "cleanup", "stopped", "dead"}
    /\ supWorker \in 0 .. NumWorkers
    /\ closePc \in {"idle", "signal", "stop", "join", "failAll", "done", "raised"}
    /\ admPc \in {"idle", "dispose", "load", "boot", "raised"}
    /\ admGroup \in Group \cup {None}
    /\ {supHeld, closeHeld, admHeld} \subseteq SUBSET Request
    /\ {supTodo, closeTodo, admTodo} \subseteq SUBSET Worker

\* A future that is not finished is in the hands of exactly one party: the
\* table _futures, the result loop, the supervisor, close or the administrator.
\* Nobody drops one and no two threads race to finish the same one.
Holders(q) ==
    {h \in {"table", "result", "supervisor", "close", "admin"} :
        \/ h = "table"      /\ q \in registered
        \/ h = "result"     /\ q = resultHeld
        \/ h = "supervisor" /\ q \in supHeld
        \/ h = "close"      /\ q \in closeHeld
        \/ h = "admin"      /\ q \in admHeld}

FutureHeldOnce ==
    \A q \in Request :
        Cardinality(Holders(q)) = IF future[q] = "waiting" THEN 1 ELSE 0

\* A registered request is assigned to the current launch of a worker in the
\* pool, and the worker's counter is the number of such requests: what
\* execute balances on is never stale, across deaths, relaunches and unloads.
AssignmentsCurrent ==
    /\ \A q \in registered : \E w \in members : assigned[q] = <<w, gen[w]>>
    /\ \A w \in members : outstanding[w] = Cardinality(OwnedBy({w}))

\* A registered request whose process lives is in its queue, being worked on,
\* or among the results: it cannot get lost inside a healthy worker.
RequestReachable ==
    \A q \in registered :
        LET w == assigned[q][1]
        IN  ProcessAlive(w) =>
               \/ q \in inbox[w] \cup {current[w]}
               \/ <<q, assigned[q]>> \in results

\* After a completed close every process that still runs was stopped and
\* survived terminate(), or is one the administrator is about to stop, the half
\* loaded ones included, or was left behind by an unload that raised (see
\* README.md); and the pool holds no future that nobody is about to finish.
AboutToStop(w) ==
    \/ admPc \in {"load", "boot"} /\ w \in MembersOf(admGroup)
    \/ admPc = "dispose" /\ w \in admTodo

Abandoned(w) == admPc = "raised" /\ w \in admTodo

CloseLeavesNothing ==
    closePc = "done" =>
        /\ \A w \in members : ~Unstopped(w)
        /\ \A w \in Worker : Unstopped(w) => AboutToStop(w) \/ Abandoned(w)
        /\ registered = {}

\* A closing pool stays closed, and from then on no worker in it is launched
\* again, whatever the supervisor had scheduled.
NoLaunchAfterClose ==
    [][closing => /\ closing' /\ ~accepting' /\ members' \subseteq members
                  /\ \A w \in members : gen'[w] = gen[w]]_vars

\* The pool implements the strategy port.
Port == INSTANCE ExecutionPort

ImplementsPort == Port!Spec

\* No thread ran into a process that another one had closed: neither close()
\* nor unloading raised ValueError, and the supervisor is there.
NothingRaised ==
    closePc # "raised" /\ admPc # "raised" /\ supPc # "dead"

\* As long as that does not happen every future is finished, whatever dies,
\* restarts, shuts down, is unloaded or is closed at the same time: the fair
\* half of the port.
FuturesFinish ==
    []NothingRaised =>
        \A q \in Request : future[q] = "waiting" ~> future[q] # "waiting"

\* "Requests already assigned to the group fail with WORKER_UNAVAILABLE" (the
\* docstring of unregister_worker_group): a future that unloading took from
\* the group is finished.
UnloadFailsAssigned ==
    \A q \in Request : q \in admHeld ~> q \notin admHeld
=============================================================================
