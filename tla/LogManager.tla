----------------------------- MODULE LogManager -----------------------------
(***************************************************************************)
(* src/infly/runtime/log.py: MainLogManager puts a handler on the logger   *)
(* of the process that hands each record to a queue, and a listener thread *)
(* (RoutingQueueListener) writes the records to one file per key.  Worker  *)
(* processes write to the queue of the manager they were started with.     *)
(*                                                                         *)
(* Every pool has a manager of its own, and all of them share one logger:  *)
(* each saves what it finds on it and puts that back when it is stopped.   *)
(* The queue is a multiprocessing.Queue: each process appends to a buffer  *)
(* of its own, from which a feeder thread fills a pipe of limited size.    *)
(* Levels, filters, formats and sinks of records are left out.             *)
(***************************************************************************)
EXTENDS Naturals, FiniteSets, Sequences, SequencesExt

CONSTANTS
    Manager,        \* the managers set up by the process
    Startable,      \* those somebody may start
    MainRecord,     \* records logged by threads of the main process
    WorkerRecord,   \* records logged by worker processes
    QueueOf,        \* the manager whose queue the process that logs one has
    Key,            \* routing keys: a file each
    KeyOf,          \* _routing_key_factory
    PipeCapacity,   \* records that fit into the pipe of a queue
    FactoryMayFail, \* may opening a log file raise?
    Sentinel, None  \* None on the queue; no record

Record == MainRecord \cup WorkerRecord

ASSUME LogAssumption ==
    /\ Startable \subseteq Manager
    /\ KeyOf \in [Record -> Key]
    /\ QueueOf \in [WorkerRecord -> Manager]
    /\ MainRecord \cap WorkerRecord = {}
    /\ PipeCapacity \in Nat \ {0}
    /\ FactoryMayFail \in BOOLEAN
    /\ Sentinel \notin Record /\ None \notin Record /\ Sentinel # None

VARIABLES
    logger,    \* the queue handlers on the logger, by manager, and propagate
    saved,     \* what each manager found there
    phase,     \* where setup, or stop, of each manager is
    started,   \* the managers whose start() has run
    listener,  \* where each listener thread is
    inHand,    \* the record the listener is handling
    table,     \* RoutingQueueListener.handlers, by key
    open,      \* the files the listener's handlers hold open
    buffer,    \* what the main process has put on the queue
    workerBuf, \* what the worker process has put on it
    pipe,      \* what the listener can read
    logged,    \* records logged so far
    due,       \* history: records on the queue before the sentinel, not yet written
    timedOut,  \* history: managers whose stop did not wait for the listener
    stack,     \* history: the managers on the logger, the youngest last, while
               \* they nest
    nested     \* history: setups and stops were nested until now

loggerVars   == <<logger, saved, stack, nested>>
listenerVars == <<listener, inHand, table, open>>
queueVars    == <<buffer, workerBuf, pipe, logged>>
stopVars     == <<phase, started, due, timedOut>>
vars         == <<loggerVars, listenerVars, queueVars, stopVars>>

InitialLogger == [handlers |-> <<>>, propagate |-> TRUE]

Init ==
    /\ logger = InitialLogger
    /\ saved = [m \in Manager |-> InitialLogger]
    /\ phase = [m \in Manager |-> "new"]
    /\ started = {}
    /\ listener = [m \in Manager |-> "unstarted"]
    /\ inHand = [m \in Manager |-> None]
    /\ table = [m \in Manager |-> {}]
    /\ open = [m \in Manager |-> {}]
    /\ buffer = [m \in Manager |-> <<>>]
    /\ workerBuf = [m \in Manager |-> <<>>]
    /\ pipe = [m \in Manager |-> <<>>]
    /\ logged = {}
    /\ due = [m \in Manager |-> {}]
    /\ timedOut = {}
    /\ stack = <<>>
    /\ nested = TRUE

-----------------------------------------------------------------------------
(* The operators named Bug... are faulty variants of the definition that    *)
(* follows them.  No action uses them: each shows that a property notices   *)
(* the mistake.                                                            *)

QueueClosed(m)  == phase[m] \in {"joinThread", "stopped"}
ListenerAlive(m) == listener[m] \in {"polling", "routing", "writing"}

Room(m) == Len(pipe[m]) < PipeCapacity

Enqueue(s, item) == Append(s, item)

GoTo(m, where) == phase' = [phase EXCEPT ![m] = where]

-----------------------------------------------------------------------------
(* setup_main_logging and start.  Nothing locks the logger.                *)

\* A setup in the middle of another one does not nest.
SettingUp == {m \in Manager : phase[m] \in {"saved", "cleared"}}

SaveLogger(m) ==
    /\ phase[m] = "new"
    /\ GoTo(m, "saved")
    /\ saved' = [saved EXCEPT ![m] = logger]
    /\ stack' = Append(stack, m)
    /\ nested' = (nested /\ SettingUp = {})
    /\ UNCHANGED <<logger, started, due, timedOut, listenerVars, queueVars>>

ClearLogger(m) ==
    /\ phase[m] = "saved"
    /\ GoTo(m, "cleared")
    /\ logger' = [handlers |-> <<>>, propagate |-> FALSE]
    /\ UNCHANGED <<saved, stack, nested, started, due, timedOut, listenerVars, queueVars>>

AddHandler(m) ==
    /\ phase[m] = "cleared"
    /\ GoTo(m, "ready")
    /\ logger' = [logger EXCEPT !.handlers = Append(@, m)]
    /\ UNCHANGED <<saved, stack, nested, started, due, timedOut, listenerVars, queueVars>>

StartListener(m) ==
    /\ phase[m] = "ready"
    /\ m \in Startable \ started
    /\ started' = started \cup {m}
    /\ listener' = [listener EXCEPT ![m] = "polling"]
    /\ UNCHANGED <<phase, due, timedOut, inHand, table, open, loggerVars, queueVars>>

-----------------------------------------------------------------------------
(* Records on their way.                                                   *)

\* A record goes to every handler of the logger; putting it on a closed queue
\* raises, and logging swallows that.
MainLogs(r) ==
    /\ r \in MainRecord \ logged
    /\ logged' = logged \cup {r}
    /\ buffer' = [m \in Manager |->
          IF m \in Range(logger.handlers) /\ ~QueueClosed(m) THEN Enqueue(buffer[m], r)
                                                             ELSE buffer[m]]
    /\ UNCHANGED <<workerBuf, pipe, stopVars, loggerVars, listenerVars>>

\* A worker process has the queue from its start (setup_worker_logging).
WorkerLogs(r) ==
    /\ r \in WorkerRecord \ logged
    /\ phase[QueueOf[r]] \notin {"new", "saved", "cleared"}
    /\ logged' = logged \cup {r}
    /\ workerBuf' = [workerBuf EXCEPT ![QueueOf[r]] = Enqueue(@, r)]
    /\ UNCHANGED <<buffer, pipe, stopVars, loggerVars, listenerVars>>

WorkerKilled(m) ==
    /\ workerBuf[m] # <<>>
    /\ workerBuf' = [workerBuf EXCEPT ![m] = <<>>]
    /\ UNCHANGED <<buffer, pipe, logged, stopVars, loggerVars, listenerVars>>

\* The feeder threads.
Feed(m) ==
    /\ buffer[m] # <<>> /\ Room(m)
    /\ pipe' = [pipe EXCEPT ![m] = Append(@, Head(buffer[m]))]
    /\ buffer' = [buffer EXCEPT ![m] = Tail(@)]
    /\ UNCHANGED <<workerBuf, logged, stopVars, loggerVars, listenerVars>>

FeedFromWorker(m) ==
    /\ workerBuf[m] # <<>> /\ Room(m)
    /\ pipe' = [pipe EXCEPT ![m] = Append(@, Head(workerBuf[m]))]
    /\ workerBuf' = [workerBuf EXCEPT ![m] = Tail(@)]
    /\ UNCHANGED <<buffer, logged, stopVars, loggerVars, listenerVars>>

-----------------------------------------------------------------------------
(* The listener thread: _run and handle.                                   *)

\* None is handled like a record.
BugTake(m) ==
    /\ listener[m] = "polling"
    /\ pipe[m] # <<>>
    /\ pipe' = [pipe EXCEPT ![m] = Tail(@)]
    /\ listener' = [listener EXCEPT ![m] = "routing"]
    /\ inHand' = [inHand EXCEPT ![m] = Head(pipe[m])]
    /\ UNCHANGED <<table, open, buffer, workerBuf, logged, stopVars, loggerVars>>

Take(m) ==
    /\ listener[m] = "polling"
    /\ pipe[m] # <<>>
    /\ pipe' = [pipe EXCEPT ![m] = Tail(@)]
    /\ IF Head(pipe[m]) = Sentinel
       THEN /\ listener' = [listener EXCEPT ![m] = "ended"]
            /\ UNCHANGED inHand
       ELSE /\ listener' = [listener EXCEPT ![m] = "routing"]
            /\ inHand' = [inHand EXCEPT ![m] = Head(pipe[m])]
    /\ UNCHANGED <<table, open, buffer, workerBuf, logged, stopVars, loggerVars>>

\* get raises once the main process has closed the queue.
PollClosedQueue(m) ==
    /\ listener[m] = "polling"
    /\ QueueClosed(m)
    /\ listener' = [listener EXCEPT ![m] = "failed"]
    /\ UNCHANGED <<inHand, table, open, queueVars, stopVars, loggerVars>>

\* _get_file_handler, under the listener's lock.
GetFileHandler(m) ==
    /\ listener[m] = "routing"
    /\ table' = [table EXCEPT ![m] = @ \cup {KeyOf[inHand[m]]}]
    /\ listener' = [listener EXCEPT ![m] = "writing"]
    /\ UNCHANGED <<inHand, open, queueVars, stopVars, loggerVars>>

\* The exception is caught, and the record is gone.
BugFactoryFails(m) ==
    /\ FactoryMayFail
    /\ listener[m] = "routing"
    /\ KeyOf[inHand[m]] \notin table[m]
    /\ listener' = [listener EXCEPT ![m] = "polling"]
    /\ inHand' = [inHand EXCEPT ![m] = None]
    /\ UNCHANGED <<table, open, queueVars, stopVars, loggerVars>>

\* Nothing catches what the factory of a new handler raises: the thread ends.
FactoryFails(m) ==
    /\ FactoryMayFail
    /\ listener[m] = "routing"
    /\ KeyOf[inHand[m]] \notin table[m]
    /\ listener' = [listener EXCEPT ![m] = "failed"]
    /\ inHand' = [inHand EXCEPT ![m] = None]
    /\ UNCHANGED <<table, open, queueVars, stopVars, loggerVars>>

\* A file handler opens its file when it writes, even if it was closed.
Write(m) ==
    /\ listener[m] = "writing"
    /\ open' = [open EXCEPT ![m] = @ \cup {KeyOf[inHand[m]]}]
    /\ due' = [due EXCEPT ![m] = @ \ {inHand[m]}]
    /\ inHand' = [inHand EXCEPT ![m] = None]
    /\ listener' = [listener EXCEPT ![m] = "polling"]
    /\ UNCHANGED <<table, queueVars, phase, started, timedOut, loggerVars>>

ListenerStep(m) ==
    Take(m) \/ PollClosedQueue(m) \/ GetFileHandler(m) \/ FactoryFails(m) \/ Write(m)

-----------------------------------------------------------------------------
(* stop, of the manager and of its listener.  A second call returns at once. *)

OnQueue(m) ==
    (Range(buffer[m]) \cup Range(pipe[m]) \cup {inHand[m]}) \cap Record

\* The sentinel is forgotten.
BugStopBegin(m) ==
    /\ phase[m] = "ready"
    /\ GoTo(m, IF ListenerAlive(m) THEN "join" ELSE "restore")
    /\ due' = [due EXCEPT ![m] = OnQueue(m)]
    /\ UNCHANGED <<started, timedOut, loggerVars, listenerVars, queueVars>>

StopBegin(m) ==
    /\ phase[m] = "ready"
    /\ IF ListenerAlive(m)
       THEN /\ GoTo(m, "join")
            /\ buffer' = [buffer EXCEPT ![m] = Enqueue(@, Sentinel)]
            /\ due' = [due EXCEPT ![m] = OnQueue(m)]
       ELSE /\ GoTo(m, IF m \in started THEN "close" ELSE "restore")
            /\ UNCHANGED <<buffer, due>>
    /\ UNCHANGED <<workerBuf, pipe, logged, started, timedOut, loggerVars, listenerVars>>

\* The listener is not waited for.
BugJoinEnds(m) ==
    /\ phase[m] = "join"
    /\ GoTo(m, "close")
    /\ UNCHANGED <<started, due, timedOut, loggerVars, listenerVars, queueVars>>

\* thread.join(timeout=5) returns because the thread has ended ...
JoinEnds(m) ==
    /\ phase[m] = "join"
    /\ ~ListenerAlive(m)
    /\ GoTo(m, "close")
    /\ UNCHANGED <<started, due, timedOut, loggerVars, listenerVars, queueVars>>

\* ... or because the time is over.
JoinTimesOut(m) ==
    /\ phase[m] = "join"
    /\ ListenerAlive(m)
    /\ GoTo(m, "close")
    /\ timedOut' = timedOut \cup {m}
    /\ UNCHANGED <<started, due, loggerVars, listenerVars, queueVars>>

CloseFiles(m) ==
    /\ phase[m] = "close"
    /\ GoTo(m, "restore")
    /\ open' = [open EXCEPT ![m] = @ \ table[m]]
    /\ table' = [table EXCEPT ![m] = {}]
    /\ UNCHANGED <<started, due, timedOut, listener, inHand, loggerVars, queueVars>>

\* Every stop brings the logger of the process back.
BugFound(m) == InitialLogger

Found(m) == saved[m]

\* The logger is put back before the queue is closed.
RestoreLogger(m) ==
    /\ phase[m] = "restore"
    /\ GoTo(m, "joinThread")
    /\ logger' = Found(m)
    /\ stack' = IF Last(stack) = m THEN Front(stack) ELSE stack
    /\ nested' = (nested /\ Last(stack) = m)
    /\ UNCHANGED <<saved, started, due, timedOut, listenerVars, queueVars>>

\* join_thread has no timeout: it waits until the feeder has emptied the buffer.
JoinThread(m) ==
    /\ phase[m] = "joinThread"
    /\ buffer[m] = <<>>
    /\ GoTo(m, "stopped")
    /\ UNCHANGED <<started, due, timedOut, loggerVars, listenerVars, queueVars>>

StopStep(m) ==
    JoinEnds(m) \/ CloseFiles(m) \/ RestoreLogger(m) \/ JoinThread(m)

ManagerStep(m) ==
    \/ SaveLogger(m) \/ ClearLogger(m) \/ AddHandler(m) \/ StartListener(m)
    \/ StopBegin(m) \/ StopStep(m) \/ JoinTimesOut(m)

Next ==
    \/ \E m \in Manager :
          \/ ManagerStep(m) \/ ListenerStep(m)
          \/ Feed(m) \/ FeedFromWorker(m) \/ WorkerKilled(m)
    \/ \E r \in MainRecord : MainLogs(r)
    \/ \E r \in WorkerRecord : WorkerLogs(r)

Spec == Init /\ [][Next]_vars

\* The threads run; nobody needs to log, and no join needs to time out.
FairSpec ==
    /\ Spec
    /\ \A m \in Manager :
          WF_vars(StopStep(m)) /\ WF_vars(ListenerStep(m)) /\ WF_vars(Feed(m))

-----------------------------------------------------------------------------
(* Properties.                                                             *)
SomePhase == {"new", "saved", "cleared", "ready", "join", "close",
              "restore", "joinThread", "stopped"}
Queued == Seq(Record \cup {Sentinel})

LogTypeOK ==
    /\ logger \in [handlers : Seq(Manager), propagate : BOOLEAN]
    /\ saved \in [Manager -> [handlers : Seq(Manager), propagate : BOOLEAN]]
    /\ phase \in [Manager -> SomePhase]
    /\ started \in SUBSET Manager /\ timedOut \in SUBSET Manager
    /\ listener \in [Manager ->
          {"unstarted", "polling", "routing", "writing", "ended", "failed"}]
    /\ inHand \in [Manager -> Record \cup {None}]
    /\ \A m \in Manager : inHand[m] = None <=> listener[m] \notin {"routing", "writing"}
    /\ table \in [Manager -> SUBSET Key] /\ open \in [Manager -> SUBSET Key]
    /\ buffer \in [Manager -> Queued] /\ workerBuf \in [Manager -> Seq(WorkerRecord)]
    /\ pipe \in [Manager -> Queued]
    /\ \A m \in Manager : Len(pipe[m]) <= PipeCapacity
    /\ logged \in SUBSET Record
    /\ due \in [Manager -> SUBSET Record]
    /\ stack \in Seq(Manager) /\ nested \in BOOLEAN

\* stop loses nothing: what was on the queue before the sentinel is written
\* before the listener ends, unless the thread was killed by an exception.
DueHandled == \A m \in Manager : listener[m] = "ended" => due[m] = {}

\* A stop that did not give up waiting for the listener leaves no log file
\* open, although every write opens the file of a closed handler again.
FilesClosed ==
    \A m \in Manager :
       phase[m] \in {"restore", "joinThread", "stopped"} =>
          m \in timedOut \/ open[m] = {}

\* As long as managers are set up one at a time and stopped in the reverse
\* order, the logger always belongs to the youngest one, and to the process
\* again when the last has gone.
LoggerRestored ==
    nested /\ SettingUp = {} =>
       logger = IF stack = <<>> THEN InitialLogger
                ELSE [handlers |-> <<Last(stack)>>, propagate |-> FALSE]

\* A full pipe that nobody reads any more.
Clogged(m) == ~ListenerAlive(m) /\ ~Room(m) /\ buffer[m] # <<>>

\* stop returns, whether or not the join times out -- unless the listener is
\* gone and the records that came behind the sentinel, or were never read at
\* all, do not fit into the pipe: then join_thread waits for ever.
StopReturns ==
    \A m \in Manager :
       phase[m] \notin {"new", "saved", "cleared", "ready"} ~> phase[m] = "stopped" \/ Clogged(m)
=============================================================================
