-------------------------- MODULE OwnershipProofs --------------------------
(***************************************************************************)
(* Who owns a task, for every number of workers, clients and tasks.  A     *)
(* live task is in the heap, with one worker or in one execution, and no   *)
(* thread sleeps beside work that is ready, whatever ids are submitted and *)
(* however often.  When no id is submitted twice, a slot is held exactly   *)
(* until its task is finished and released, and a stopped scheduler leaves *)
(* none behind.                                                            *)
(***************************************************************************)
EXTENDS SchedulerProofs

-----------------------------------------------------------------------------
(* The invariant.  A run that was accepted is queued in the heap, held by  *)
(* the worker that pulled it, or on its way through an execution.          *)
Held(w) == workerPc[w] \in {"run", "execute"}

\* A heap entry and a pulled entry stand for a queued run, each for its own.
EntryQueued ==
    /\ \A e \in pending : exec[e.seq].pc = "queued" /\ exec[e.seq].task = e.id
    /\ \A e, f \in pending : e.seq = f.seq => e = f

HeldQueued ==
    \A w \in Worker : Held(w) =>
        /\ exec[workerEntry[w].seq].pc = "queued"
        /\ exec[workerEntry[w].seq].task = workerEntry[w].id
        /\ \A e \in pending : e.seq # workerEntry[w].seq
        /\ \A v \in Worker : Held(v) /\ workerEntry[v].seq = workerEntry[w].seq => v = w

\* What executes is marked RUNNING, ...
RunningMarked ==
    /\ \A w \in Worker :
          workerPc[w] = "execute" => status[workerEntry[w].id] = "RUNNING"
    /\ \A r \in Run : exec[r].pc \in {"flying", "update"} => status[exec[r].task] = "RUNNING"

\* ... and a live record has an owner.
LiveOwned ==
    \A t \in Task :
        /\ status[t] = "PENDING" =>
              \/ \E e \in pending : e.id = t
              \/ \E w \in Worker : workerPc[w] = "run" /\ workerEntry[w].id = t
        /\ status[t] = "RUNNING" =>
              \/ \E w \in Worker : workerPc[w] = "execute" /\ workerEntry[w].id = t
              \/ \E r \in Run : exec[r].task = t /\ exec[r].pc \in {"flying", "update"}

\* A worker that runs a completion path runs one, and nothing else.
CallbackKnown ==
    \A r \in Run : exec[r].by \in Worker =>
        /\ workerPc[exec[r].by] = "callback"
        /\ \A q \in Run : exec[q].by = exec[r].by => q = r

\* A living worker is in _threads; it leaves only a closed scheduler, and only
\* a closed scheduler is being stopped.
ThreadsKnown ==
    /\ \A w \in Worker :
          /\ workerPc[w] \notin {"none", "dead"} => w \in threads
          /\ workerPc[w] \in {"exit", "failing"} => closed
    /\ stopPc # "idle" => closed

\* _fail_pending_tasks runs once at a time, when no worker can pull or run.
FailQuiet ==
    failPc # "idle" =>
        /\ closed
        /\ \A w \in Worker : workerPc[w] \in {"none", "dead", "failing"}
        /\ stopPc = "failing" \/ \E w \in Worker : workerPc[w] = "failing"

FailPending ==
    /\ \A t \in failTodo : status[t] = "PENDING"
    /\ failTodo # {} => failPc \in {"update", "release"}

\* A thread about to release a slot has finished the task for good.
ReleaseKnown ==
    /\ \A r \in Run : exec[r].pc = "record" => status[exec[r].task] \notin Live
    /\ failPc = "release" =>
          /\ status[failTask] \notin Live
          /\ \A r \in Run : exec[r].task = failTask => exec[r].pc = "queued"

\* Of one task at most one run has still to finish, ...
Ahead == {"queued", "flying", "update"}

OneAhead ==
    \A r, q \in Run :
        {exec[r].pc, exec[q].pc} \subseteq Ahead /\ exec[r].task = exec[q].task => r = q

\* ... and until the scheduler is closed it has a live record.
QueuedLive ==
    ~closed => \A r \in Run : exec[r].pc = "queued" => status[exec[r].task] \in Live

\* This much holds whatever is submitted, and however often: at most one run of
\* an id is ahead, because submit refuses an id that has a record.
CoreInv ==
    /\ EntryQueued /\ HeldQueued /\ RunningMarked /\ LiveOwned /\ CallbackKnown
    /\ ThreadsKnown /\ FailQuiet /\ FailPending /\ OneAhead /\ QueuedLive

\* That a slot is held for its task needs an id to be submitted once: an id
\* whose record was consumed before its slot was released may come back, and
\* the two runs then share one place in outstanding.
ReleaseInv == ReleaseKnown /\ OutstandingExact

OwnInv == CoreInv /\ ReleaseInv

\* A step keeps the first, and the second if the slots are in order.
OwnKept == CoreInv' /\ (SlotInv /\ ReleaseInv => ReleaseInv')

\* Where there is no worker, because the last one has gone, is failing what is
\* left or was never started, every PENDING task is on the list of tasks to
\* fail; and nobody is about to add one.
Drained ==
    /\ (\E w \in Worker : workerPc[w] = "failing") \/ threads = {} =>
           \A t \in Task : status[t] = "PENDING" => t \in failTodo
    /\ ~closed /\ threads = {} => \A c \in Client : clientPc[c] # "submit"

-----------------------------------------------------------------------------
(* Facts about one state.                                                  *)

\* An entry in the heap or in a worker's hands names a run and a task.
LEMMA EntryNames ==
    ASSUME TypeInv
    PROVE  /\ \A e \in pending : e.seq \in Run /\ e.seq < sequence /\ e.id \in Task
           /\ \A w \in Worker : Held(w) =>
                 /\ workerEntry[w].seq \in Run
                 /\ workerEntry[w].seq < sequence
                 /\ workerEntry[w].id \in Task
  <1>1. sequence \in Nat /\ sequence <= MaxSequence
    BY DEF TypeInv, TypeOK, BackendTypeOK, EntryKnown
  <1>2. \A e \in HeapEntry : e.seq < sequence => e.seq \in Run /\ e.id \in Task
    BY <1>1, SequenceAssumption DEF HeapEntry, Run
  <1>3. \A e \in pending : e \in HeapEntry /\ e.seq < sequence
    BY DEF TypeInv, TypeOK, BackendTypeOK, EntryKnown
  <1>4. \A w \in Worker : Held(w) =>
            workerEntry[w] \in HeapEntry /\ workerEntry[w].seq < sequence
    BY DEF TypeInv, EntryKnown, Held
  <1>5. QED
    BY <1>2, <1>3, <1>4

\* A run with a program counter has been accepted, for a task.
LEMMA RunNames ==
    ASSUME TypeInv, NEW r \in Run, exec[r].pc # "none"
    PROVE  exec[r].task \in Task /\ exec[r].task # None /\ r < sequence
  <1>1. r < sequence
    BY DEF TypeInv, ExecKnown, NoRun, TypeOK, BackendTypeOK, Run
  <1>2. QED
    BY <1>1, ActorAssumption DEF TypeInv, ExecKnown

\* One task, one run, when no id comes twice.
LEMMA OneRun ==
    ASSUME TypeInv, AcceptedOnce, NEW r \in Run, NEW q \in Run,
           exec[r].pc # "none", exec[q].task = exec[r].task
    PROVE  q = r
  BY RunNames DEF AcceptedOnce

-----------------------------------------------------------------------------
(* What the steps do to the records and to the runs.                       *)

\* Records change only after they have finished.
StatusSettles ==
    \A t \in Task :
        status'[t] = status[t] \/ {status[t], status'[t]} \cap Live = {}

\* The other records are kept, or dropped after they had finished.
OthersKept(t) ==
    \A u \in Task : u # t =>
        \/ status'[u] = status[u]
        \/ status[u] \in Terminal /\ status'[u] = "absent"

\* Finishing a record, marking it RUNNING, and reading one.
LEMMA FinishEffect ==
    ASSUME BackendTypeOK, NEW t \in Task, NEW s \in Terminal, UpdateStatus(t, s)
    PROVE  /\ OthersKept(t)
           /\ status[t] # "absent"
           /\ status'[t] \in {s, "absent"}
           /\ status'[t] \notin Live
           /\ UNCHANGED <<pending, sequence>>
  <1>1. UpdateTerminal(t, s)
    BY DEF UpdateStatus
  <1> DEFINE fin     == IF finishedAt[t] = Unset
                        THEN [finishedAt EXCEPT ![t] = terminalSequence] ELSE finishedAt
             evicted == Evicted(TerminalTasks \cup {t}, fin, readTasks)
  <1>2. evicted \subseteq TerminalTasks \cup {t}
    BY DEF Evicted
  <1>3. status' = [u \in Task |-> IF u \in evicted THEN "absent"
                                  ELSE IF u = t THEN s ELSE status[u]]
    BY <1>1 DEF UpdateTerminal
  <1>4. status[t] # "absent" /\ UNCHANGED <<pending, sequence>>
    BY <1>1 DEF UpdateTerminal
  <1> HIDE DEF evicted
  <1>5. QED
    BY <1>2, <1>3, <1>4 DEF OthersKept, TerminalTasks, Terminal, Live

LEMMA RunEffect ==
    ASSUME BackendTypeOK, NEW t \in Task, UpdateStatus(t, "RUNNING")
    PROVE  /\ \A u \in Task : u # t => status'[u] = status[u]
           /\ status'[t] = "RUNNING"
           /\ UNCHANGED <<pending, sequence>>
  BY DEF UpdateStatus, UpdateLive, Terminal, BackendTypeOK

LEMMA ReadEffect ==
    ASSUME BackendTypeOK, NEW c \in Client, call[c].task \in Task, ReadResponse(c)
    PROVE  StatusSettles /\ UNCHANGED pending
  <1>1. CASE UNCHANGED backendVars
    BY <1>1 DEF StatusSettles, backendVars
  <1>2. CASE Read(call[c].task, call[c].consume)
    BY <1>2 DEF Read, ReadKeep, ReadConsume, StatusSettles, BackendTypeOK, Terminal, Live
  <1>3. QED
    BY <1>1, <1>2 DEF ReadResponse

\* Run r moves to pc, and thread by takes it over; it stays the same task's.
RunMoves(r, pc, by) ==
    /\ \A q \in Run : q # r => exec'[q] = exec[q]
    /\ exec'[r].pc = pc
    /\ exec'[r].task = exec[r].task
    /\ exec'[r].by = by

LEMMA FinishingMoves ==
    ASSUME TypeOK, NEW r \in Run, NEW o, NEW by, exec' = Finishing(r, o, by)
    PROVE  RunMoves(r, "update", by)
  <1>1. exec[r] \in ExecRecord /\ exec \in [Run -> ExecRecord]
    BY DEF TypeOK
  <1>2. exec' = [exec EXCEPT ![r] =
                    [exec[r] EXCEPT !.pc = "update", !.outcome = o, !.by = by]]
    BY DEF Finishing
  <1>3. exec'[r] = [exec[r] EXCEPT !.pc = "update", !.outcome = o, !.by = by]
    BY <1>1, <1>2
  <1>4. /\ exec'[r].pc = "update"
        /\ exec'[r].task = exec[r].task
        /\ exec'[r].by = by
    BY <1>1, <1>3 DEF ExecRecord
  <1>5. QED
    BY <1>1, <1>2, <1>4 DEF RunMoves

LEMMA GoToMoves ==
    ASSUME TypeOK, NEW r \in Run, NEW pc, exec' = [exec EXCEPT ![r].pc = pc]
    PROVE  RunMoves(r, pc, exec[r].by)
  BY DEF TypeOK, ExecRecord, RunMoves

LEMMA EndMoves ==
    ASSUME TypeOK, NEW r \in Run, exec' = [exec EXCEPT ![r].pc = "done", ![r].by = None]
    PROVE  RunMoves(r, "done", None)
  BY DEF TypeOK, ExecRecord, RunMoves

-----------------------------------------------------------------------------
(* Steps that leave the heap and the runs alone.                           *)

\* Workers that neither hold an entry nor run a completion path may move.
IdleMoves ==
    \A w \in Worker :
        \/ workerPc'[w] = workerPc[w]
        \/ {workerPc[w], workerPc'[w]} \cap {"run", "execute", "callback"} = {}

LEMMA CoreFrame ==
    ASSUME TypeInv, CoreInv, UNCHANGED <<pending, exec, workerEntry>>, IdleMoves,
           StatusSettles, closed => closed'
    PROVE  /\ EntryQueued' /\ HeldQueued' /\ RunningMarked' /\ LiveOwned' /\ CallbackKnown'
           /\ OneAhead' /\ QueuedLive'
  <1>1. \A w \in Worker :
            /\ workerPc'[w] = "run" <=> workerPc[w] = "run"
            /\ workerPc'[w] = "execute" <=> workerPc[w] = "execute"
            /\ workerPc'[w] = "callback" <=> workerPc[w] = "callback"
            /\ Held(w)' <=> Held(w)
    BY DEF IdleMoves, Held
  <1>2. EntryQueued' /\ HeldQueued'
    BY <1>1 DEF CoreInv, EntryQueued, HeldQueued
  <1>3. \A t \in Task : /\ status'[t] = "RUNNING" <=> status[t] = "RUNNING"
                        /\ status'[t] = "PENDING" <=> status[t] = "PENDING"
    BY DEF StatusSettles, Live
  <1>4. RunningMarked'
    <2>1. \A w \in Worker : workerPc[w] = "execute" => workerEntry[w].id \in Task
      BY EntryNames DEF Held
    <2>2. \A r \in Run : exec[r].pc \in {"flying", "update"} => exec[r].task \in Task
      BY RunNames
    <2>3. QED
      BY <1>1, <1>3, <2>1, <2>2 DEF CoreInv, RunningMarked
  <1>5. LiveOwned'
    BY <1>1, <1>3 DEF CoreInv, LiveOwned
  <1>6. CallbackKnown'
    BY <1>1 DEF CoreInv, CallbackKnown
  <1>7. OneAhead' /\ QueuedLive'
    <2>1. \A r \in Run : exec[r].pc = "queued" => exec[r].task \in Task
      BY RunNames
    <2>2. \A t \in Task : status'[t] \in Live <=> status[t] \in Live
      BY DEF StatusSettles
    <2>3. QED
      BY <2>1, <2>2 DEF CoreInv, OneAhead, QueuedLive
  <1>8. QED
    BY <1>2, <1>4, <1>5, <1>6, <1>7

LEMMA ReleaseFrame ==
    ASSUME TypeInv, ReleaseInv, UNCHANGED <<exec, outstanding, failTask>>, StatusSettles,
           failPc' = "release" <=> failPc = "release"
    PROVE  ReleaseInv'
  <1>1. \A t \in Task : status'[t] \in Live <=> status[t] \in Live
    BY DEF StatusSettles
  <1>2. \A r \in Run : exec[r].pc = "record" => exec[r].task \in Task
    BY RunNames
  <1>3. failPc = "release" => failTask \in Task
    BY DEF TypeInv, FailKnown
  <1>4. QED
    BY <1>1, <1>2, <1>3 DEF ReleaseInv, ReleaseKnown, OutstandingExact, AboutToRelease

\* A step that concerns clients only, or the stopper only.
LEMMA OwnFrame ==
    ASSUME TypeInv, CoreInv,
           UNCHANGED <<pending, exec, workerPc, workerEntry, threads, outstanding>>,
           UNCHANGED <<failPc, failTodo, failTask>>,
           StatusSettles,
           closed => closed',
           stopPc' # "idle" => closed',
           stopPc = "failing" => stopPc' = "failing"
    PROVE  OwnKept
  <1>1. /\ EntryQueued' /\ HeldQueued' /\ RunningMarked' /\ LiveOwned' /\ CallbackKnown'
        /\ OneAhead' /\ QueuedLive'
    BY CoreFrame DEF IdleMoves
  <1>2. SlotInv /\ ReleaseInv => ReleaseInv'
    BY ReleaseFrame
  <1>3. ThreadsKnown' /\ FailQuiet'
    BY DEF CoreInv, ThreadsKnown, FailQuiet
  <1>4. FailPending'
    BY DEF CoreInv, FailPending, StatusSettles, Live, TypeInv, TypeOK
  <1>5. QED
    BY <1>1, <1>2, <1>3, <1>4 DEF OwnKept, CoreInv, ReleaseInv

-----------------------------------------------------------------------------
(* Clients.                                                                *)

\* Calls begin; the first submission starts the workers.
LEMMA OwnCalls ==
    ASSUME TypeInv, CoreInv, NEW c \in Client, NEW k \in Call, NEW t \in Task,
           CallQuery(c, k, t) \/ CallSubmit(c, k, t)
    PROVE  OwnKept
  <1>1. /\ UNCHANGED <<status, pending, exec, workerEntry, outstanding, closed, stopPc>>
        /\ UNCHANGED <<failPc, failTodo, failTask>>
    BY DEF CallQuery, CallSubmit, taskVars, backendVars, admissionVars, workerVars,
           shutdownVars, failVars, stopVars
  <1>2. CASE UNCHANGED workerVars
    BY <1>1, <1>2, OwnFrame DEF workerVars, StatusSettles, CoreInv, ThreadsKnown
  <1>3. CASE ~closed /\ threads = {} /\ threads' = Worker /\ workerPc' = [w \in Worker |-> "pull"]
    <2>1. \A w \in Worker : workerPc[w] \in {"none", "dead"}
      BY <1>3 DEF CoreInv, ThreadsKnown
    <2>2. IdleMoves /\ StatusSettles
      BY <1>1, <1>3, <2>1 DEF IdleMoves, StatusSettles
    <2>3. /\ EntryQueued' /\ HeldQueued' /\ RunningMarked' /\ LiveOwned' /\ CallbackKnown'
          /\ OneAhead' /\ QueuedLive'
      BY <1>1, <2>2, CoreFrame
    <2>4. SlotInv /\ ReleaseInv => ReleaseInv'
      BY <1>1, <2>2, ReleaseFrame
    <2>5. ThreadsKnown' /\ FailQuiet' /\ FailPending'
      BY <1>1, <1>3 DEF CoreInv, ThreadsKnown, FailQuiet, FailPending
    <2>6. QED
      BY <2>3, <2>4, <2>5 DEF OwnKept, CoreInv, ReleaseInv
  <1>4. QED
    BY <1>2, <1>3 DEF CallQuery, CallSubmit

\* An accepted submission is queued in the heap, for an id that is new.
LEMMA OwnAccept ==
    ASSUME TypeInv, CoreInv, NEW c \in Client, NEW p \in Priority,
           clientPc[c] = "submit", ~closed, Accept(c, call[c].task, p),
           UNCHANGED <<threads, workerPc, workerEntry, closed, stopPc>>,
           UNCHANGED <<failPc, failTodo, failTask>>
    PROVE  OwnKept
  <1> DEFINE t  == call[c].task
             e0 == [prio |-> p, seq |-> sequence, id |-> t]
  <1>1. t \in Task
    BY DEF TypeInv, CallKnown, CallRecord
  <1>2. sequence \in Run /\ exec[sequence] = NoRun
    BY SequenceAssumption DEF TypeInv, Accept, TypeOK, BackendTypeOK, Run, ExecKnown
  <1>3. /\ \A r \in Run : r # sequence => exec'[r] = exec[r]
        /\ exec'[sequence].pc = "queued"
        /\ exec'[sequence].task = t
        /\ exec'[sequence].by = None
    BY <1>2 DEF TypeInv, TypeOK, Accept, Queued, NoRun
  <1>4. /\ pending' = pending \cup {e0}
        /\ status[t] = "absent"
        /\ status'[t] = "PENDING"
        /\ \A u \in Task : u # t => status'[u] = status[u]
        /\ outstanding' = outstanding \cup {t}
    BY <1>1 DEF TypeInv, TypeOK, BackendTypeOK, Accept, Submit
  <1>5. /\ \A e \in pending : e.seq \in Run /\ e.seq # sequence
        /\ \A w \in Worker : Held(w) =>
              workerEntry[w].seq \in Run /\ workerEntry[w].seq # sequence /\ workerEntry[w].id \in Task
    BY <1>2, EntryNames DEF Run
  <1>6. \A r \in Run : exec[r].pc \in Ahead => exec[r].task # t
    BY <1>4 DEF CoreInv, RunningMarked, QueuedLive, Ahead, Live
  <1>7. failPc = "idle" /\ failTodo = {}
    BY DEF CoreInv, FailQuiet, FailPending
  <1>8. EntryQueued' /\ HeldQueued'
    <2>1. EntryQueued'
      BY <1>3, <1>4, <1>5 DEF CoreInv, EntryQueued
    <2>2. \A w \in Worker : Held(w)' <=> Held(w)
      BY DEF Held
    <2>3. \A w \in Worker : Held(w) => \A e \in pending' : e.seq # workerEntry[w].seq
      BY <1>4, <1>5 DEF CoreInv, HeldQueued
    <2>4. HeldQueued'
      BY <1>3, <1>5, <2>2, <2>3 DEF CoreInv, HeldQueued
    <2>5. QED
      BY <2>1, <2>4
  <1>9. RunningMarked'
    <2>1. \A w \in Worker : workerPc[w] = "execute" =>
              workerEntry[w].id \in Task /\ workerEntry[w].id # t
      BY <1>4, <1>5 DEF CoreInv, RunningMarked, Held
    <2>2. \A r \in Run : exec'[r].pc \in {"flying", "update"} =>
              r # sequence /\ exec[r].task \in Task
      BY <1>3, RunNames
    <2>3. QED
      BY <1>3, <1>4, <1>6, <2>1, <2>2 DEF CoreInv, RunningMarked, Ahead
  <1>10. LiveOwned'
    <2>1. \A r \in Run : exec[r].pc \in {"flying", "update"} => r # sequence
      BY <1>2 DEF NoRun
    <2>2. e0 \in pending' /\ e0.id = t /\ pending \subseteq pending'
      BY <1>4
    <2> HIDE DEF e0
    <2>3. ASSUME NEW u \in Task, status'[u] = "PENDING"
          PROVE  \/ \E e \in pending' : e.id = u
                 \/ \E w \in Worker : workerPc[w] = "run" /\ workerEntry[w].id = u
      BY <1>4, <2>2, <2>3 DEF CoreInv, LiveOwned
    <2>4. ASSUME NEW u \in Task, status'[u] = "RUNNING"
          PROVE  \/ \E w \in Worker : workerPc[w] = "execute" /\ workerEntry[w].id = u
                 \/ \E r \in Run : exec'[r].task = u /\ exec'[r].pc \in {"flying", "update"}
      <3>1. status[u] = "RUNNING"
        BY <1>4, <2>4
      <3>2. QED
        BY <1>3, <2>1, <3>1 DEF CoreInv, LiveOwned
    <2>5. QED
      BY <2>3, <2>4 DEF LiveOwned
  <1>11. CallbackKnown'
    BY <1>3, ActorAssumption DEF CoreInv, CallbackKnown
  <1>12. ThreadsKnown' /\ FailQuiet' /\ FailPending'
    BY <1>7 DEF CoreInv, ThreadsKnown, FailQuiet, FailPending
  <1>13. OneAhead' /\ QueuedLive'
    <2>1. OneAhead'
      BY <1>3, <1>6 DEF CoreInv, OneAhead
    <2>2. \A r \in Run : exec[r].pc = "queued" => exec[r].task \in Task
      BY RunNames
    <2>3. QueuedLive'
      BY <1>3, <1>4, <2>2 DEF CoreInv, QueuedLive, Live
    <2>4. QED
      BY <2>1, <2>3
  <1>14. SlotInv /\ ReleaseInv => ReleaseKnown'
    <2> SUFFICES ASSUME SlotInv, ReleaseInv PROVE ReleaseKnown'
      OBVIOUS
    <2>1. \A r \in Run : exec'[r].pc = "record" => r # sequence /\ exec[r].task \in Task
      BY <1>3, RunNames
    <2>2. \A r \in Run : exec[r].task # t
      BY DEF SlotInv, SubmittedOnce, Accepted
    <2>3. QED
      BY <1>3, <1>4, <1>7, <2>1, <2>2 DEF ReleaseInv, ReleaseKnown
  <1>15. SlotInv /\ ReleaseInv => OutstandingExact'
    <2>1. \A u \in Task : AboutToRelease(u)' <=> AboutToRelease(u)
      BY <1>2, <1>3, <1>7 DEF AboutToRelease, NoRun
    <2>2. QED
      BY <1>4, <2>1 DEF ReleaseInv, OutstandingExact, Live
  <1>16. QED
    BY <1>8, <1>9, <1>10, <1>11, <1>12, <1>13, <1>14, <1>15 DEF OwnKept, CoreInv, ReleaseInv

\* A caller goes on.
LEMMA OwnClient ==
    ASSUME TypeInv, CoreInv, NEW c \in Client, ClientStep(c)
    PROVE  OwnKept
  <1> USE DEF taskVars, admissionVars, workerVars, shutdownVars, failVars, stopVars
  <1>0. UNCHANGED <<threads, workerPc, workerEntry, closed, stopPc, failPc, failTodo, failTask>>
    BY DEF ClientStep, SubmitTask, RecordSubmission, NotifySubmission, WaitTerminal,
           PollWake, DeadlinePasses, RegisterAsync, CheckAsync, AwaitEnds, Collect
  <1>1. CASE \E p \in Priority : SubmitTask(c) /\ ~closed /\ Accept(c, call[c].task, p)
    BY <1>0, <1>1, OwnAccept DEF SubmitTask
  <1>2. CASE UNCHANGED <<exec, outstanding, pending>> /\ StatusSettles
    BY <1>0, <1>2, OwnFrame DEF CoreInv, ThreadsKnown
  <1>3. CASE WaitTerminal(c) \/ Collect(c)
    <2>1. call[c].task \in Task
      BY <1>3 DEF WaitTerminal, Collect, TypeInv, CallKnown, CallRecord
    <2>2. UNCHANGED <<exec, outstanding>>
      BY <1>3 DEF WaitTerminal, Collect
    <2>3. UNCHANGED pending /\ StatusSettles
      <3>1. CASE ReadResponse(c)
        BY <2>1, <3>1, ReadEffect DEF TypeInv, TypeOK
      <3>2. CASE UNCHANGED backendVars
        BY <3>2 DEF backendVars, StatusSettles
      <3>3. QED
        BY <1>3, <3>1, <3>2 DEF WaitTerminal, Collect
    <2>4. QED
      BY <1>2, <2>2, <2>3
  <1>4. CASE UNCHANGED backendVars /\ UNCHANGED admissionVars /\ UNCHANGED exec
    BY <1>2, <1>4 DEF backendVars, StatusSettles
  <1>5. QED
    BY <1>1, <1>3, <1>4
       DEF ClientStep, SubmitTask, Refuse, RecordSubmission, NotifySubmission,
           PollWake, DeadlinePasses, RegisterAsync, CheckAsync, AwaitEnds

-----------------------------------------------------------------------------
(* Workers.                                                                *)

\* A worker at work keeps _fail_pending_tasks from running.
LEMMA BusyWorker ==
    ASSUME CoreInv, NEW w \in Worker, workerPc[w] \notin {"none", "dead", "failing"}
    PROVE  failPc = "idle" /\ failTodo = {} /\ w \in threads
  BY DEF CoreInv, FailQuiet, FailPending, ThreadsKnown

\* A worker takes an entry from the heap.
LEMMA OwnPull ==
    ASSUME TypeInv, CoreInv, NEW w \in Worker, NEW e \in pending, PullTask(w),
           pending' = pending \ {e}, UNCHANGED <<status, threads>>,
           workerPc' = [workerPc EXCEPT ![w] = "run"],
           workerEntry' = [workerEntry EXCEPT ![w] = e]
    PROVE  OwnKept
  <1>1. /\ workerPc[w] = "pull"
        /\ UNCHANGED <<exec, outstanding, closed, stopPc, failPc, failTodo, failTask>>
    BY DEF PullTask, admissionVars, shutdownVars, failVars, stopVars
  <1>2. /\ workerPc'[w] = "run" /\ workerEntry'[w] = e
        /\ \A v \in Worker : v # w =>
              workerPc'[v] = workerPc[v] /\ workerEntry'[v] = workerEntry[v]
    BY DEF TypeInv, TypeOK
  <1>3. failPc = "idle" /\ failTodo = {} /\ w \in threads
    BY <1>1, BusyWorker
  <1>4. EntryQueued'
    BY <1>1 DEF CoreInv, EntryQueued
  <1>5. HeldQueued'
    <2>1. ~Held(w) /\ Held(w)' /\ \A v \in Worker : v # w => (Held(v)' <=> Held(v))
      BY <1>1, <1>2 DEF Held
    <2>2. \A f \in pending' : f \in pending /\ f.seq # e.seq
      BY DEF CoreInv, EntryQueued
    <2>3. \A v \in Worker : Held(v) => workerEntry[v].seq # e.seq
      BY DEF CoreInv, HeldQueued
    <2>4. exec[e.seq].pc = "queued" /\ exec[e.seq].task = e.id
      BY DEF CoreInv, EntryQueued
    <2>5. QED
      BY <1>1, <1>2, <2>1, <2>2, <2>3, <2>4 DEF CoreInv, HeldQueued
  <1>6. RunningMarked'
    BY <1>1, <1>2 DEF CoreInv, RunningMarked
  <1>7. LiveOwned'
    <2>1. ASSUME NEW t \in Task, status'[t] = "PENDING"
          PROVE  \/ \E f \in pending' : f.id = t
                 \/ \E v \in Worker : workerPc'[v] = "run" /\ workerEntry'[v].id = t
      <3>1. CASE \E f \in pending : f.id = t
        BY <1>2, <3>1
      <3>2. CASE \E v \in Worker : workerPc[v] = "run" /\ workerEntry[v].id = t
        BY <1>1, <1>2, <3>2
      <3>3. QED
        BY <2>1, <3>1, <3>2 DEF CoreInv, LiveOwned
    <2>2. ASSUME NEW t \in Task, status'[t] = "RUNNING"
          PROVE  \/ \E v \in Worker : workerPc'[v] = "execute" /\ workerEntry'[v].id = t
                 \/ \E r \in Run : exec'[r].task = t /\ exec'[r].pc \in {"flying", "update"}
      BY <1>1, <1>2, <2>2 DEF CoreInv, LiveOwned
    <2>3. QED
      BY <2>1, <2>2 DEF LiveOwned
  <1>8. CallbackKnown' /\ ThreadsKnown' /\ FailQuiet' /\ FailPending'
    BY <1>1, <1>2, <1>3 DEF CoreInv, CallbackKnown, ThreadsKnown, FailQuiet, FailPending
  <1>9. OneAhead' /\ QueuedLive'
    BY <1>1 DEF CoreInv, OneAhead, QueuedLive
  <1>10. SlotInv /\ ReleaseInv => ReleaseInv'
    BY <1>1, ReleaseFrame DEF StatusSettles
  <1>11. QED
    BY <1>4, <1>5, <1>6, <1>7, <1>8, <1>9, <1>10 DEF OwnKept, CoreInv

\* A worker hands the run it holds over: to the strategy, or to the completion
\* path that it then walks itself.
LEMMA OwnHandOver ==
    ASSUME TypeInv, CoreInv, NEW w \in Worker, Held(w),
           NEW r, r = workerEntry[w].seq, NEW t, t = workerEntry[w].id,
           NEW pc \in {"flying", "update"}, NEW by,
           RunMoves(r, pc, by),
           \/ by = w /\ workerPc' = [workerPc EXCEPT ![w] = "callback"]
           \/ by = exec[r].by /\ workerPc' = [workerPc EXCEPT ![w] = "pull"],
           status[t] \in Live,
           status'[t] = "RUNNING",
           \A u \in Task : u # t => status'[u] = status[u],
           UNCHANGED <<pending, workerEntry, threads, outstanding, closed, stopPc>>,
           UNCHANGED <<failPc, failTodo, failTask>>
    PROVE  OwnKept
  <1>1. r \in Run /\ t \in Task /\ exec[r].pc = "queued" /\ exec[r].task = t
    BY EntryNames DEF CoreInv, HeldQueued
  <1>2. /\ exec'[r].pc = pc /\ exec'[r].task = t
        /\ \A q \in Run : q # r => exec'[q] = exec[q]
    BY <1>1 DEF RunMoves
  <1>3. failPc = "idle" /\ failTodo = {} /\ w \in threads
    BY BusyWorker DEF Held
  <1>4. /\ workerPc'[w] \in {"callback", "pull"}
        /\ \A v \in Worker : v # w => workerPc'[v] = workerPc[v]
    BY DEF TypeInv, TypeOK
  <1>5. \A v \in Worker : Held(v)' <=> Held(v) /\ v # w
    BY <1>4 DEF Held
  <1>6. \A u \in Task : status'[u] \in Live <=> status[u] \in Live
    BY DEF Live
  <1>7. EntryQueued'
    <2>1. \A e \in pending : e.seq \in Run /\ e.seq # r
      BY EntryNames DEF CoreInv, HeldQueued
    <2>2. QED
      BY <1>2, <2>1 DEF CoreInv, EntryQueued
  <1>8. HeldQueued'
    <2>1. \A v \in Worker : Held(v) /\ v # w => workerEntry[v].seq \in Run /\ workerEntry[v].seq # r
      BY EntryNames DEF CoreInv, HeldQueued
    <2>2. QED
      BY <1>2, <1>5, <2>1 DEF CoreInv, HeldQueued
  <1>9. RunningMarked'
    <2>1. \A u \in Task : status[u] = "RUNNING" => status'[u] = "RUNNING"
      OBVIOUS
    <2>2. \A v \in Worker : workerPc'[v] = "execute" =>
              workerPc[v] = "execute" /\ workerEntry[v].id \in Task
      BY <1>4, EntryNames DEF Held
    <2>3. \A q \in Run : q # r /\ exec'[q].pc \in {"flying", "update"} => exec[q].task \in Task
      BY <1>2, RunNames
    <2>4. QED
      BY <1>1, <1>2, <2>1, <2>2, <2>3 DEF CoreInv, RunningMarked
  <1>10. LiveOwned'
    <2>1. ASSUME NEW u \in Task, status'[u] = "PENDING"
          PROVE  \/ \E e \in pending' : e.id = u
                 \/ \E v \in Worker : workerPc'[v] = "run" /\ workerEntry'[v].id = u
      <3>1. u # t /\ status[u] = "PENDING"
        BY <2>1
      <3>2. QED
        BY <1>4, <3>1 DEF CoreInv, LiveOwned
    <2>2. ASSUME NEW u \in Task, status'[u] = "RUNNING"
          PROVE  \/ \E v \in Worker : workerPc'[v] = "execute" /\ workerEntry'[v].id = u
                 \/ \E q \in Run : exec'[q].task = u /\ exec'[q].pc \in {"flying", "update"}
      <3>1. CASE u = t
        BY <1>1, <1>2, <3>1
      <3>2. CASE u # t
        <4>1. status[u] = "RUNNING"
          BY <2>2, <3>2
        <4>2. CASE \E v \in Worker : workerPc[v] = "execute" /\ workerEntry[v].id = u
          BY <1>4, <3>2, <4>2
        <4>3. CASE \E q \in Run : exec[q].task = u /\ exec[q].pc \in {"flying", "update"}
          BY <1>1, <1>2, <3>2, <4>3
        <4>4. QED
          BY <4>1, <4>2, <4>3 DEF CoreInv, LiveOwned
      <3>3. QED
        BY <3>1, <3>2
    <2>3. QED
      BY <2>1, <2>2 DEF LiveOwned
  <1>11. CallbackKnown'
    <2>1. \A q \in Run : exec[q].by # w
      BY DEF CoreInv, CallbackKnown, Held
    <2>2. CASE by = w /\ workerPc'[w] = "callback"
      BY <1>1, <1>2, <1>4, <2>1, <2>2 DEF CoreInv, CallbackKnown, RunMoves
    <2>3. CASE by = exec[r].by
      BY <1>1, <1>2, <1>4, <2>1, <2>3 DEF CoreInv, CallbackKnown, RunMoves
    <2>4. QED
      BY <2>2, <2>3 DEF TypeInv, TypeOK
  <1>12. ThreadsKnown' /\ FailQuiet' /\ FailPending'
    BY <1>3, <1>4 DEF CoreInv, ThreadsKnown, FailQuiet, FailPending
  <1>13. OneAhead' /\ QueuedLive'
    <2>1. \A q \in Run : /\ exec'[q].task = exec[q].task
                         /\ exec'[q].pc \in Ahead <=> exec[q].pc \in Ahead
                         /\ exec'[q].pc = "queued" =>
                                exec[q].pc = "queued" /\ exec[q].task \in Task
      BY <1>1, <1>2, RunNames DEF Ahead
    <2>2. OneAhead'
      BY <2>1 DEF CoreInv, OneAhead
    <2>3. QueuedLive'
      BY <1>6, <2>1 DEF CoreInv, QueuedLive
    <2>4. QED
      BY <2>2, <2>3
  <1>14. SlotInv /\ ReleaseInv => ReleaseInv'
    <2> SUFFICES ASSUME SlotInv, ReleaseInv PROVE ReleaseInv'
      OBVIOUS
    <2>1. \A q \in Run : exec'[q].pc = "record" =>
              q # r /\ exec[q].pc = "record" /\ exec[q].task \in Task
      BY <1>2, RunNames
    <2>2. ReleaseKnown'
      BY <1>2, <1>3, <1>6, <2>1 DEF ReleaseInv, ReleaseKnown
    <2>3. \A u \in Task : AboutToRelease(u)' <=> AboutToRelease(u)
      BY <1>1, <1>2, <1>3 DEF AboutToRelease
    <2>4. OutstandingExact'
      BY <1>6, <2>3 DEF ReleaseInv, OutstandingExact
    <2>5. QED
      BY <2>2, <2>4 DEF ReleaseInv
  <1>15. QED
    BY <1>7, <1>8, <1>9, <1>10, <1>11, <1>12, <1>13, <1>14 DEF OwnKept, CoreInv

\* A worker marks the task it pulled RUNNING.
LEMMA OwnStart ==
    ASSUME TypeInv, CoreInv, NEW w \in Worker, workerPc[w] = "run",
           NEW t, t = workerEntry[w].id, status[t] = "PENDING",
           status'[t] = "RUNNING",
           \A u \in Task : u # t => status'[u] = status[u],
           workerPc' = [workerPc EXCEPT ![w] = "execute"],
           UNCHANGED <<pending, exec, workerEntry, threads, outstanding, closed, stopPc>>,
           UNCHANGED <<failPc, failTodo, failTask>>
    PROVE  OwnKept
  <1> DEFINE r == workerEntry[w].seq
  <1>1. r \in Run /\ t \in Task /\ exec[r].pc = "queued" /\ exec[r].task = t
    BY EntryNames DEF CoreInv, HeldQueued, Held
  <1>2. failPc = "idle" /\ failTodo = {} /\ w \in threads
    BY BusyWorker
  <1>3. /\ workerPc'[w] = "execute"
        /\ \A v \in Worker : v # w => workerPc'[v] = workerPc[v]
    BY DEF TypeInv, TypeOK
  <1>4. \A v \in Worker : Held(v)' <=> Held(v)
    BY <1>3 DEF Held
  <1>5. \A u \in Task : status'[u] \in Live <=> status[u] \in Live
    BY DEF Live
  <1>6. EntryQueued' /\ HeldQueued'
    BY <1>4 DEF CoreInv, EntryQueued, HeldQueued
  <1>7. RunningMarked'
    <2>1. \A u \in Task : status[u] = "RUNNING" => status'[u] = "RUNNING"
      OBVIOUS
    <2>2. \A v \in Worker : Held(v) => workerEntry[v].id \in Task
      BY EntryNames
    <2>3. \A q \in Run : exec[q].pc \in {"flying", "update"} => exec[q].task \in Task
      BY RunNames
    <2>4. QED
      BY <1>3, <2>1, <2>2, <2>3 DEF CoreInv, RunningMarked, Held
  <1>8. LiveOwned'
    <2>1. ASSUME NEW u \in Task, status'[u] = "PENDING"
          PROVE  \/ \E e \in pending' : e.id = u
                 \/ \E v \in Worker : workerPc'[v] = "run" /\ workerEntry'[v].id = u
      <3>1. u # t /\ status[u] = "PENDING"
        BY <2>1
      <3>2. QED
        BY <1>3, <3>1 DEF CoreInv, LiveOwned
    <2>2. ASSUME NEW u \in Task, status'[u] = "RUNNING"
          PROVE  \/ \E v \in Worker : workerPc'[v] = "execute" /\ workerEntry'[v].id = u
                 \/ \E q \in Run : exec'[q].task = u /\ exec'[q].pc \in {"flying", "update"}
      <3>1. CASE u = t
        BY <1>3, <3>1
      <3>2. CASE u # t
        BY <1>3, <2>2, <3>2 DEF CoreInv, LiveOwned
      <3>3. QED
        BY <3>1, <3>2
    <2>3. QED
      BY <2>1, <2>2 DEF LiveOwned
  <1>9. CallbackKnown' /\ ThreadsKnown' /\ FailQuiet' /\ FailPending'
    BY <1>2, <1>3 DEF CoreInv, CallbackKnown, ThreadsKnown, FailQuiet, FailPending
  <1>10. OneAhead' /\ QueuedLive'
    <2>1. \A q \in Run : exec[q].pc = "queued" => exec[q].task \in Task
      BY RunNames
    <2>2. QED
      BY <1>5, <2>1 DEF CoreInv, OneAhead, QueuedLive
  <1>11. SlotInv /\ ReleaseInv => ReleaseInv'
    <2> SUFFICES ASSUME SlotInv, ReleaseInv PROVE ReleaseInv'
      OBVIOUS
    <2>1. \A q \in Run : exec[q].pc = "record" => exec[q].task \in Task
      BY RunNames
    <2>2. ReleaseKnown'
      BY <1>2, <1>5, <2>1 DEF ReleaseInv, ReleaseKnown
    <2>3. \A u \in Task : AboutToRelease(u)' <=> AboutToRelease(u)
      BY DEF AboutToRelease
    <2>4. OutstandingExact'
      BY <1>5, <2>3 DEF ReleaseInv, OutstandingExact
    <2>5. QED
      BY <2>2, <2>4 DEF ReleaseInv
  <1>12. QED
    BY <1>6, <1>7, <1>8, <1>9, <1>10, <1>11 DEF OwnKept, CoreInv

\* A worker drops an entry that is not PENDING any more.
LEMMA OwnSkip ==
    ASSUME TypeInv, CoreInv, NEW w \in Worker, workerPc[w] = "run",
           status[workerEntry[w].id] # "PENDING",
           workerPc' = [workerPc EXCEPT ![w] = "pull"],
           UNCHANGED <<pending, exec, workerEntry, threads, outstanding, closed, stopPc>>,
           UNCHANGED <<status, failPc, failTodo, failTask>>
    PROVE  OwnKept
  <1>1. /\ workerPc'[w] = "pull"
        /\ \A v \in Worker : v # w => workerPc'[v] = workerPc[v]
    BY DEF TypeInv, TypeOK
  <1>2. failPc = "idle" /\ failTodo = {} /\ w \in threads
    BY BusyWorker
  <1>3. EntryQueued' /\ HeldQueued' /\ RunningMarked'
    BY <1>1 DEF CoreInv, EntryQueued, HeldQueued, RunningMarked, Held
  <1>4. LiveOwned'
    BY <1>1 DEF CoreInv, LiveOwned
  <1>5. CallbackKnown' /\ ThreadsKnown' /\ FailQuiet' /\ FailPending'
    BY <1>1, <1>2 DEF CoreInv, CallbackKnown, ThreadsKnown, FailQuiet, FailPending
  <1>6. OneAhead' /\ QueuedLive'
    BY DEF CoreInv, OneAhead, QueuedLive
  <1>7. SlotInv /\ ReleaseInv => ReleaseInv'
    BY ReleaseFrame DEF StatusSettles
  <1>8. QED
    BY <1>3, <1>4, <1>5, <1>6, <1>7 DEF OwnKept, CoreInv

\* A worker leaves; the last one fails what is pending first.
LEMMA OwnExit ==
    ASSUME TypeInv, CoreInv, NEW w \in Worker, WorkerExit(w) \/ WorkerExited(w)
    PROVE  OwnKept
  <1>0. /\ UNCHANGED <<status, pending, exec, outstanding, workerEntry, failTask>>
        /\ UNCHANGED <<closed, stopPc>>
    BY DEF WorkerExit, WorkerExited, WorkerLeaves, WorkerGoTo, FailBegin, FailEnds, taskVars,
           backendVars, admissionVars, failVars, stopVars
  <1>1. StatusSettles
    BY <1>0 DEF StatusSettles
  <1>2. CASE WorkerExit(w)
    <2>1. workerPc[w] = "exit" /\ failPc = "idle" /\ failTodo = {} /\ w \in threads /\ closed
      BY <1>2, BusyWorker DEF WorkerExit, CoreInv, ThreadsKnown
    <2>2. /\ workerPc'[w] \in {"failing", "dead"}
          /\ \A v \in Worker : v # w => workerPc'[v] = workerPc[v]
      BY <1>2 DEF WorkerExit, WorkerLeaves, WorkerGoTo, TypeInv, TypeOK
    <2>3. /\ EntryQueued' /\ HeldQueued' /\ RunningMarked' /\ LiveOwned' /\ CallbackKnown'
          /\ OneAhead' /\ QueuedLive'
      BY <1>0, <1>1, <2>1, <2>2, CoreFrame DEF IdleMoves
    <2>4. failPc' # "release"
      BY <1>2, <2>1 DEF WorkerExit, FailBegin, failVars
    <2>5. SlotInv /\ ReleaseInv => ReleaseInv'
      BY <1>0, <1>1, <2>1, <2>4, ReleaseFrame
    <2>6. ThreadsKnown'
      BY <1>0, <1>2, <2>1, <2>2 DEF WorkerExit, WorkerLeaves, WorkerGoTo, CoreInv, ThreadsKnown,
             TypeInv, TypeOK
    <2>7. FailQuiet' /\ FailPending'
      <3>1. CASE IsLastWorker(w) /\ FailBegin(w) /\ WorkerGoTo(w, "failing")
        <4>1. \A v \in Worker : v # w => workerPc[v] \in {"none", "dead"}
          BY <3>1 DEF IsLastWorker, CoreInv, ThreadsKnown
        <4>2. FailQuiet'
          BY <1>0, <2>1, <2>2, <3>1, <4>1 DEF FailQuiet, WorkerGoTo, TypeInv, TypeOK
        <4>3. FailPending'
          BY <1>0, <3>1 DEF FailBegin, NeverStarted, FailPending
        <4>4. QED
          BY <4>2, <4>3
      <3>2. CASE UNCHANGED failVars
        BY <2>1, <3>2 DEF failVars, FailQuiet, FailPending
      <3>3. QED
        BY <1>2, <3>1, <3>2 DEF WorkerExit
    <2>8. QED
      BY <2>3, <2>5, <2>6, <2>7 DEF OwnKept, CoreInv, ReleaseInv
  <1>3. CASE WorkerExited(w)
    <2>1. workerPc[w] = "failing" /\ failPc = "done" /\ failPc' = "idle" /\ failTodo' = failTodo
      BY <1>3 DEF WorkerExited, FailEnds
    <2>2. /\ workerPc'[w] = "dead" /\ threads' = threads \ {w}
          /\ \A v \in Worker : v # w => workerPc'[v] = workerPc[v]
      BY <1>3 DEF WorkerExited, WorkerLeaves, TypeInv, TypeOK
    <2>3. /\ EntryQueued' /\ HeldQueued' /\ RunningMarked' /\ LiveOwned' /\ CallbackKnown'
          /\ OneAhead' /\ QueuedLive'
      BY <1>0, <1>1, <2>1, <2>2, CoreFrame DEF IdleMoves
    <2>4. SlotInv /\ ReleaseInv => ReleaseInv'
      BY <1>0, <1>1, <2>1, ReleaseFrame
    <2>5. ThreadsKnown' /\ FailQuiet' /\ FailPending'
      BY <1>0, <2>1, <2>2 DEF CoreInv, ThreadsKnown, FailQuiet, FailPending
    <2>6. QED
      BY <2>3, <2>4, <2>5 DEF OwnKept, CoreInv, ReleaseInv
  <1>4. QED
    BY <1>2, <1>3

\* A worker goes on.
LEMMA OwnWorker ==
    ASSUME TypeInv, CoreInv, NEW w \in Worker, WorkerStep(w)
    PROVE  OwnKept
  <1> USE DEF taskVars, admissionVars, workerVars, shutdownVars, failVars, stopVars
  <1>1. CASE PullTask(w)
    <2>1. CASE \E e \in pending : Pull(e) /\ ~closed
      BY <1>1, <2>1, OwnPull DEF PullTask, Pull, WorkerGoTo, backendVars
    <2>2. CASE UNCHANGED backendVars /\ UNCHANGED workerVars
      BY <1>1, <2>2, OwnFrame DEF PullTask, backendVars, StatusSettles, CoreInv, ThreadsKnown
    <2>3. CASE UNCHANGED backendVars /\ closed /\ WorkerGoTo(w, "exit")
      <3>1. failPc = "idle" /\ w \in threads /\ workerPc[w] = "pull"
        BY <1>1, BusyWorker DEF PullTask
      <3>2. /\ workerPc'[w] = "exit" /\ UNCHANGED <<threads, workerEntry>>
            /\ \A v \in Worker : v # w => workerPc'[v] = workerPc[v]
        BY <2>3 DEF WorkerGoTo, TypeInv, TypeOK
      <3>3. /\ UNCHANGED <<status, pending, exec, outstanding, closed, stopPc>>
            /\ UNCHANGED <<failPc, failTodo, failTask>>
        BY <1>1, <2>3 DEF PullTask, backendVars
      <3>4. StatusSettles /\ IdleMoves
        BY <3>1, <3>2, <3>3 DEF StatusSettles, IdleMoves
      <3>5. /\ EntryQueued' /\ HeldQueued' /\ RunningMarked' /\ LiveOwned' /\ CallbackKnown'
            /\ OneAhead' /\ QueuedLive'
        BY <3>2, <3>3, <3>4, CoreFrame
      <3>6. SlotInv /\ ReleaseInv => ReleaseInv'
        BY <3>3, <3>4, ReleaseFrame
      <3>7. ThreadsKnown' /\ FailQuiet' /\ FailPending'
        BY <2>3, <3>1, <3>2, <3>3 DEF CoreInv, ThreadsKnown, FailQuiet, FailPending
      <3>8. QED
        BY <3>5, <3>6, <3>7 DEF OwnKept, CoreInv, ReleaseInv
    <2>4. QED
      BY <1>1, <2>1, <2>2, <2>3 DEF PullTask
  <1>2. CASE StartTask(w)
    <2> DEFINE t == workerEntry[w].id
    <2>1. Held(w) /\ t \in Task /\ workerEntry[w].seq \in Run /\ workerPc[w] = "run"
      BY <1>2, EntryNames DEF StartTask, Held
    <2>2. UNCHANGED <<outstanding, closed, stopPc, failPc, failTodo, failTask>>
      BY <1>2 DEF StartTask
    <2>3. CASE status[t] = "PENDING"
      <3>1. UpdateStatus(t, "RUNNING")
        BY <1>2, <2>3 DEF StartTask
      <3>2. /\ \A u \in Task : u # t => status'[u] = status[u]
            /\ status'[t] = "RUNNING"
            /\ UNCHANGED pending
        BY <2>1, <3>1, RunEffect DEF TypeInv, TypeOK
      <3>3. CASE WorkerGoTo(w, "execute") /\ UNCHANGED exec
        BY <2>1, <2>2, <2>3, <3>2, <3>3, OwnStart DEF WorkerGoTo
      <3>4. CASE exec' = Finishing(workerEntry[w].seq, "FAILED", w) /\ WorkerGoTo(w, "callback")
        <4>1. RunMoves(workerEntry[w].seq, "update", w)
          BY <2>1, <3>4, FinishingMoves DEF TypeInv
        <4>2. status[t] \in Live
          BY <2>3 DEF Live
        <4>3. QED
          BY <2>1, <2>2, <3>2, <3>4, <4>1, <4>2, OwnHandOver DEF WorkerGoTo
      <3>5. QED
        BY <1>2, <2>3, <3>3, <3>4 DEF StartTask
    <2>4. CASE status[t] # "PENDING"
      BY <1>2, <2>1, <2>2, <2>4, OwnSkip DEF StartTask, WorkerGoTo, backendVars
    <2>5. QED
      BY <2>3, <2>4
  <1>3. CASE ExecuteInline(w) \/ ExecuteLater(w)
    <2> DEFINE t == workerEntry[w].id
               r == workerEntry[w].seq
    <2>1. Held(w) /\ t \in Task /\ r \in Run /\ workerPc[w] = "execute"
      BY <1>3, EntryNames DEF ExecuteInline, ExecuteLater, Held
    <2>2. /\ UNCHANGED <<status, pending, outstanding, closed, stopPc>>
          /\ UNCHANGED <<workerEntry, threads, failPc, failTodo, failTask>>
      BY <1>3 DEF ExecuteInline, ExecuteLater, WorkerGoTo, backendVars
    <2>3. status[t] = "RUNNING" /\ status[t] \in Live
      BY <2>1 DEF CoreInv, RunningMarked, Live
    <2>4. CASE ExecuteInline(w)
      <3>1. RunMoves(r, "update", w)
        BY <2>1, <2>4, FinishingMoves DEF ExecuteInline, TypeInv
      <3>2. workerPc' = [workerPc EXCEPT ![w] = "callback"]
        BY <2>4 DEF ExecuteInline, WorkerGoTo
      <3>3. QED
        BY <2>1, <2>2, <2>3, <3>1, <3>2, OwnHandOver
    <2>5. CASE ExecuteLater(w)
      <3>1. RunMoves(r, "flying", exec[r].by)
        BY <2>1, <2>5, GoToMoves DEF ExecuteLater, TypeInv
      <3>2. workerPc' = [workerPc EXCEPT ![w] = "pull"]
        BY <2>5 DEF ExecuteLater, WorkerGoTo
      <3>3. QED
        BY <2>1, <2>2, <2>3, <3>1, <3>2, OwnHandOver
    <2>6. QED
      BY <1>3, <2>4, <2>5
  <1>4. QED
    BY <1>1, <1>2, <1>3, OwnExit DEF WorkerStep

-----------------------------------------------------------------------------
(* Executions.                                                             *)

\* An execution that moves on, before or after it updates the record, is still
\* or no longer the owner of the task.
LEMMA RunAdvances ==
    ASSUME TypeInv, CoreInv, NEW r \in Run, NEW pc, NEW by,
           RunMoves(r, pc, by),
           exec[r].pc # "queued", pc # "queued",
           exec[r].pc \in {"flying", "update"} <=> pc \in {"flying", "update"},
           UNCHANGED <<status, pending, workerEntry, closed>>,
           \A w \in Worker : \/ workerPc'[w] = workerPc[w]
                             \/ {workerPc[w], workerPc'[w]} \cap {"run", "execute"} = {}
    PROVE  /\ EntryQueued' /\ HeldQueued' /\ RunningMarked' /\ LiveOwned'
           /\ OneAhead' /\ QueuedLive'
  <1>1. /\ exec'[r].pc = pc /\ exec'[r].task = exec[r].task
        /\ \A q \in Run : q # r => exec'[q] = exec[q]
    BY DEF RunMoves
  <1>2. \A w \in Worker :
            /\ workerPc'[w] = "run" <=> workerPc[w] = "run"
            /\ workerPc'[w] = "execute" <=> workerPc[w] = "execute"
            /\ Held(w)' <=> Held(w)
    BY DEF Held
  <1>3. EntryQueued'
    <2>1. \A e \in pending : e.seq \in Run /\ e.seq # r
      BY EntryNames DEF CoreInv, EntryQueued
    <2>2. QED
      BY <1>1, <2>1 DEF CoreInv, EntryQueued
  <1>4. HeldQueued'
    <2>1. \A w \in Worker : Held(w) => workerEntry[w].seq \in Run /\ workerEntry[w].seq # r
      BY EntryNames DEF CoreInv, HeldQueued
    <2>2. QED
      BY <1>1, <1>2, <2>1 DEF CoreInv, HeldQueued
  <1>5. \A q \in Run : /\ exec'[q].task = exec[q].task
                       /\ exec'[q].pc \in {"flying", "update"} <=> exec[q].pc \in {"flying", "update"}
    BY <1>1
  <1>6. RunningMarked'
    BY <1>2, <1>5 DEF CoreInv, RunningMarked
  <1>7. LiveOwned'
    BY <1>2, <1>5 DEF CoreInv, LiveOwned
  <1>8. \A q \in Run : /\ exec'[q].pc = "queued" <=> exec[q].pc = "queued"
                       /\ exec'[q].pc \in Ahead <=> exec[q].pc \in Ahead
    BY <1>1 DEF Ahead
  <1>9. OneAhead' /\ QueuedLive'
    BY <1>5, <1>8 DEF CoreInv, OneAhead, QueuedLive
  <1>10. QED
    BY <1>3, <1>4, <1>6, <1>7, <1>9

\* The future of an execution is finished, by the strategy or by stop.
LEMMA OwnFinished ==
    ASSUME TypeInv, CoreInv, NEW r \in Run, exec[r].pc = "flying",
           NEW o, NEW by \in {None, Stopper}, exec' = Finishing(r, o, by),
           UNCHANGED <<status, pending, workerPc, workerEntry, threads, outstanding>>,
           UNCHANGED <<closed, stopPc, failPc, failTodo, failTask>>
    PROVE  OwnKept
  <1>1. RunMoves(r, "update", by)
    BY FinishingMoves DEF TypeInv
  <1>2. /\ EntryQueued' /\ HeldQueued' /\ RunningMarked' /\ LiveOwned'
        /\ OneAhead' /\ QueuedLive'
    BY <1>1, RunAdvances
  <1>3. CallbackKnown'
    BY <1>1, ActorAssumption DEF CoreInv, CallbackKnown, RunMoves
  <1>4. ThreadsKnown' /\ FailQuiet' /\ FailPending'
    BY DEF CoreInv, ThreadsKnown, FailQuiet, FailPending
  <1>5. \A q \in Run : /\ exec'[q].task = exec[q].task
                       /\ exec'[q].pc = "record" <=> exec[q].pc = "record"
                       /\ exec'[q].pc = "queued" <=> exec[q].pc = "queued"
    BY <1>1 DEF RunMoves
  <1>6. SlotInv /\ ReleaseInv => ReleaseInv'
    BY <1>5 DEF ReleaseInv, ReleaseKnown, OutstandingExact, AboutToRelease
  <1>7. QED
    BY <1>2, <1>3, <1>4, <1>6 DEF OwnKept, CoreInv

\* The record gets its outcome.
LEMMA OwnUpdate ==
    ASSUME TypeInv, CoreInv, NEW r \in Run, CompleteUpdate(r)
    PROVE  OwnKept
  <1>0. PICK t \in Task : t = exec[r].task
    BY RunNames DEF CompleteUpdate
  <1>1. exec[r].pc = "update" /\ t = exec[r].task /\ exec[r].outcome \in Terminal
    BY <1>0 DEF CompleteUpdate, TypeInv, ExecKnown
  <1>2. /\ UNCHANGED <<workerPc, workerEntry, threads, outstanding, closed, stopPc>>
        /\ UNCHANGED <<failPc, failTodo, failTask>>
    BY DEF CompleteUpdate, admissionVars, workerVars, shutdownVars, failVars, stopVars
  <1>3. OthersKept(t) /\ status'[t] \notin Live /\ UNCHANGED pending
    BY <1>1, FinishEffect DEF CompleteUpdate, TypeInv, TypeOK
  <1>4. RunMoves(r, "record", exec[r].by)
    BY GoToMoves DEF CompleteUpdate, ExecGoTo, TypeInv
  <1>5. /\ exec'[r].pc = "record" /\ exec'[r].task = t
        /\ \A q \in Run : q # r => exec'[q] = exec[q]
    BY <1>1, <1>4 DEF RunMoves
  <1>6. \A q \in Run : exec[q].pc \in Ahead /\ exec[q].task = t => q = r
    BY <1>1 DEF CoreInv, OneAhead, Ahead
  <1>7. status[t] = "RUNNING"
    BY <1>1 DEF CoreInv, RunningMarked
  <1>8. \A u \in Task : u # t => /\ status'[u] \in Live <=> status[u] \in Live
                                 /\ status[u] \in Live => status'[u] = status[u]
                                 /\ status'[u] \in Live => status'[u] = status[u]
    BY <1>3 DEF OthersKept, Terminal, Live
  <1>9. \A w \in Worker : Held(w) =>
            /\ workerEntry[w].seq \in Run /\ workerEntry[w].seq # r
            /\ workerEntry[w].id \in Task /\ workerEntry[w].id # t
    BY <1>1, <1>6, EntryNames DEF CoreInv, HeldQueued, Ahead
  <1>10. EntryQueued'
    <2>1. \A e \in pending : e.seq \in Run /\ e.seq # r
      BY <1>1, EntryNames DEF CoreInv, EntryQueued
    <2>2. QED
      BY <1>3, <1>5, <2>1 DEF CoreInv, EntryQueued
  <1>11. HeldQueued'
    <2>1. \A w \in Worker : Held(w)' <=> Held(w)
      BY <1>2 DEF Held
    <2>2. QED
      BY <1>2, <1>3, <1>5, <1>9, <2>1 DEF CoreInv, HeldQueued
  <1>12. RunningMarked'
    <2>1. \A w \in Worker : workerPc[w] = "execute" => status'[workerEntry[w].id] = "RUNNING"
      BY <1>8, <1>9 DEF CoreInv, RunningMarked, Held, Live
    <2>2. ASSUME NEW q \in Run, exec'[q].pc \in {"flying", "update"}
          PROVE  status'[exec'[q].task] = "RUNNING"
      <3>1. q # r /\ exec'[q] = exec[q] /\ exec[q].task \in Task /\ exec[q].task # t
        BY <1>5, <1>6, <2>2, RunNames DEF Ahead
      <3>2. QED
        BY <1>8, <2>2, <3>1 DEF CoreInv, RunningMarked, Live
    <2>3. QED
      BY <1>2, <2>1, <2>2 DEF RunningMarked
  <1>13. LiveOwned'
    <2>1. ASSUME NEW u \in Task, status'[u] = "PENDING"
          PROVE  \/ \E e \in pending' : e.id = u
                 \/ \E v \in Worker : workerPc'[v] = "run" /\ workerEntry'[v].id = u
      <3>1. status[u] = "PENDING"
        BY <1>3, <1>8, <2>1 DEF Live
      <3>2. QED
        BY <1>2, <1>3, <3>1 DEF CoreInv, LiveOwned
    <2>2. ASSUME NEW u \in Task, status'[u] = "RUNNING"
          PROVE  \/ \E v \in Worker : workerPc'[v] = "execute" /\ workerEntry'[v].id = u
                 \/ \E q \in Run : exec'[q].task = u /\ exec'[q].pc \in {"flying", "update"}
      <3>1. u # t /\ status[u] = "RUNNING"
        BY <1>3, <1>8, <2>2 DEF Live
      <3>2. QED
        BY <1>1, <1>2, <1>5, <3>1 DEF CoreInv, LiveOwned
    <2>3. QED
      BY <2>1, <2>2 DEF LiveOwned
  <1>14. CallbackKnown'
    BY <1>2, <1>4 DEF CoreInv, CallbackKnown, RunMoves
  <1>15. ThreadsKnown' /\ FailQuiet' /\ FailPending'
    <2>1. \A u \in failTodo : u \in Task /\ status'[u] = "PENDING"
      BY <1>7, <1>8 DEF CoreInv, FailPending, Live, TypeInv, TypeOK
    <2>2. QED
      BY <1>2, <2>1 DEF CoreInv, ThreadsKnown, FailQuiet, FailPending
  <1>16. OneAhead' /\ QueuedLive'
    <2>1. \A q \in Run : exec'[q].pc \in Ahead =>
              q # r /\ exec'[q] = exec[q] /\ exec[q].task \in Task /\ exec[q].task # t
      BY <1>5, <1>6, RunNames DEF Ahead
    <2>2. OneAhead'
      BY <2>1 DEF CoreInv, OneAhead
    <2>3. QueuedLive'
      BY <1>2, <1>8, <2>1 DEF CoreInv, QueuedLive, Ahead
    <2>4. QED
      BY <2>2, <2>3
  <1>17. SlotInv /\ ReleaseInv => ReleaseKnown'
    <2> SUFFICES ASSUME SlotInv, ReleaseInv PROVE ReleaseKnown'
      OBVIOUS
    <2>1. ASSUME NEW q \in Run, exec'[q].pc = "record" PROVE status'[exec'[q].task] \notin Live
      <3>1. CASE q = r
        BY <1>3, <1>5, <3>1
      <3>2. CASE q # r
        <4>1. exec[q].pc = "record" /\ exec[q].task \in Task /\ exec[q].task # t
          BY <1>1, <1>5, <2>1, <3>2, RunNames, OneRun DEF SlotInv
        <4>2. QED
          BY <1>5, <1>8, <3>2, <4>1 DEF ReleaseInv, ReleaseKnown
      <3>3. QED
        BY <3>1, <3>2
    <2>2. CASE failPc = "release"
      <3>1. failTask \in Task /\ failTask # t /\ status[failTask] \notin Live
        BY <1>1, <2>2 DEF ReleaseInv, ReleaseKnown, TypeInv, FailKnown
      <3>2. \A q \in Run : exec'[q].task = failTask => exec'[q].pc = "queued"
        BY <1>5, <2>2, <3>1 DEF ReleaseInv, ReleaseKnown
      <3>3. QED
        BY <1>2, <1>8, <2>1, <3>1, <3>2 DEF ReleaseKnown
    <2>3. QED
      BY <1>2, <2>1, <2>2 DEF ReleaseKnown
  <1>18. SlotInv /\ ReleaseInv => OutstandingExact'
    <2> SUFFICES ASSUME SlotInv, ReleaseInv PROVE OutstandingExact'
      OBVIOUS
    <2>1. \A u \in Task : u # t => (AboutToRelease(u)' <=> AboutToRelease(u))
      BY <1>1, <1>2, <1>5 DEF AboutToRelease
    <2>2. AboutToRelease(t)'
      BY <1>5 DEF AboutToRelease
    <2>3. t \in outstanding
      BY <1>1, <1>7 DEF ReleaseInv, OutstandingExact, Live
    <2>4. QED
      BY <1>2, <1>8, <2>1, <2>2, <2>3 DEF ReleaseInv, OutstandingExact
  <1>19. QED
    BY <1>10, <1>11, <1>12, <1>13, <1>14, <1>15, <1>16, <1>17, <1>18
       DEF OwnKept, CoreInv, ReleaseInv

\* The slot is released, the waiters are told, the coroutine is resolved.
LEMMA OwnRelease ==
    ASSUME TypeInv, CoreInv, NEW r \in Run,
           CompleteRelease(r) \/ CompleteNotify(r) \/ CompleteResolve(r)
    PROVE  OwnKept
  <1> USE DEF taskVars, admissionVars, workerVars, shutdownVars, failVars, stopVars
  <1>1. /\ UNCHANGED <<status, pending, workerEntry, threads, closed, stopPc>>
        /\ UNCHANGED <<failPc, failTodo, failTask>>
    BY DEF CompleteRelease, CompleteNotify, CompleteResolve, WorkerGoTo, backendVars
  <1>2. exec[r].pc \in {"record", "notify", "resolve"} /\ exec[r].task \in Task
    <2>1. exec[r].pc \in {"record", "notify", "resolve"}
      BY DEF CompleteRelease, CompleteNotify, CompleteResolve
    <2>2. QED
      BY <2>1, RunNames
  <1>3. CASE CompleteRelease(r)
    <2>0. PICK t \in Task : t = exec[r].task
      BY <1>2
    <2>1. RunMoves(r, "notify", exec[r].by) /\ exec[r].pc = "record" /\ UNCHANGED workerPc
      BY <1>3, GoToMoves DEF CompleteRelease, ExecGoTo, TypeInv
    <2>2. /\ EntryQueued' /\ HeldQueued' /\ RunningMarked' /\ LiveOwned'
          /\ OneAhead' /\ QueuedLive'
      BY <1>1, <2>1, RunAdvances
    <2>3. CallbackKnown' /\ ThreadsKnown' /\ FailQuiet' /\ FailPending'
      BY <1>1, <2>1 DEF CoreInv, CallbackKnown, ThreadsKnown, FailQuiet, FailPending, RunMoves
    <2>4. /\ exec'[r].pc = "notify" /\ exec'[r].task = t
          /\ \A q \in Run : q # r => exec'[q] = exec[q]
      BY <2>0, <2>1 DEF RunMoves
    <2>5. SlotInv /\ ReleaseInv => ReleaseKnown'
      <3> SUFFICES ASSUME ReleaseInv PROVE ReleaseKnown'
        OBVIOUS
      <3>1. \A q \in Run : exec'[q].pc = "record" => exec'[q] = exec[q]
        BY <2>4
      <3>2. failPc = "release" => \A q \in Run : exec'[q].task = failTask => exec'[q].pc = "queued"
        BY <2>0, <2>1, <2>4 DEF ReleaseInv, ReleaseKnown
      <3>3. QED
        BY <1>1, <3>1, <3>2 DEF ReleaseInv, ReleaseKnown
    <2>6. SlotInv /\ ReleaseInv => OutstandingExact'
      <3> SUFFICES ASSUME SlotInv, ReleaseInv PROVE OutstandingExact'
        OBVIOUS
      <3>1. outstanding' = outstanding \ {t}
        BY <1>3, <2>0 DEF CompleteRelease, ReleaseSlot
      <3>2. status[t] \notin Live
        BY <2>0, <2>1 DEF ReleaseInv, ReleaseKnown
      <3>3. ~AboutToRelease(t)'
        <4>1. \A q \in Run : exec[q].task = t => q = r
          BY <1>2, <2>0, OneRun DEF SlotInv
        <4>2. ~(failPc = "release" /\ failTask = t)
          BY <2>0, <2>1 DEF ReleaseInv, ReleaseKnown
        <4>3. QED
          BY <1>1, <2>4, <4>1, <4>2 DEF AboutToRelease
      <3>4. \A u \in Task : u # t => (AboutToRelease(u)' <=> AboutToRelease(u))
        BY <1>1, <2>0, <2>4 DEF AboutToRelease
      <3>5. QED
        BY <1>1, <3>1, <3>2, <3>3, <3>4 DEF ReleaseInv, OutstandingExact
    <2>7. QED
      BY <2>2, <2>3, <2>5, <2>6 DEF OwnKept, CoreInv, ReleaseInv
  <1>4. CASE CompleteNotify(r) \/ CompleteResolve(r)
    <2>1. PICK pc \in {"resolve", "done"}, by \in Thread \cup {None} : RunMoves(r, pc, by)
      <3>1. exec[r].by \in Thread \cup {None}
        BY DEF TypeInv, TypeOK, ExecRecord
      <3>2. QED
        BY <1>4, <3>1, GoToMoves, EndMoves
           DEF CompleteNotify, CompleteResolve, ExecGoTo, TypeInv
    <2>2. UNCHANGED outstanding /\ exec[r].pc \in {"notify", "resolve"}
      BY <1>4 DEF CompleteNotify, CompleteResolve
    <2>3. \/ UNCHANGED workerPc
          \/ /\ exec[r].by \in Worker
             /\ workerPc' = [workerPc EXCEPT ![exec[r].by] = "pull"]
      BY <1>4 DEF CompleteNotify, CompleteResolve, WorkerGoTo
    <2>4. exec[r].by \in Worker => workerPc[exec[r].by] = "callback"
      BY DEF CoreInv, CallbackKnown
    <2>5. \A w \in Worker : \/ workerPc'[w] = workerPc[w]
                            \/ workerPc[w] = "callback" /\ workerPc'[w] = "pull"
      BY <2>3, <2>4 DEF TypeInv, TypeOK
    <2>6. /\ EntryQueued' /\ HeldQueued' /\ RunningMarked' /\ LiveOwned'
          /\ OneAhead' /\ QueuedLive'
      BY <1>1, <2>1, <2>2, <2>5, RunAdvances
    <2>7. CallbackKnown'
      <3>1. CASE CompleteNotify(r)
        <4>1. RunMoves(r, "resolve", exec[r].by) /\ UNCHANGED workerPc
          BY <3>1, GoToMoves DEF CompleteNotify, ExecGoTo, TypeInv
        <4>2. QED
          BY <4>1 DEF CoreInv, CallbackKnown, RunMoves
      <3>2. CASE CompleteResolve(r)
        <4>1. RunMoves(r, "done", None)
          BY <3>2, EndMoves DEF CompleteResolve, TypeInv
        <4>2. \A q \in Run : exec'[q].by \in Worker =>
                  q # r /\ exec'[q] = exec[q] /\ exec[q].by # exec[r].by
          BY <4>1, ActorAssumption DEF CoreInv, CallbackKnown, RunMoves
        <4>3. \A w \in Worker : w # exec[r].by => workerPc'[w] = workerPc[w]
          BY <2>3 DEF TypeInv, TypeOK
        <4>4. QED
          BY <4>1, <4>2, <4>3 DEF CoreInv, CallbackKnown, RunMoves
      <3>3. QED
        BY <1>4, <3>1, <3>2
    <2>8. ThreadsKnown'
      BY <1>1, <2>5 DEF CoreInv, ThreadsKnown
    <2>9. FailQuiet' /\ FailPending'
      BY <1>1, <2>5 DEF CoreInv, FailQuiet, FailPending
    <2>10. \A q \in Run : /\ exec'[q].task = exec[q].task
                          /\ exec'[q].pc = "record" <=> exec[q].pc = "record"
                          /\ exec'[q].pc = "queued" <=> exec[q].pc = "queued"
      BY <2>1, <2>2 DEF RunMoves
    <2>11. SlotInv /\ ReleaseInv => ReleaseInv'
      BY <1>1, <2>2, <2>10 DEF ReleaseInv, ReleaseKnown, OutstandingExact, AboutToRelease
    <2>12. QED
      BY <2>6, <2>7, <2>8, <2>9, <2>11 DEF OwnKept, CoreInv, ReleaseInv
  <1>5. QED
    BY <1>3, <1>4

-----------------------------------------------------------------------------
(* _fail_pending_tasks and stop.                                           *)

\* A PENDING task is failed: its run is still queued, so nobody else will
\* release its slot.
LEMMA OwnFailUpdate ==
    ASSUME TypeInv, CoreInv, FailUpdate
    PROVE  OwnKept
  <1>1. PICK t \in failTodo : /\ UpdateStatus(t, "FAILED")
                              /\ failTask' = t
                              /\ failTodo' = failTodo \ {t}
    BY DEF FailUpdate
  <1>2. /\ UNCHANGED <<exec, workerPc, workerEntry, threads, outstanding, closed, stopPc>>
        /\ failPc = "update" /\ failPc' = "release"
    BY DEF FailUpdate, admissionVars, workerVars, stopVars
  <1>3. t \in Task /\ status[t] = "PENDING"
    BY <1>1 DEF CoreInv, FailPending, TypeInv, TypeOK
  <1>4. OthersKept(t) /\ status'[t] \notin Live /\ UNCHANGED pending
    BY <1>1, <1>3, FinishEffect DEF TypeInv, TypeOK, Terminal
  <1>5. \A u \in Task : u # t => /\ status'[u] \in Live <=> status[u] \in Live
                                 /\ status[u] \in Live => status'[u] = status[u]
                                 /\ status'[u] \in Live => status'[u] = status[u]
    BY <1>4 DEF OthersKept, Terminal, Live
  <1>6. closed /\ \A w \in Worker : workerPc[w] \in {"none", "dead", "failing"}
    BY <1>2 DEF CoreInv, FailQuiet
  <1>7. EntryQueued' /\ HeldQueued' /\ CallbackKnown'
    BY <1>2, <1>4 DEF CoreInv, EntryQueued, HeldQueued, CallbackKnown, Held
  <1>8. RunningMarked'
    <2>1. \A u \in Task : status[u] = "RUNNING" => status'[u] = "RUNNING"
      BY <1>3, <1>5 DEF Live
    <2>2. \A r \in Run : exec[r].pc \in {"flying", "update"} => exec[r].task \in Task
      BY RunNames
    <2>3. QED
      BY <1>2, <1>6, <2>1, <2>2 DEF CoreInv, RunningMarked
  <1>9. LiveOwned'
    <2>1. \A u \in Task : status'[u] \in Live => status'[u] = status[u]
      BY <1>4, <1>5
    <2>2. QED
      BY <1>2, <1>4, <2>1 DEF CoreInv, LiveOwned, Live
  <1>10. ThreadsKnown' /\ FailQuiet'
    BY <1>2 DEF CoreInv, ThreadsKnown, FailQuiet
  <1>11. FailPending'
    BY <1>1, <1>2, <1>5 DEF CoreInv, FailPending, Live, TypeInv, TypeOK
  <1>12. OneAhead' /\ QueuedLive'
    BY <1>2, <1>6 DEF CoreInv, OneAhead, QueuedLive
  <1>13. SlotInv /\ ReleaseInv => ReleaseKnown'
    <2> SUFFICES ASSUME SlotInv, ReleaseInv PROVE ReleaseKnown'
      OBVIOUS
    <2>1. \A r \in Run : exec[r].pc = "record" => status'[exec[r].task] \notin Live
      <3>1. \A r \in Run : exec[r].pc = "record" => exec[r].task \in Task
        BY RunNames
      <3>2. QED
        BY <1>4, <1>5, <3>1 DEF ReleaseInv, ReleaseKnown
    <2>2. \A r \in Run : exec[r].task = t => exec[r].pc = "queued"
      <3>1. PICK e \in pending : e.id = t
        BY <1>3, <1>6 DEF CoreInv, LiveOwned
      <3>2. e.seq \in Run /\ exec[e.seq].pc = "queued" /\ exec[e.seq].task = t
        BY <3>1, EntryNames DEF CoreInv, EntryQueued
      <3>3. QED
        BY <3>2, OneRun DEF SlotInv
    <2>3. QED
      BY <1>1, <1>2, <1>4, <2>1, <2>2 DEF ReleaseKnown
  <1>14. SlotInv /\ ReleaseInv => OutstandingExact'
    <2> SUFFICES ASSUME SlotInv, ReleaseInv PROVE OutstandingExact'
      OBVIOUS
    <2>1. \A u \in Task : u # t => (AboutToRelease(u)' <=> AboutToRelease(u))
      BY <1>1, <1>2 DEF AboutToRelease
    <2>2. AboutToRelease(t)'
      BY <1>1, <1>2 DEF AboutToRelease
    <2>3. t \in outstanding
      BY <1>3 DEF ReleaseInv, OutstandingExact, Live
    <2>4. QED
      BY <1>2, <1>5, <2>1, <2>2, <2>3 DEF ReleaseInv, OutstandingExact
  <1>15. QED
    BY <1>7, <1>8, <1>9, <1>10, <1>11, <1>12, <1>13, <1>14 DEF OwnKept, CoreInv, ReleaseInv

\* Its slot is released; at the end the waiters are told.
LEMMA OwnFail ==
    ASSUME TypeInv, CoreInv, FailStep
    PROVE  OwnKept
  <1> USE DEF taskVars, admissionVars, workerVars, stopVars
  <1>1. CASE FailRelease \/ FailNotify
    <2>1. /\ UNCHANGED <<status, pending, exec, workerPc, workerEntry, threads>>
          /\ UNCHANGED <<closed, stopPc, failTodo>>
          /\ failPc \in {"release", "notify"} /\ failPc' # "idle" /\ failPc' # "release"
          /\ failTodo # {} => failPc = "release" /\ failPc' = "update"
      BY <1>1 DEF FailRelease, FailNotify, CoreInv, FailPending, backendVars
    <2>2. StatusSettles /\ IdleMoves
      BY <2>1 DEF StatusSettles, IdleMoves
    <2>3. /\ EntryQueued' /\ HeldQueued' /\ RunningMarked' /\ LiveOwned' /\ CallbackKnown'
          /\ OneAhead' /\ QueuedLive'
      BY <2>1, <2>2, CoreFrame
    <2>4. ThreadsKnown' /\ FailQuiet' /\ FailPending'
      BY <2>1 DEF CoreInv, ThreadsKnown, FailQuiet, FailPending
    <2>5. SlotInv /\ ReleaseInv => ReleaseKnown'
      BY <2>1 DEF ReleaseInv, ReleaseKnown
    <2>6. SlotInv /\ ReleaseInv => OutstandingExact'
      <3> SUFFICES ASSUME SlotInv, ReleaseInv PROVE OutstandingExact'
        OBVIOUS
      <3>1. CASE FailNotify
        BY <2>1, <3>1 DEF FailNotify, ReleaseInv, OutstandingExact, AboutToRelease
      <3>2. CASE FailRelease
        <4>1. failPc = "release" /\ outstanding' = outstanding \ {failTask}
          BY <3>2 DEF FailRelease, ReleaseSlot
        <4>2. status[failTask] \notin Live
              /\ \A r \in Run : exec[r].task = failTask => exec[r].pc = "queued"
          BY <4>1 DEF ReleaseInv, ReleaseKnown
        <4>3. \A u \in Task : u # failTask => (AboutToRelease(u)' <=> AboutToRelease(u))
          BY <2>1, <4>1 DEF AboutToRelease
        <4>4. \A u \in Task : u = failTask => ~AboutToRelease(u)'
          BY <2>1, <4>2 DEF AboutToRelease
        <4>5. QED
          BY <2>1, <4>1, <4>2, <4>3, <4>4 DEF ReleaseInv, OutstandingExact
      <3>3. QED
        BY <1>1, <3>1, <3>2
    <2>7. QED
      BY <2>3, <2>4, <2>5, <2>6 DEF OwnKept, CoreInv, ReleaseInv
  <1>2. QED
    BY <1>1, OwnFailUpdate DEF FailStep

\* stop closes, joins and returns.
LEMMA OwnStop ==
    ASSUME TypeInv, CoreInv, StopBegin \/ StopStep
    PROVE  OwnKept
  <1> USE DEF taskVars, admissionVars, workerVars, shutdownVars, failVars, stopVars
  <1>1. CASE StopBegin \/ CloseStrategy \/ CloseRaises \/ StopNotify
    <2>1. /\ UNCHANGED <<status, pending, exec, workerPc, workerEntry, threads, outstanding>>
          /\ UNCHANGED <<failPc, failTodo, failTask>>
          /\ stopPc # "failing"
      BY <1>1 DEF StopBegin, CloseStrategy, CloseRaises, StopNotify, backendVars
    <2>2. (closed => closed') /\ (stopPc' # "idle" => closed')
      BY <1>1 DEF StopBegin, CloseStrategy, CloseRaises, StopNotify, CoreInv, ThreadsKnown
    <2>3. StatusSettles
      BY <2>1 DEF StatusSettles
    <2>4. QED
      BY <2>1, <2>2, <2>3, OwnFrame
  <1>2. ASSUME NEW r \in Run, FailFuture(r) PROVE OwnKept
    BY <1>2, OwnFinished DEF FailFuture, backendVars
  <1>3. CASE JoinThreads
    <2>1. /\ UNCHANGED <<status, pending, exec, workerPc, workerEntry, outstanding>>
          /\ UNCHANGED <<closed, failTask>>
          /\ stopPc = "join" /\ closed
          /\ threads' = {w \in threads : workerPc[w] # "dead"}
      BY <1>3 DEF JoinThreads, FailBegin, backendVars, CoreInv, ThreadsKnown
    <2>2. StatusSettles /\ IdleMoves
      BY <2>1 DEF StatusSettles, IdleMoves
    <2>3. /\ EntryQueued' /\ HeldQueued' /\ RunningMarked' /\ LiveOwned' /\ CallbackKnown'
          /\ OneAhead' /\ QueuedLive'
      BY <2>1, <2>2, CoreFrame
    <2>4. ThreadsKnown'
      BY <2>1 DEF CoreInv, ThreadsKnown
    <2>5. FailQuiet' /\ FailPending' /\ (failPc' = "release" <=> failPc = "release")
      <3>1. CASE FailBegin(Stopper) /\ stopPc' = "failing" /\ threads' = {}
        <4>1. \A w \in Worker : workerPc[w] \in {"none", "dead"}
          BY <2>1, <3>1 DEF CoreInv, ThreadsKnown
        <4>2. failPc = "idle"
          BY <2>1, <4>1 DEF CoreInv, FailQuiet
        <4>3. QED
          BY <2>1, <3>1, <4>1, <4>2 DEF FailQuiet, FailPending, FailBegin, NeverStarted
      <3>2. CASE UNCHANGED failVars
        BY <2>1, <3>2 DEF CoreInv, FailQuiet, FailPending
      <3>3. QED
        BY <1>3, <3>1, <3>2 DEF JoinThreads
    <2>6. SlotInv /\ ReleaseInv => ReleaseInv'
      BY <2>1, <2>2, <2>5, ReleaseFrame
    <2>7. QED
      BY <2>3, <2>4, <2>5, <2>6 DEF OwnKept, CoreInv, ReleaseInv
  <1>4. CASE StopReturns
    <2>1. /\ UNCHANGED <<status, pending, exec, workerPc, workerEntry, threads, outstanding>>
          /\ UNCHANGED <<closed, failTask, failTodo>>
          /\ failPc = "done" /\ failPc' = "idle" /\ stopPc' = "idle"
      BY <1>4 DEF StopReturns, FailEnds, backendVars
    <2>2. StatusSettles /\ IdleMoves
      BY <2>1 DEF StatusSettles, IdleMoves
    <2>3. /\ EntryQueued' /\ HeldQueued' /\ RunningMarked' /\ LiveOwned' /\ CallbackKnown'
          /\ OneAhead' /\ QueuedLive'
      BY <2>1, <2>2, CoreFrame
    <2>4. SlotInv /\ ReleaseInv => ReleaseInv'
      BY <2>1, <2>2, ReleaseFrame
    <2>5. ThreadsKnown' /\ FailQuiet' /\ FailPending'
      BY <2>1 DEF CoreInv, ThreadsKnown, FailQuiet, FailPending
    <2>6. QED
      BY <2>3, <2>4, <2>5 DEF OwnKept, CoreInv, ReleaseInv
  <1>5. QED
    BY <1>1, <1>2, <1>3, <1>4 DEF StopStep

-----------------------------------------------------------------------------
(* The invariant holds.                                                    *)

\* A fresh scheduler owns nothing.
LEMMA OwnBegins == Init => OwnInv
  <1> SUFFICES ASSUME Init PROVE OwnInv
    OBVIOUS
  <1> USE DEF Init, BackendInit, NoRun, Held
  <1>1. EntryQueued /\ HeldQueued /\ RunningMarked /\ LiveOwned
    BY DEF EntryQueued, HeldQueued, RunningMarked, LiveOwned
  <1>2. CallbackKnown /\ ThreadsKnown /\ FailQuiet /\ FailPending
    BY ActorAssumption DEF CallbackKnown, ThreadsKnown, FailQuiet, FailPending
  <1>3. OneAhead /\ QueuedLive
    BY DEF OneAhead, QueuedLive, Ahead
  <1>4. ReleaseKnown /\ OutstandingExact
    BY DEF ReleaseKnown, OutstandingExact, AboutToRelease, Live
  <1>5. QED
    BY <1>1, <1>2, <1>3, <1>4 DEF OwnInv, CoreInv, ReleaseInv

\* Every step keeps it, and the slots' part when no id is submitted again.
LEMMA OwnStep ==
    ASSUME TypeInv, CoreInv, [Next]_vars
    PROVE  OwnKept
  <1>1. ASSUME NEW r \in Run, FutureDone(r) PROVE OwnKept
    BY <1>1, OwnFinished DEF FutureDone, taskVars, backendVars, admissionVars, workerVars,
           shutdownVars, failVars, stopVars
  <1>2. ASSUME NEW r \in Run, CompletionStep(r) PROVE OwnKept
    BY <1>2, OwnUpdate, OwnRelease DEF CompletionStep
  <1>3. CASE UNCHANGED vars
    <2>1. /\ UNCHANGED <<status, pending, exec, workerPc, workerEntry, threads, outstanding>>
          /\ UNCHANGED <<closed, stopPc, failPc, failTodo, failTask>>
      BY <1>3 DEF vars, taskVars, backendVars, admissionVars, workerVars, shutdownVars,
             failVars, stopVars
    <2>2. QED
      BY <2>1, OwnFrame DEF StatusSettles, CoreInv, ThreadsKnown
  <1>4. QED
    BY <1>1, <1>2, <1>3, OwnCalls, OwnClient, OwnWorker, OwnStop, OwnFail DEF Next, Rest

\* The invariant holds whatever is submitted, ...
LEMMA CoreAlways == Spec => [](TypeInv /\ CoreInv)
  <1>1. TypeInv /\ CoreInv /\ [Next]_vars => (TypeInv /\ CoreInv)'
    BY TypeStep, OwnStep DEF OwnKept
  <1>2. Init => CoreInv
    BY OwnBegins DEF OwnInv
  <1>3. QED
    BY <1>1, <1>2, TypeStart, PTL DEF Spec

\* ... and together with the slots when no id comes twice.
LEMMA OwnAlways ==
    ASSUME Resubmit = FALSE
    PROVE  Spec => [](TypeInv /\ SlotInv /\ OwnInv)
  <1>1. TypeInv /\ SlotInv /\ OwnInv /\ [Next]_vars => (TypeInv /\ SlotInv /\ OwnInv)'
    BY TypeStep, SlotStep, OwnStep DEF OwnKept, OwnInv
  <1>2. QED
    BY <1>1, TypeStart, SlotStart, OwnBegins, PTL DEF Spec

\* Nobody loses a task and no two threads have the same one, for any number of
\* clients, workers and tasks: the entries, the hands of the workers and the
\* executions share out the live tasks.
THEOREM EveryTaskHasOneOwner == Spec => []OneOwner
  <1>1. ASSUME TypeInv, CoreInv, NEW t \in Task, status[t] = "PENDING"
        PROVE  Cardinality({e \in pending : e.id = t}) + Cardinality(Holding(t, "run")) = 1
    <2> DEFINE queued == {e \in pending : e.id = t}
               holders == Holding(t, "run")
    <2>1. \A e \in queued : e.seq \in Run /\ exec[e.seq].pc = "queued" /\ exec[e.seq].task = t
      BY <1>1, EntryNames DEF CoreInv, EntryQueued
    <2>2. \A w \in holders : /\ Held(w) /\ workerEntry[w].seq \in Run
                             /\ exec[workerEntry[w].seq].pc = "queued"
                             /\ exec[workerEntry[w].seq].task = t
      BY <1>1, EntryNames DEF CoreInv, HeldQueued, Holding, Held
    <2>3. CASE \E e \in pending : e.id = t
      <3>1. PICK e \in queued : TRUE
        BY <2>3
      <3>2. \A f \in queued : f.seq = e.seq
        BY <1>1, <2>1, <3>1 DEF CoreInv, OneAhead, Ahead
      <3>3. queued = {e}
        BY <1>1, <3>1, <3>2 DEF CoreInv, EntryQueued
      <3>4. \A w \in holders : workerEntry[w].seq = e.seq
        BY <1>1, <2>1, <2>2, <3>1 DEF CoreInv, OneAhead, Ahead
      <3>5. holders = {}
        BY <1>1, <2>2, <3>1, <3>4 DEF CoreInv, HeldQueued, Holding
      <3>6. Cardinality(queued) = 1 /\ Cardinality(holders) = 0
        BY <3>3, <3>5, FS_Singleton, FS_EmptySet, Zenon
      <3>7. QED
        BY <3>6
    <2>4. CASE ~ \E e \in pending : e.id = t
      <3>1. PICK w \in holders : TRUE
        BY <1>1, <2>4 DEF CoreInv, LiveOwned, Holding
      <3>2. \A v \in holders : workerEntry[v].seq = workerEntry[w].seq
        BY <1>1, <2>2, <3>1 DEF CoreInv, OneAhead, Ahead
      <3>3. holders = {w}
        BY <1>1, <2>2, <3>1, <3>2 DEF CoreInv, HeldQueued, Holding
      <3>4. queued = {}
        BY <2>4
      <3>5. Cardinality(queued) = 0 /\ Cardinality(holders) = 1
        BY <3>3, <3>4, FS_Singleton, FS_EmptySet, Zenon
      <3>6. QED
        BY <3>5
    <2>5. QED
      BY <2>3, <2>4
  <1>2. ASSUME TypeInv, CoreInv, NEW t \in Task
        PROVE  Cardinality(Holding(t, "execute")) + Cardinality(Executing(t))
                   = IF status[t] = "RUNNING" THEN 1 ELSE 0
    <2>1. \A w \in Holding(t, "execute") : /\ Held(w) /\ workerEntry[w].seq \in Run
                                           /\ exec[workerEntry[w].seq].pc = "queued"
                                           /\ exec[workerEntry[w].seq].task = t
                                           /\ status[t] = "RUNNING"
      BY <1>2, EntryNames DEF CoreInv, HeldQueued, RunningMarked, Holding, Held
    <2>2. \A r \in Executing(t) : /\ r \in Run /\ exec[r].task = t /\ status[t] = "RUNNING"
                                  /\ exec[r].pc \in {"flying", "update"}
      BY <1>2 DEF CoreInv, RunningMarked, Executing
    <2>3. CASE status[t] # "RUNNING"
      <3>1. Holding(t, "execute") = {} /\ Executing(t) = {}
        BY <2>1, <2>2, <2>3
      <3>2. QED
        BY <2>3, <3>1, FS_EmptySet
    <2>4. CASE \E w : w \in Holding(t, "execute")
      <3>1. PICK w : w \in Holding(t, "execute")
        BY <2>4
      <3>2. Executing(t) = {}
        BY <1>2, <2>1, <2>2, <3>1 DEF CoreInv, OneAhead, Ahead
      <3>3. \A v \in Holding(t, "execute") : workerEntry[v].seq = workerEntry[w].seq
        BY <1>2, <2>1, <3>1 DEF CoreInv, OneAhead, Ahead
      <3>4. Holding(t, "execute") = {w}
        BY <1>2, <2>1, <3>1, <3>3 DEF CoreInv, HeldQueued, Holding
      <3>5. status[t] = "RUNNING"
        BY <2>1, <3>1
      <3>6. Cardinality(Executing(t)) = 0
        BY <3>2, FS_EmptySet, Zenon
      <3>7. Cardinality(Holding(t, "execute")) = 1
        BY <3>4, FS_Singleton, Zenon
      <3>8. QED
        BY <3>5, <3>6, <3>7
    <2>5. CASE status[t] = "RUNNING" /\ ~ \E w : w \in Holding(t, "execute")
      <3>1. PICK r : r \in Executing(t)
        BY <1>2, <2>5 DEF CoreInv, LiveOwned, Holding, Executing
      <3>2. Executing(t) = {r}
        BY <1>2, <2>2, <3>1 DEF CoreInv, OneAhead, Ahead
      <3>3. Holding(t, "execute") = {}
        BY <2>5
      <3>4. Cardinality(Executing(t)) = 1
        BY <3>2, FS_Singleton, Zenon
      <3>5. Cardinality(Holding(t, "execute")) = 0
        BY <3>3, FS_EmptySet, Zenon
      <3>6. QED
        BY <2>5, <3>4, <3>5
    <2>6. QED
      BY <2>3, <2>4, <2>5
  <1>3. TypeInv /\ CoreInv => OneOwner
    BY <1>1, <1>2 DEF OneOwner
  <1>4. QED
    BY <1>3, CoreAlways, PTL

\* A slot is held exactly as long as its task is not finished and released:
\* none is given back early, none is kept by a task that is over.
THEOREM SlotsHeldExactly ==
    ASSUME Resubmit = FALSE
    PROVE  Spec => []OutstandingExact
  <1>1. OwnInv => OutstandingExact
    BY DEF OwnInv, ReleaseInv
  <1>2. QED
    BY <1>1, OwnAlways, PTL

-----------------------------------------------------------------------------
(* Stopping.                                                               *)

\* A step that makes nothing PENDING and does not bring the end nearer.
LEMMA DrainFrame ==
    ASSUME Drained,
           \A t \in Task : status'[t] = "PENDING" => status[t] = "PENDING",
           failTodo' = failTodo,
           \A w \in Worker : workerPc'[w] = "failing" => workerPc[w] = "failing",
           threads' = {} => threads = {},
           closed => closed',
           \A c \in Client : clientPc'[c] = "submit" => clientPc[c] = "submit"
    PROVE  Drained'
  BY DEF Drained

\* No step leaves a PENDING task off the list of the thread that fails them.
LEMMA DrainStep ==
    ASSUME TypeInv, SlotInv, OwnInv, Drained, [Next]_vars
    PROVE  Drained'
  <1> USE DEF taskVars, admissionVars, workerVars, shutdownVars, failVars, stopVars
  <1>1. ASSUME NEW c \in Client, NEW k \in Call, NEW t \in Task,
               CallQuery(c, k, t) \/ CallSubmit(c, k, t)
        PROVE  Drained'
    <2>1. UNCHANGED <<status, closed, failTodo>>
      BY <1>1 DEF CallQuery, CallSubmit, backendVars
    <2>2. CASE CallQuery(c, k, t) \/ closed
      <3>1. UNCHANGED workerVars
        BY <1>1, <2>2 DEF CallQuery, CallSubmit
      <3>2. \A d \in Client : clientPc'[d] = "submit" => clientPc[d] = "submit"
        BY <1>1, <2>2 DEF CallQuery, CallSubmit, TypeInv, TypeOK
      <3>3. QED
        BY <2>1, <3>1, <3>2, DrainFrame
    <2>3. CASE CallSubmit(c, k, t) /\ ~closed
      <3>1. threads' # {} /\ \A w \in Worker : workerPc[w] # "failing"
        BY <2>3, WorkerAssumption DEF CallSubmit, OwnInv, CoreInv, ThreadsKnown
      <3>2. \A w \in Worker : workerPc'[w] # "failing"
        BY <2>3, <3>1 DEF CallSubmit
      <3>3. QED
        BY <3>1, <3>2 DEF Drained
    <2>4. QED
      BY <1>1, <2>2, <2>3
  <1>2. ASSUME NEW c \in Client, ClientStep(c) PROVE Drained'
    <2>1. /\ UNCHANGED <<threads, workerPc, closed, failTodo>>
          /\ \A d \in Client : clientPc'[d] = "submit" => clientPc[d] = "submit"
      BY <1>2 DEF ClientStep, SubmitTask, Refuse, Accept, RecordSubmission, NotifySubmission,
             WaitTerminal, PollWake, DeadlinePasses, RegisterAsync, CheckAsync, AwaitEnds,
             Collect, ReadResponse, Return, GoTo, clientVars, TypeInv, TypeOK
    <2>2. CASE SubmitTask(c) /\ ~closed
      <3>1. /\ threads # {}
            /\ \A w \in Worker : workerPc[w] # "failing"
        BY <2>2 DEF SubmitTask, Drained, OwnInv, CoreInv, ThreadsKnown
      <3>2. QED
        BY <2>1, <3>1 DEF Drained
    <2>3. CASE ~(SubmitTask(c) /\ ~closed)
      <3>1. CASE UNCHANGED status
        BY <2>1, <3>1, DrainFrame
      <3>2. CASE ReadResponse(c)
        <4>1. call[c].task \in Task
          BY <1>2 DEF ClientStep, SubmitTask, RecordSubmission, NotifySubmission, WaitTerminal,
                 PollWake, DeadlinePasses, RegisterAsync, CheckAsync, AwaitEnds, Collect,
                 TypeInv, CallKnown, CallRecord
        <4>2. \A u \in Task : status'[u] = "PENDING" => status[u] = "PENDING"
          BY <3>2, <4>1, ReadEffect DEF StatusSettles, Live, TypeInv, TypeOK
        <4>3. QED
          BY <2>1, <4>2, DrainFrame
      <3>3. QED
        BY <1>2, <2>3, <3>1, <3>2
           DEF ClientStep, SubmitTask, Refuse, RecordSubmission, NotifySubmission,
               WaitTerminal, PollWake, DeadlinePasses, RegisterAsync, CheckAsync, AwaitEnds,
               Collect, backendVars
    <2>4. QED
      BY <2>2, <2>3
  <1>3. ASSUME NEW w \in Worker, WorkerStep(w) PROVE Drained'
    <2>1. CASE PullTask(w) \/ StartTask(w) \/ ExecuteInline(w) \/ ExecuteLater(w)
      <3>1. UNCHANGED <<threads, closed, failTodo, clientPc>>
        BY <2>1 DEF PullTask, StartTask, ExecuteInline, ExecuteLater, WorkerGoTo, clientVars
      <3>2. \A v \in Worker : workerPc'[v] = "failing" => workerPc[v] = "failing"
        BY <2>1 DEF PullTask, StartTask, ExecuteInline, ExecuteLater, WorkerGoTo, TypeInv, TypeOK
      <3>3. \A u \in Task : status'[u] = "PENDING" => status[u] = "PENDING"
        <4>1. CASE UNCHANGED status
          BY <4>1
        <4>2. CASE StartTask(w) /\ UpdateStatus(workerEntry[w].id, "RUNNING")
          <5>1. workerEntry[w].id \in Task
            BY <4>2, EntryNames DEF StartTask, Held
          <5>2. QED
            BY <4>2, <5>1, RunEffect DEF TypeInv, TypeOK
        <4>3. QED
          BY <2>1, <4>1, <4>2 DEF PullTask, Pull, StartTask, ExecuteInline, ExecuteLater, backendVars
      <3>4. QED
        BY <3>1, <3>2, <3>3, DrainFrame
    <2>2. CASE WorkerExit(w) /\ FailBegin(w)
      <3>1. UNCHANGED status
        BY <2>2 DEF WorkerExit, backendVars
      <3>2. \A t \in Task : status[t] = "PENDING" => t \in NeverStarted
        BY DEF NeverStarted, OwnInv, ReleaseInv, OutstandingExact, Live
      <3>3. closed'
        BY <2>2 DEF WorkerExit, OwnInv, CoreInv, ThreadsKnown
      <3>4. QED
        BY <2>2, <3>1, <3>2, <3>3 DEF FailBegin, Drained
    <2>3. CASE WorkerExit(w) /\ ~IsLastWorker(w)
      <3>1. threads' # {} /\ UNCHANGED <<status, failTodo, closed, clientPc>>
        BY <2>3 DEF WorkerExit, WorkerLeaves, IsLastWorker, backendVars, clientVars
      <3>2. \A v \in Worker : workerPc'[v] = "failing" => workerPc[v] = "failing"
        BY <2>3 DEF WorkerExit, WorkerLeaves, TypeInv, TypeOK
      <3>3. QED
        BY <3>1, <3>2, DrainFrame
    <2>4. CASE WorkerExited(w)
      <3>1. workerPc[w] = "failing" /\ closed /\ UNCHANGED <<status, failTodo, closed>>
        BY <2>4 DEF WorkerExited, FailEnds, backendVars, OwnInv, CoreInv, ThreadsKnown
      <3>2. QED
        BY <3>1 DEF Drained
    <2>5. QED
      BY <1>3, <2>1, <2>2, <2>3, <2>4 DEF WorkerStep, WorkerExit
  <1>4. ASSUME NEW r \in Run, FutureDone(r) \/ CompletionStep(r) PROVE Drained'
    <2>1. UNCHANGED <<threads, closed, clientPc, failTodo>>
      BY <1>4 DEF FutureDone, CompletionStep, CompleteUpdate, CompleteRelease, CompleteNotify,
             CompleteResolve, WorkerGoTo, clientVars
    <2>2. \A v \in Worker : workerPc'[v] = "failing" => workerPc[v] = "failing"
      BY <1>4 DEF FutureDone, CompletionStep, CompleteUpdate, CompleteRelease, CompleteNotify,
             CompleteResolve, WorkerGoTo, TypeInv, TypeOK
    <2>3. \A u \in Task : status'[u] = "PENDING" => status[u] = "PENDING"
      <3>1. CASE CompleteUpdate(r)
        <4>1. exec[r].task \in Task /\ exec[r].outcome \in Terminal
          BY <3>1, RunNames DEF CompleteUpdate, TypeInv, ExecKnown
        <4>2. QED
          BY <3>1, <4>1, FinishEffect DEF CompleteUpdate, OthersKept, Live, TypeInv, TypeOK
      <3>2. CASE UNCHANGED status
        BY <3>2
      <3>3. QED
        BY <1>4, <3>1, <3>2 DEF FutureDone, CompletionStep, CompleteRelease, CompleteNotify,
               CompleteResolve, backendVars
    <2>4. QED
      BY <2>1, <2>2, <2>3, DrainFrame
  <1>5. CASE StopBegin \/ StopStep
    <2>1. UNCHANGED <<status, workerPc, clientPc>> /\ (closed => closed')
      BY <1>5 DEF StopBegin, StopStep, CloseStrategy, CloseRaises, StopNotify, FailFuture, JoinThreads,
             StopReturns, backendVars, clientVars
    <2>2. CASE JoinThreads /\ FailBegin(Stopper)
      <3>1. \A t \in Task : status[t] = "PENDING" => t \in NeverStarted
        BY DEF NeverStarted, OwnInv, ReleaseInv, OutstandingExact, Live
      <3>2. closed'
        BY <2>2 DEF JoinThreads, OwnInv, CoreInv, ThreadsKnown
      <3>3. QED
        BY <2>1, <2>2, <3>1, <3>2 DEF FailBegin, Drained
    <2>3. CASE JoinThreads /\ threads' # {} /\ UNCHANGED failVars
      BY <2>1, <2>3, DrainFrame
    <2>4. CASE StopReturns
      BY <2>1, <2>4, DrainFrame DEF StopReturns, FailEnds
    <2>5. CASE StopBegin \/ CloseStrategy \/ CloseRaises \/ StopNotify \/ \E r \in Run : FailFuture(r)
      <3>1. UNCHANGED <<threads, failTodo>>
        BY <2>5 DEF StopBegin, CloseStrategy, CloseRaises, StopNotify, FailFuture
      <3>2. QED
        BY <2>1, <3>1, DrainFrame
    <2>6. QED
      BY <1>5, <2>2, <2>3, <2>4, <2>5 DEF StopStep, JoinThreads
  <1>6. CASE FailStep
    <2>1. UNCHANGED <<threads, workerPc, closed, clientPc>>
      BY <1>6 DEF FailStep, FailUpdate, FailRelease, FailNotify, clientVars
    <2>2. CASE FailUpdate
      <3>1. PICK t \in failTodo : UpdateStatus(t, "FAILED") /\ failTodo' = failTodo \ {t}
        BY <2>2 DEF FailUpdate
      <3>2. t \in Task
        BY <3>1 DEF TypeInv, TypeOK
      <3>3. \A u \in Task : status'[u] = "PENDING" => u # t /\ status[u] = "PENDING"
        BY <3>1, <3>2, FinishEffect DEF OthersKept, Live, Terminal, TypeInv, TypeOK
      <3>4. QED
        BY <2>1, <3>1, <3>3 DEF Drained
    <2>3. CASE FailRelease \/ FailNotify
      BY <2>1, <2>3, DrainFrame DEF FailRelease, FailNotify, backendVars
    <2>4. QED
      BY <1>6, <2>2, <2>3 DEF FailStep
  <1>7. CASE UNCHANGED vars
    BY <1>7, DrainFrame DEF vars, backendVars, clientVars
  <1>8. QED
    BY <1>1, <1>2, <1>3, <1>4, <1>5, <1>6, <1>7 DEF Next, Rest

\* Once the last worker thread of a stopped scheduler is gone and stop is not
\* running, no task is left behind, whichever of stop and the last worker found
\* the other one gone, however many calls of stop timed out before, and whether
\* strategy.close() returned or raised.
THEOREM StopLeavesNothing ==
    ASSUME Resubmit = FALSE
    PROVE  Spec => []NothingLeftBehind
  <1>1. Init => Drained
    BY DEF Init, BackendInit, Drained
  <1>2. TypeInv /\ SlotInv /\ OwnInv /\ Drained /\ [Next]_vars => Drained'
    BY DrainStep
  <1>3. ASSUME TypeInv, SlotInv, OwnInv, Drained PROVE NothingLeftBehind
    <2> SUFFICES ASSUME closed, stopPc = "idle", threads = {}, NEW t \in Task
                 PROVE  /\ status[t] # "PENDING"
                        /\ status[t] = "RUNNING" => Executing(t) # {}
      BY DEF NothingLeftBehind
    <2>1. \A w \in Worker : workerPc[w] \in {"none", "dead"}
      BY <1>3 DEF OwnInv, CoreInv, ThreadsKnown
    <2>2. status[t] # "PENDING"
      <3>1. failPc = "idle" /\ failTodo = {}
        BY <1>3, <2>1 DEF OwnInv, CoreInv, FailQuiet, FailPending
      <3>2. QED
        BY <1>3, <3>1 DEF Drained
    <2>3. status[t] = "RUNNING" => Executing(t) # {}
      BY <1>3, <2>1 DEF OwnInv, CoreInv, LiveOwned, Executing
    <2>4. QED
      BY <2>2, <2>3
  <1>4. QED
    BY <1>1, <1>2, <1>3, OwnAlways, PTL DEF Spec

-----------------------------------------------------------------------------
(* Wakeups.  A caller sleeps only inside wait, and one that a trace sink    *)
(* threw out of submit has returned.                                       *)
WaitersKnown ==
    \A c \in Client :
        /\ c \in waitSet => clientPc[c] = "wait"
        /\ outcome[c] = "SINK_ERROR" => clientPc[c] = "done"

\* The strategy is closed while stop holds the lifecycle lock, once.
CloseKnown == stopPc \in {"close", "closing"} => closed /\ ~strategyClosed

WakeInv == WaitersKnown /\ CloseKnown /\ WorkerWakeup /\ CallerWakeup

\* stop() is on its way to the workers, or strategy.close() raised on the way.
StopWakes == stopPc \in {"close", "closing", "notify"} \/ CloseRaised

\* The thread that finished t has not told the waiters yet.
AboutToTell(t) ==
    \/ \E r \in Run : exec[r].task = t /\ exec[r].pc \in {"record", "notify"}
    \/ failPc \in {"update", "release", "notify"}

\* A step of a thread that is not a caller: nobody new sleeps in wait.
LEMMA WakeFrame ==
    ASSUME TypeInv, WakeInv,
           UNCHANGED <<clientPc, call, outcome>>,
           waitSet' \cap Client \subseteq waitSet,
           \A w \in Worker \cap waitSet' : w \notin waitSet => pending' = {} /\ ~closed',
           pending' # {} => pending # {},
           \/ UNCHANGED closed
           \/ closed' /\ StopWakes',
           \/ UNCHANGED <<closed, strategyClosed, stopPc>>
           \/ CloseKnown' /\ (StopWakes' \/ ~StopWakes),
           \A t \in Task : status'[t] \notin Live /\ ~AboutToTell(t)' =>
                              status[t] \notin Live /\ ~AboutToTell(t)
    PROVE  WakeInv'
  <1>1. WaitersKnown' /\ CloseKnown'
    BY DEF WakeInv, WaitersKnown, CloseKnown
  <1>2. WorkerWakeup'
    <2> SUFFICES ASSUME NEW w \in Worker \cap waitSet'
                 PROVE  /\ pending' # {} /\ ~closed' =>
                               \E c \in Client : \/ clientPc'[c] \in {"record", "notify"}
                                                 \/ outcome'[c] = "SINK_ERROR"
                        /\ closed' => StopWakes'
      BY DEF WorkerWakeup, StopWakes
    <2>1. CASE w \notin waitSet
      BY <2>1
    <2>2. CASE w \in waitSet /\ UNCHANGED closed
      <3>1. closed => StopWakes
        BY <2>2 DEF WakeInv, WorkerWakeup, StopWakes
      <3>2. pending # {} /\ ~closed =>
                \E c \in Client : \/ clientPc[c] \in {"record", "notify"}
                                  \/ outcome[c] = "SINK_ERROR"
        BY <2>2 DEF WakeInv, WorkerWakeup
      <3>3. StopWakes => StopWakes'
        BY DEF StopWakes, CloseRaised
      <3>4. QED
        BY <2>2, <3>1, <3>2, <3>3
    <2>3. CASE closed' # closed
      BY <2>3
    <2>4. QED
      BY <2>1, <2>2, <2>3
  <1>3. CallerWakeup'
    <2> SUFFICES ASSUME NEW c \in Client \cap waitSet', status'[call'[c].task] \notin Live
                 PROVE  AboutToTell(call[c].task)'
      BY DEF CallerWakeup, AboutToTell
    <2>1. c \in waitSet /\ call[c].task \in Task
      BY DEF WakeInv, WaitersKnown, TypeInv, CallKnown, CallRecord
    <2>2. status[call[c].task] \notin Live => AboutToTell(call[c].task)
      BY <2>1 DEF WakeInv, CallerWakeup, AboutToTell
    <2>3. QED
      BY <2>1, <2>2 DEF AboutToTell
  <1>4. QED
    BY <1>1, <1>2, <1>3 DEF WakeInv

\* Only the caller that acts changes: a step of c that puts nobody to sleep.
OnlyMoves(c) ==
    /\ \A d \in Client : d # c =>
          clientPc'[d] = clientPc[d] /\ call'[d] = call[d] /\ outcome'[d] = outcome[d]
    /\ UNCHANGED <<closed, strategyClosed, stopPc, failPc>>

LEMMA WakeCaller ==
    ASSUME TypeInv, WakeInv, NEW c \in Client, OnlyMoves(c),
           c \notin waitSet', waitSet' \subseteq waitSet,
           clientPc[c] # "done",
           outcome'[c] = "SINK_ERROR" => clientPc'[c] = "done",
           \/ clientPc'[c] \in {"record", "notify"} \/ outcome'[c] = "SINK_ERROR"
           \/ pending' = pending /\ clientPc[c] \notin {"record", "notify"},
           \A t \in Task : status[t] \in Live => status'[t] \in Live,
           \A r \in Run : exec[r].pc # "none" => exec'[r] = exec[r]
    PROVE  WakeInv'
  <1>1. WaitersKnown' /\ CloseKnown'
    BY DEF WakeInv, WaitersKnown, CloseKnown, OnlyMoves
  <1>2. WorkerWakeup'
    <2> SUFFICES ASSUME NEW w \in Worker \cap waitSet'
                 PROVE  /\ pending' # {} /\ ~closed' =>
                               \E d \in Client : \/ clientPc'[d] \in {"record", "notify"}
                                                 \/ outcome'[d] = "SINK_ERROR"
                        /\ closed' => StopWakes'
      BY DEF WorkerWakeup, StopWakes
    <2>1. closed' => StopWakes'
      BY DEF WakeInv, WorkerWakeup, StopWakes, CloseRaised, OnlyMoves
    <2>2. CASE clientPc'[c] \in {"record", "notify"} \/ outcome'[c] = "SINK_ERROR"
      BY <2>1, <2>2 DEF OnlyMoves
    <2>3. CASE pending' = pending /\ clientPc[c] \notin {"record", "notify"}
      <3>1. ASSUME pending # {}, ~closed
            PROVE  \E d \in Client : \/ clientPc'[d] \in {"record", "notify"}
                                     \/ outcome'[d] = "SINK_ERROR"
        <4>1. PICK d \in Client : clientPc[d] \in {"record", "notify"} \/ outcome[d] = "SINK_ERROR"
          BY <3>1 DEF WakeInv, WorkerWakeup
        <4>2. d # c
          BY <2>3, <4>1 DEF WakeInv, WaitersKnown
        <4>3. QED
          BY <4>1, <4>2 DEF OnlyMoves
      <3>2. QED
        BY <2>1, <2>3, <3>1 DEF OnlyMoves
    <2>4. QED
      BY <2>2, <2>3
  <1>3. CallerWakeup'
    <2> SUFFICES ASSUME NEW d \in Client \cap waitSet', status'[call'[d].task] \notin Live
                 PROVE  \/ \E r \in Run : /\ exec'[r].task = call'[d].task
                                          /\ exec'[r].pc \in {"record", "notify"}
                        \/ failPc' \in {"update", "release", "notify"}
      BY DEF CallerWakeup
    <2>1. d # c /\ d \in waitSet /\ call'[d] = call[d]
      BY DEF OnlyMoves
    <2>2. call[d].task \in Task
      BY <2>1 DEF WakeInv, WaitersKnown, TypeInv, CallKnown, CallRecord
    <2>3. status[call[d].task] \notin Live
      BY <2>1, <2>2
    <2>4. \/ \E r \in Run : exec[r].task = call[d].task /\ exec[r].pc \in {"record", "notify"}
          \/ failPc \in {"update", "release", "notify"}
      BY <2>1, <2>3 DEF WakeInv, CallerWakeup
    <2>5. QED
      BY <2>1, <2>4 DEF OnlyMoves
  <1>4. QED
    BY <1>1, <1>2, <1>3 DEF WakeInv

\* When everybody is woken nobody is asleep.
LEMMA WakeAll ==
    ASSUME WakeInv, waitSet' = {}, CloseKnown',
           \A c \in Client : outcome'[c] = "SINK_ERROR" => clientPc'[c] = "done"
    PROVE  WakeInv'
  BY DEF WakeInv, WaitersKnown, WorkerWakeup, CallerWakeup

\* Callers.
LEMMA WakeCalls ==
    ASSUME TypeInv, WakeInv, NEW c \in Client, NEW k \in Call, NEW t \in Task,
           CallQuery(c, k, t) \/ CallSubmit(c, k, t)
    PROVE  WakeInv'
  <1> USE DEF taskVars, admissionVars, shutdownVars, failVars, stopVars
  <1>1. clientPc[c] = "idle" /\ c \notin waitSet /\ outcome[c] # "SINK_ERROR"
    BY DEF CallQuery, CallSubmit, WakeInv, WaitersKnown
  <1>2. OnlyMoves(c) /\ outcome'[c] # "SINK_ERROR"
    BY <1>1 DEF CallQuery, CallSubmit, OnlyMoves, TypeInv, TypeOK
  <1>3. UNCHANGED <<status, pending, exec, waitSet>>
    BY DEF CallQuery, CallSubmit, backendVars
  <1>4. QED
    BY <1>1, <1>2, <1>3, WakeCaller

\* A caller goes on.
LEMMA WakeClient ==
    ASSUME TypeInv, WakeInv, NEW c \in Client, ClientStep(c)
    PROVE  WakeInv'
  <1> USE DEF taskVars, admissionVars, shutdownVars, failVars, stopVars
  <1>1. OnlyMoves(c) /\ clientPc[c] \notin {"idle", "done"} /\ outcome[c] # "SINK_ERROR"
    BY DEF ClientStep, SubmitTask, Refuse, Accept, RecordSubmission, NotifySubmission,
           WaitTerminal, PollWake, DeadlinePasses, RegisterAsync, CheckAsync, AwaitEnds,
           Collect, ReadResponse, Return, GoTo, clientVars, OnlyMoves, TypeInv, TypeOK,
           WakeInv, WaitersKnown
  <1>2. call[c].task \in Task
    BY <1>1 DEF TypeInv, CallKnown, CallRecord
  <1>3. CASE SubmitTask(c) /\ Refuse(c, call[c].task)
    <2>1. clientPc[c] = "submit" /\ clientPc'[c] = "done" /\ UNCHANGED <<status, pending, exec, waitSet>>
      BY <1>3 DEF SubmitTask, Refuse, Return, backendVars, TypeInv, TypeOK
    <2>2. QED
      BY <1>1, <2>1, WakeCaller DEF WakeInv, WaitersKnown
  <1>4. CASE \E p \in Priority : SubmitTask(c) /\ Accept(c, call[c].task, p)
    <2>1. /\ clientPc[c] = "submit" /\ clientPc'[c] = "record"
          /\ UNCHANGED waitSet /\ outcome'[c] = outcome[c]
      BY <1>4 DEF SubmitTask, Accept, GoTo, TypeInv, TypeOK
    <2>2. \A t \in Task : status[t] \in Live => status'[t] \in Live
      BY <1>4 DEF Accept, Submit, Live, TypeInv, TypeOK, BackendTypeOK
    <2>3. \A r \in Run : exec[r].pc # "none" => exec'[r] = exec[r]
      <3>1. sequence \in Run /\ exec[sequence] = NoRun
        BY <1>4, SequenceAssumption DEF Accept, TypeInv, TypeOK, BackendTypeOK, Run, ExecKnown
      <3>2. exec' = [exec EXCEPT ![sequence] = Queued(call[c].task)]
        BY <1>4 DEF Accept
      <3>3. QED
        BY <3>1, <3>2 DEF NoRun, TypeInv, TypeOK
    <2>4. QED
      BY <1>1, <2>1, <2>2, <2>3, WakeCaller DEF WakeInv, WaitersKnown
  <1>5. CASE RecordSubmission(c)
    <2>1. /\ clientPc[c] = "record" /\ UNCHANGED <<status, pending, exec, waitSet>>
          /\ \/ clientPc'[c] = "notify" /\ outcome'[c] = outcome[c]
             \/ clientPc'[c] = "done" /\ outcome'[c] = "SINK_ERROR"
      BY <1>5 DEF RecordSubmission, GoTo, Return, backendVars, TypeInv, TypeOK
    <2>2. QED
      BY <1>1, <2>1, WakeCaller DEF WakeInv, WaitersKnown
  <1>6. CASE NotifySubmission(c)
    <2>1. waitSet' = {}
      BY <1>6 DEF NotifySubmission, NotifyWaiters
    <2>2. outcome'[c] # "SINK_ERROR"
      BY <1>1, <1>6 DEF NotifySubmission, GoTo, Return, TypeInv, TypeOK
    <2>3. QED
      BY <1>1, <2>1, <2>2, WakeAll DEF OnlyMoves, WakeInv, WaitersKnown, CloseKnown
  <1>7. CASE WaitTerminal(c) /\ ~UNCHANGED waitSet
    <2>1. /\ clientPc[c] = "wait" /\ status[call[c].task] \in Live
          /\ waitSet' = waitSet \cup {c}
          /\ UNCHANGED <<status, pending, exec, clientPc, call, outcome>>
      BY <1>7 DEF WaitTerminal, backendVars, clientVars
    <2>2. WaitersKnown' /\ WorkerWakeup'
      <3>1. c \notin Worker
        BY ActorAssumption
      <3>2. QED
        BY <1>1, <2>1, <3>1 DEF WakeInv, WaitersKnown, WorkerWakeup, CloseRaised, OnlyMoves
    <2>3. CallerWakeup'
      BY <1>1, <2>1 DEF WakeInv, CallerWakeup, OnlyMoves
    <2>4. QED
      BY <1>1, <2>2, <2>3 DEF WakeInv, CloseKnown, OnlyMoves
  <1>8. CASE PollWake(c) \/ DeadlinePasses(c)
    <2>1. /\ clientPc[c] = "wait" /\ waitSet' = waitSet \ {c}
          /\ UNCHANGED <<status, pending, exec, clientPc, outcome>>
      BY <1>8 DEF PollWake, DeadlinePasses, backendVars, clientVars
    <2>2. QED
      BY <1>1, <2>1, WakeCaller DEF WakeInv, WaitersKnown
  <1>9. CASE \/ WaitTerminal(c) /\ UNCHANGED waitSet
             \/ RegisterAsync(c) \/ CheckAsync(c) \/ AwaitEnds(c) \/ Collect(c)
    <2>1. /\ clientPc[c] \notin {"record", "notify"} /\ c \notin waitSet
          /\ UNCHANGED <<exec, waitSet>>
      BY <1>9 DEF WaitTerminal, RegisterAsync, CheckAsync, AwaitEnds, Collect, WakeInv,
             WaitersKnown
    <2>2. outcome'[c] # "SINK_ERROR"
      <3>1. status[call[c].task] \in Status \cup {"absent"}
        BY <1>2 DEF TypeInv, TypeOK, BackendTypeOK
      <3>2. QED
        BY <1>1, <1>9, <3>1 DEF WaitTerminal, RegisterAsync, CheckAsync, AwaitEnds, Collect,
               ReadResponse, Return, GoTo, clientVars, Status, Live, Terminal, TypeInv, TypeOK
    <2>3. UNCHANGED pending /\ StatusSettles
      <3>1. CASE ReadResponse(c)
        BY <1>2, <3>1, ReadEffect DEF TypeInv, TypeOK
      <3>2. CASE UNCHANGED backendVars
        BY <3>2 DEF backendVars, StatusSettles
      <3>3. QED
        BY <1>9, <3>1, <3>2 DEF WaitTerminal, RegisterAsync, CheckAsync, AwaitEnds, Collect
    <2>4. \A t \in Task : status[t] \in Live => status'[t] \in Live
      BY <2>3 DEF StatusSettles
    <2>5. QED
      BY <1>1, <2>1, <2>2, <2>3, <2>4, WakeCaller
  <1>10. QED
    BY <1>3, <1>4, <1>5, <1>6, <1>7, <1>8, <1>9 DEF ClientStep, SubmitTask

\* Workers.
LEMMA WakeWorker ==
    ASSUME TypeInv, CoreInv, WakeInv, NEW w \in Worker, WorkerStep(w)
    PROVE  WakeInv'
  <1> USE DEF taskVars, admissionVars, workerVars, clientVars, shutdownVars, failVars, stopVars
  <1>1. /\ UNCHANGED <<clientPc, call, outcome, closed, strategyClosed, stopPc>>
        /\ waitSet' \cap Client \subseteq waitSet
        /\ \A v \in Worker \cap waitSet' : v \notin waitSet => pending' = {} /\ ~closed'
        /\ pending' # {} => pending # {}
    <2>1. w \notin Client
      BY ActorAssumption
    <2>2. CASE PullTask(w)
      BY <2>1, <2>2 DEF PullTask, Pull, backendVars
    <2>3. CASE StartTask(w)
      <3>1. pending' = pending
        BY <2>3 DEF StartTask, UpdateStatus, UpdateTerminal, UpdateLive, backendVars
      <3>2. QED
        BY <2>3, <3>1 DEF StartTask
    <2>4. CASE ExecuteInline(w) \/ ExecuteLater(w) \/ WorkerExit(w) \/ WorkerExited(w)
      BY <2>4 DEF ExecuteInline, ExecuteLater, WorkerExit, WorkerExited, backendVars
    <2>5. QED
      BY <2>2, <2>3, <2>4 DEF WorkerStep
  <1>2. ASSUME NEW t \in Task, status[t] \in Live PROVE status'[t] \in Live
    <2>1. CASE UNCHANGED status
      BY <1>2, <2>1
    <2>2. CASE StartTask(w) /\ UpdateStatus(workerEntry[w].id, "RUNNING")
      <3>1. workerEntry[w].id \in Task
        BY <2>2, EntryNames DEF StartTask, Held
      <3>2. QED
        BY <1>2, <2>2, <3>1, RunEffect DEF TypeInv, TypeOK, Live
    <2>3. QED
      BY <2>1, <2>2 DEF WorkerStep, PullTask, Pull, StartTask, ExecuteInline, ExecuteLater,
             WorkerExit, WorkerExited, backendVars
  <1>3. ASSUME NEW t \in Task, AboutToTell(t) PROVE AboutToTell(t)'
    <2>1. \A r \in Run : exec[r].pc \in {"record", "notify"} => exec'[r] = exec[r]
      <3>1. CASE StartTask(w) \/ ExecuteInline(w) \/ ExecuteLater(w)
        <4>1. Held(w)
          BY <3>1 DEF StartTask, ExecuteInline, ExecuteLater, Held
        <4>2. workerEntry[w].seq \in Run /\ exec[workerEntry[w].seq].pc = "queued"
          BY <4>1, EntryNames DEF CoreInv, HeldQueued
        <4>3. CASE UNCHANGED exec
          BY <4>3
        <4>4. CASE \E pc, by : RunMoves(workerEntry[w].seq, pc, by)
          BY <4>2, <4>4 DEF RunMoves
        <4>5. QED
          BY <3>1, <4>2, <4>3, <4>4, FinishingMoves, GoToMoves
             DEF StartTask, ExecuteInline, ExecuteLater, TypeInv
      <3>2. CASE UNCHANGED exec
        BY <3>2
      <3>3. QED
        BY <3>1, <3>2 DEF WorkerStep, PullTask, WorkerExit, WorkerExited
    <2>2. failPc \in {"update", "release", "notify"} => failPc' = failPc
      <3>1. CASE WorkerExit(w)
        BY <3>1, BusyWorker DEF WorkerExit
      <3>2. CASE WorkerExited(w)
        BY <3>2 DEF WorkerExited
      <3>3. CASE ~WorkerExit(w) /\ ~WorkerExited(w)
        BY <3>3 DEF WorkerStep, PullTask, StartTask, ExecuteInline, ExecuteLater
      <3>4. QED
        BY <3>1, <3>2, <3>3
    <2>3. QED
      BY <1>3, <2>1, <2>2 DEF AboutToTell
  <1>4. QED
    BY <1>1, <1>2, <1>3, WakeFrame DEF AboutToTell

\* Executions: the finished one tells the waiters after it updated the record.
LEMMA WakeRun ==
    ASSUME TypeInv, CoreInv, WakeInv, NEW r \in Run, FutureDone(r) \/ CompletionStep(r)
    PROVE  WakeInv'
  <1> USE DEF taskVars, admissionVars, clientVars, shutdownVars, failVars, stopVars
  <1>1. UNCHANGED <<clientPc, call, outcome, closed, strategyClosed, stopPc, failPc>>
    BY DEF FutureDone, CompletionStep, CompleteUpdate, CompleteRelease, CompleteNotify,
           CompleteResolve
  <1>2. CASE CompleteNotify(r)
    <2>1. waitSet' = {}
      BY <1>2 DEF CompleteNotify, NotifyWaiters
    <2>2. QED
      BY <1>1, <2>1, WakeAll DEF WakeInv, WaitersKnown, CloseKnown
  <1>3. CASE CompleteUpdate(r)
    <2>1. PICK t \in Task : t = exec[r].task
      BY <1>3, RunNames DEF CompleteUpdate
    <2>2. exec[r].outcome \in Terminal /\ exec[r].pc = "update"
      BY <1>3 DEF CompleteUpdate, TypeInv, ExecKnown
    <2>3. OthersKept(t) /\ UNCHANGED pending
      BY <1>3, <2>1, <2>2, FinishEffect DEF CompleteUpdate, TypeInv, TypeOK
    <2>4. RunMoves(r, "record", exec[r].by)
      BY <1>3, GoToMoves DEF CompleteUpdate, ExecGoTo, TypeInv
    <2>5. AboutToTell(t)'
      BY <2>1, <2>4 DEF RunMoves, AboutToTell
    <2>6. \A u \in Task : u # t => (status[u] \in Live => status'[u] \in Live)
      BY <2>3 DEF OthersKept, Terminal, Live
    <2>7. \A u \in Task : AboutToTell(u) => AboutToTell(u)'
      BY <1>1, <2>2, <2>4 DEF RunMoves, AboutToTell
    <2>8. UNCHANGED waitSet
      BY <1>3 DEF CompleteUpdate
    <2>9. QED
      BY <1>1, <2>3, <2>5, <2>6, <2>7, <2>8, WakeFrame
  <1>4. CASE FutureDone(r) \/ CompleteRelease(r) \/ CompleteResolve(r)
    <2>1. UNCHANGED <<status, pending, waitSet>>
      BY <1>4 DEF FutureDone, CompleteRelease, CompleteResolve, backendVars
    <2>2. PICK pc, by : /\ RunMoves(r, pc, by)
                        /\ exec[r].pc \in {"record", "notify"} => pc = "notify"
      BY <1>4, FinishingMoves, GoToMoves, EndMoves
         DEF FutureDone, CompleteRelease, CompleteResolve, ExecGoTo, TypeInv
    <2>3. \A u \in Task : AboutToTell(u) => AboutToTell(u)'
      BY <1>1, <2>2 DEF RunMoves, AboutToTell
    <2>4. QED
      BY <1>1, <2>1, <2>3, WakeFrame
  <1>5. QED
    BY <1>2, <1>3, <1>4 DEF CompletionStep

\* stop and the failing of what is pending.
LEMMA WakeStop ==
    ASSUME TypeInv, CoreInv, WakeInv, StopBegin \/ StopStep \/ FailStep
    PROVE  WakeInv'
  <1> USE DEF taskVars, admissionVars, clientVars, shutdownVars, failVars, stopVars
  <1>1. UNCHANGED <<clientPc, call, outcome>>
    BY DEF StopBegin, StopStep, CloseStrategy, CloseRaises, StopNotify, FailFuture, JoinThreads,
           StopReturns,
           FailStep, FailUpdate, FailRelease, FailNotify
  <1>2. CASE StopNotify \/ FailNotify
    <2>1. waitSet' = {}
      BY <1>2 DEF StopNotify, FailNotify, NotifyWaiters
    <2>2. CloseKnown'
      BY <1>2 DEF StopNotify, FailNotify, CloseKnown, WakeInv
    <2>3. QED
      BY <1>1, <2>1, <2>2, WakeAll DEF WakeInv, WaitersKnown
  <1>3. CASE FailUpdate
    <2>1. PICK t \in failTodo : UpdateStatus(t, "FAILED")
      BY <1>3 DEF FailUpdate
    <2>2. t \in Task /\ UNCHANGED <<waitSet, closed, strategyClosed, stopPc>> /\ failPc' = "release"
      BY <1>3, <2>1 DEF FailUpdate, TypeInv, TypeOK
    <2>3. UNCHANGED pending
      BY <2>1, <2>2, FinishEffect DEF TypeInv, TypeOK, Terminal
    <2>4. \A u \in Task : AboutToTell(u)'
      BY <2>2 DEF AboutToTell
    <2>5. QED
      BY <1>1, <2>2, <2>3, <2>4, WakeFrame
  <1>4. CASE FailRelease
    <2>1. /\ UNCHANGED <<status, pending, waitSet, closed, strategyClosed, stopPc>>
          /\ failPc' \in {"notify", "update"}
      BY <1>4 DEF FailRelease, backendVars
    <2>2. \A u \in Task : AboutToTell(u)'
      BY <2>1 DEF AboutToTell
    <2>3. QED
      BY <1>1, <2>1, <2>2, WakeFrame
  <1>5. CASE StopBegin \/ CloseStrategy \/ CloseRaises \/ JoinThreads \/ StopReturns
             \/ \E r \in Run : FailFuture(r)
    <2>1. UNCHANGED <<status, pending, waitSet>>
      BY <1>5 DEF StopBegin, CloseStrategy, CloseRaises, JoinThreads, StopReturns, FailFuture,
                  backendVars
    <2>2. /\ \/ UNCHANGED closed
             \/ closed' /\ StopWakes'
          /\ \/ UNCHANGED <<closed, strategyClosed, stopPc>>
             \/ CloseKnown' /\ (StopWakes' \/ ~StopWakes)
      <3>1. CASE StopBegin
        BY <3>1 DEF StopBegin, CloseKnown, StopWakes
      <3>2. CASE CloseStrategy \/ CloseRaises
        BY <3>2 DEF CloseStrategy, CloseRaises, CloseKnown, StopWakes, CloseRaised, WakeInv
      <3>3. CASE JoinThreads \/ StopReturns
        BY <3>3 DEF JoinThreads, StopReturns, CloseKnown, StopWakes, CloseRaised
      <3>4. CASE \E r \in Run : FailFuture(r)
        BY <3>4 DEF FailFuture
      <3>5. QED
        BY <1>5, <3>1, <3>2, <3>3, <3>4
    <2>3. \A r \in Run : exec[r].pc \in {"record", "notify"} => exec'[r] = exec[r]
      <3>1. CASE \E r \in Run : FailFuture(r)
        BY <3>1, FinishingMoves DEF FailFuture, RunMoves, TypeInv
      <3>2. QED
        BY <1>5, <3>1 DEF StopBegin, CloseStrategy, CloseRaises, JoinThreads, StopReturns
    <2>4. failPc \in {"update", "release", "notify"} => failPc' = failPc
      <3>1. CASE JoinThreads /\ threads' = {}
        <4>1. stopPc = "join" /\ \A w \in Worker : workerPc[w] \in {"none", "dead"}
          BY <3>1 DEF JoinThreads, CoreInv, ThreadsKnown
        <4>2. failPc = "idle"
          BY <4>1 DEF CoreInv, FailQuiet
        <4>3. QED
          BY <4>2
      <3>2. CASE JoinThreads /\ threads' # {}
        BY <3>2 DEF JoinThreads
      <3>3. QED
        BY <1>5, <3>1, <3>2 DEF StopBegin, CloseStrategy, CloseRaises, StopReturns, FailFuture
    <2>5. \A u \in Task : AboutToTell(u) => AboutToTell(u)'
      BY <2>3, <2>4 DEF AboutToTell
    <2>6. QED
      BY <1>1, <2>1, <2>2, <2>5, WakeFrame
  <1>6. QED
    BY <1>2, <1>3, <1>4, <1>5 DEF StopStep, FailStep

\* All of it holds, always.
LEMMA WakeAlways == Spec => []WakeInv
  <1>1. Init => WakeInv
    BY DEF Init, WakeInv, WaitersKnown, CloseKnown, WorkerWakeup, CallerWakeup
  <1>2. ASSUME TypeInv, CoreInv, WakeInv, [Next]_vars PROVE WakeInv'
    <2>1. CASE UNCHANGED vars
      BY <1>2, <2>1 DEF vars, taskVars, backendVars, clientVars, shutdownVars, failVars, stopVars,
             WakeInv, WaitersKnown, CloseKnown, WorkerWakeup, CallerWakeup, CloseRaised
    <2>2. QED
      BY <1>2, <2>1, WakeCalls, WakeClient, WakeWorker, WakeRun, WakeStop DEF Next, Rest
  <1>3. QED
    BY <1>1, <1>2, CoreAlways, PTL DEF Spec

\* No worker sleeps beside a queued task, or beside the stop flag, unless the
\* thread that put it there is still on its way to notify_all, or an exception
\* took it off that way: of a trace sink out of submit, or of strategy.close()
\* out of stop.  The flag is set and the heap is filled outside the lock under
\* which a worker decides to sleep.
THEOREM NoWorkerWakeupLost == Spec => []WorkerWakeup
  <1>1. WakeInv => WorkerWakeup
    BY DEF WakeInv
  <1>2. QED
    BY <1>1, WakeAlways, PTL

\* No caller sleeps beside a finished task unless the thread that finished it
\* has yet to tell the waiters.
THEOREM NoCallerWakeupLost == Spec => []CallerWakeup
  <1>1. WakeInv => CallerWakeup
    BY DEF WakeInv
  <1>2. QED
    BY <1>1, WakeAlways, PTL
=============================================================================
