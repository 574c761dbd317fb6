-------------------------- MODULE LifecycleProofs --------------------------
(***************************************************************************)
(* What becomes of a record, for every number of workers, clients and      *)
(* tasks: the scheduler drives the backend only in ways that keep its      *)
(* terminal index consistent; an outcome is never overwritten; the life of *)
(* every task is that of the abstract module TaskLifecycle; and the        *)
(* counters of the instrumentation count what happened to the runs.        *)
(***************************************************************************)
EXTENDS OwnershipProofs

-----------------------------------------------------------------------------
(* The kinds of steps, as the records and the slots see them.              *)
SameRuns == \A r \in Run : exec'[r].task = exec[r].task

Admits ==
    \E c \in Client, p \in Priority :
        clientPc[c] = "submit" /\ slots # 0 /\ Accept(c, call[c].task, p)

Pulls     == \E e \in pending : Pull(e)
Reads     == \E c \in Client : clientPc[c] # "idle" /\ Read(call[c].task, call[c].consume)
Starts    == \E t \in Task : status[t] = "PENDING" /\ UpdateStatus(t, "RUNNING")
Completes == \E r \in Run : exec[r].pc = "update"
                            /\ UpdateStatus(exec[r].task, exec[r].outcome)
Fails     == \E t \in failTodo : UpdateStatus(t, "FAILED")

Releases ==
    /\ UNCHANGED backendVars
    /\ \/ \E r \in Run : exec[r].pc = "record" /\ ReleaseSlot(exec[r].task)
       \/ failPc = "release" /\ ReleaseSlot(failTask)

Keeps == UNCHANGED backendVars

StepKind ==
    \/ Admits
    \/ SameRuns /\ Releases
    \/ /\ SameRuns
       /\ UNCHANGED admissionVars
       /\ Keeps \/ Pulls \/ Reads \/ Starts \/ Completes \/ Fails

\* Steps of a caller.
LEMMA ClientKind ==
    ASSUME TypeInv, NEW c \in Client, ClientStep(c)
    PROVE  StepKind
  <1> USE DEF taskVars, shutdownVars
  <1>1. CASE SubmitTask(c)
    <2>1. CASE closed \/ status[call[c].task] # "absent" \/ slots = 0
      BY <1>1, <2>1 DEF SubmitTask, Refuse, StepKind, SameRuns, Keeps
    <2>2. CASE ~(closed \/ status[call[c].task] # "absent" \/ slots = 0)
      BY <1>1, <2>2 DEF SubmitTask, StepKind, Admits
    <2>3. QED
      BY <2>1, <2>2
  <1>2. CASE WaitTerminal(c) \/ Collect(c)
    <2>1. clientPc[c] # "idle"
      BY <1>2 DEF WaitTerminal, Collect
    <2>2. UNCHANGED <<exec, admissionVars>>
      BY <1>2 DEF WaitTerminal, Collect
    <2>3. CASE UNCHANGED backendVars
      BY <2>2, <2>3 DEF StepKind, SameRuns, Keeps
    <2>4. CASE Read(call[c].task, call[c].consume)
      BY <2>1, <2>2, <2>4 DEF StepKind, SameRuns, Reads
    <2>5. QED
      BY <1>2, <2>3, <2>4 DEF WaitTerminal, Collect, ReadResponse
  <1>3. CASE UNCHANGED <<exec, backendVars, admissionVars>>
    BY <1>3 DEF StepKind, SameRuns, Keeps
  <1>4. QED
    BY <1>1, <1>2, <1>3
       DEF ClientStep, RecordSubmission, NotifySubmission, PollWake, DeadlinePasses,
           RegisterAsync, CheckAsync, AwaitEnds

\* Steps of a worker outside the completion path.
LEMMA WorkerKind ==
    ASSUME TypeInv, NEW w \in Worker, WorkerStep(w)
    PROVE  StepKind
  <1> USE DEF taskVars, shutdownVars
  <1>1. CASE PullTask(w)
    BY <1>1 DEF PullTask, StepKind, SameRuns, Keeps, Pulls
  <1>2. CASE StartTask(w)
    <2>1. workerEntry[w].seq \in Run /\ workerEntry[w].id \in Task
      BY <1>2, EntryNames DEF StartTask, Held
    <2>2. SameRuns
      BY <1>2, <2>1, FinishingMoves DEF StartTask, TypeInv, SameRuns, RunMoves
    <2>3. QED
      BY <1>2, <2>1, <2>2 DEF StartTask, StepKind, Keeps, Starts
  <1>3. CASE ExecuteInline(w)
    <2>1. workerEntry[w].seq \in Run
      BY <1>3, EntryNames DEF ExecuteInline, Held
    <2>2. SameRuns
      BY <1>3, <2>1, FinishingMoves DEF ExecuteInline, TypeInv, SameRuns, RunMoves
    <2>3. QED
      BY <1>3, <2>2 DEF ExecuteInline, StepKind, Keeps
  <1>4. CASE ExecuteLater(w)
    <2>1. workerEntry[w].seq \in Run
      BY <1>4, EntryNames DEF ExecuteLater, Held
    <2>2. SameRuns
      BY <1>4, <2>1, GoToMoves DEF ExecuteLater, TypeInv, SameRuns, RunMoves
    <2>3. QED
      BY <1>4, <2>2 DEF ExecuteLater, StepKind, Keeps
  <1>5. CASE UNCHANGED <<exec, backendVars, admissionVars>>
    BY <1>5 DEF StepKind, SameRuns, Keeps
  <1>6. QED
    BY <1>1, <1>2, <1>3, <1>4, <1>5 DEF WorkerStep, WorkerExit, WorkerExited

\* Steps of an execution.
LEMMA RunKind ==
    ASSUME TypeInv, NEW r \in Run, FutureDone(r) \/ CompletionStep(r)
    PROVE  StepKind
  <1> USE DEF taskVars, shutdownVars
  <1>1. SameRuns
    <2>1. CASE FutureDone(r)
      BY <2>1, FinishingMoves DEF FutureDone, TypeInv, SameRuns, RunMoves
    <2>2. CASE CompleteUpdate(r) \/ CompleteRelease(r) \/ CompleteNotify(r)
      BY <2>2, GoToMoves
         DEF CompleteUpdate, CompleteRelease, CompleteNotify, ExecGoTo, TypeInv, SameRuns,
             RunMoves
    <2>3. CASE CompleteResolve(r)
      BY <2>3, EndMoves DEF CompleteResolve, TypeInv, SameRuns, RunMoves
    <2>4. QED
      BY <2>1, <2>2, <2>3 DEF CompletionStep
  <1>2. CASE CompleteUpdate(r)
    BY <1>1, <1>2 DEF CompleteUpdate, StepKind, Completes
  <1>3. CASE CompleteRelease(r)
    BY <1>1, <1>3 DEF CompleteRelease, StepKind, Releases
  <1>4. CASE FutureDone(r) \/ CompleteNotify(r) \/ CompleteResolve(r)
    BY <1>1, <1>4 DEF FutureDone, CompleteNotify, CompleteResolve, StepKind, Keeps
  <1>5. QED
    BY <1>2, <1>3, <1>4 DEF CompletionStep

\* Steps of stop and of _fail_pending_tasks.
LEMMA StopKind ==
    ASSUME TypeInv, StopBegin \/ StopStep \/ FailStep
    PROVE  StepKind
  <1> USE DEF taskVars, shutdownVars
  <1>1. CASE \E r \in Run : FailFuture(r)
    BY <1>1, FinishingMoves DEF FailFuture, TypeInv, StepKind, SameRuns, RunMoves, Keeps
  <1>2. CASE FailUpdate
    BY <1>2 DEF FailUpdate, StepKind, SameRuns, Fails
  <1>3. CASE FailRelease
    BY <1>3 DEF FailRelease, StepKind, SameRuns, Releases
  <1>4. CASE UNCHANGED <<exec, backendVars, admissionVars>>
    BY <1>4 DEF StepKind, SameRuns, Keeps
  <1>5. QED
    BY <1>1, <1>2, <1>3, <1>4
       DEF StopBegin, StopStep, CloseStrategy, CloseRaises, StopNotify, JoinThreads, StopReturns,
           FailStep, FailNotify

\* There are no other steps.
LEMMA StepKinds ==
    ASSUME TypeInv, [Next]_vars
    PROVE  StepKind
  <1>1. ASSUME NEW c \in Client, NEW k \in Call, NEW t \in Task,
               CallQuery(c, k, t) \/ CallSubmit(c, k, t)
        PROVE  StepKind
    BY <1>1 DEF CallQuery, CallSubmit, taskVars, StepKind, SameRuns, Keeps
  <1>2. CASE UNCHANGED vars
    BY <1>2 DEF vars, taskVars, StepKind, SameRuns, Keeps
  <1>3. QED
    BY <1>1, <1>2, ClientKind, WorkerKind, RunKind, StopKind DEF Next, Rest

-----------------------------------------------------------------------------
(* The terminal index.                                                     *)

\* Whatever the threads interleave, each step is a call the backend's own
\* invariant survives.
LEMMA IndexStep ==
    ASSUME TypeInv, IndexConsistent, [Next]_vars
    PROVE  IndexConsistent'
  <1>1. BackendInv
    BY DEF BackendInv, TypeInv, TypeOK
  <1>2. CASE Keeps
    BY <1>2 DEF Keeps, backendVars, IndexConsistent, TerminalTasks
  <1>3. CASE Admits
    BY <1>1, <1>3, SubmitIndex DEF Admits, Accept, TypeInv, CallKnown, CallRecord
  <1>4. CASE Pulls
    BY <1>1, <1>4, PullIndex DEF Pulls
  <1>5. CASE Reads
    BY <1>1, <1>5, ReadIndex DEF Reads, TypeInv, CallKnown, CallRecord
  <1>6. CASE Starts
    BY <1>1, <1>6, UpdateStatusIndex DEF Starts, Status, Live
  <1>7. CASE Completes
    BY <1>1, <1>7, RunNames, UpdateStatusIndex DEF Completes, TypeInv, ExecKnown, Status
  <1>8. CASE Fails
    BY <1>1, <1>8, UpdateStatusIndex DEF Fails, TypeInv, TypeOK, Status, Terminal
  <1>9. QED
    BY <1>2, <1>3, <1>4, <1>5, <1>6, <1>7, <1>8, StepKinds DEF StepKind, Releases, Keeps

\* The prune always finds a finish stamp for every finished record, and no two
\* equal ones, under every interleaving of the scheduler's threads and even
\* when an id is submitted again.
THEOREM SchedulerKeepsIndex == Spec => []IndexConsistent
  <1>1. Init => IndexConsistent
    BY BackendStart DEF Init, BackendInv
  <1>2. TypeInv /\ IndexConsistent /\ [Next]_vars => (TypeInv /\ IndexConsistent)'
    BY TypeStep, IndexStep
  <1>3. QED
    BY <1>1, <1>2, TypeStart, PTL DEF Spec

-----------------------------------------------------------------------------
(* Outcomes.                                                               *)

\* A record is finished only from a live state: a completion finds its task
\* RUNNING, because the execution is the task's only owner.
LEMMA FinishesLive ==
    ASSUME TypeInv, CoreInv, Completes \/ Fails
    PROVE  \E t \in Task, s \in Terminal :
              /\ status[t] \in Live
              /\ status[t] = "PENDING" => s = "FAILED"
              /\ UpdateStatus(t, s)
  <1>1. CASE Completes
    <2>1. PICK r \in Run : exec[r].pc = "update" /\ UpdateStatus(exec[r].task, exec[r].outcome)
      BY <1>1 DEF Completes
    <2>2. /\ exec[r].task \in Task
          /\ exec[r].outcome \in Terminal
          /\ status[exec[r].task] = "RUNNING"
      BY <2>1, RunNames DEF TypeInv, ExecKnown, CoreInv, RunningMarked
    <2>3. QED
      BY <2>1, <2>2 DEF Live
  <1>2. CASE Fails
    <2>1. PICK t \in failTodo : UpdateStatus(t, "FAILED")
      BY <1>2 DEF Fails
    <2>2. t \in Task /\ status[t] = "PENDING"
      BY DEF TypeInv, TypeOK, CoreInv, FailPending
    <2>3. QED
      BY <2>1, <2>2 DEF Live, Terminal
  <1>3. QED
    BY <1>1, <1>2

\* A finished record keeps its outcome in every kind of step, or leaves.
LEMMA OutcomeKept ==
    ASSUME TypeInv, CoreInv, [Next]_vars, NEW t \in Task, status[t] \in Terminal
    PROVE  status'[t] \in {status[t], "absent"}
  <1> USE DEF TypeInv, TypeOK, BackendTypeOK
  <1>1. CASE Keeps \/ Pulls
    BY <1>1 DEF Keeps, Pulls, Pull, backendVars
  <1>2. CASE Admits
    BY <1>2 DEF Admits, Accept, Submit, CallKnown, CallRecord, Terminal
  <1>3. CASE Reads
    BY <1>3 DEF Reads, Read, ReadKeep, ReadConsume, CallKnown, CallRecord
  <1>4. CASE Starts
    BY <1>4, RunEffect DEF Starts, Terminal
  <1>5. CASE Completes \/ Fails
    <2>1. PICK u \in Task, s \in Terminal : status[u] \in Live /\ UpdateStatus(u, s)
      BY <1>5, FinishesLive
    <2>2. OthersKept(u) /\ t # u
      BY <2>1, FinishEffect DEF Live, Terminal
    <2>3. QED
      BY <2>2 DEF OthersKept
  <1>6. QED
    BY <1>1, <1>2, <1>3, <1>4, <1>5, StepKinds DEF StepKind, Releases, Keeps

\* An outcome, once recorded, is never overwritten: not by stop, not by a late
\* callback, not by the worker whose trace sink raised, and not by another run
\* of the same id.
THEOREM OutcomeNeverChanges == Spec => OutcomeStable
  <1>1. TypeInv /\ CoreInv /\ [Next]_vars
            => [\A t \in Task :
                   status[t] \in Terminal => status'[t] \in {status[t], "absent"}]_vars
    BY OutcomeKept
  <1>2. QED
    BY <1>1, CoreAlways, PTL DEF Spec, OutcomeStable

-----------------------------------------------------------------------------
(* The refinement: each kind of step is a step of TaskLifecycle, or none.  *)
Phases == [t \in Task |-> IF status[t] # "absent" THEN status[t]
                          ELSE IF Accepted(t) THEN "gone" ELSE "new"]

LifecycleMove == [Lifecycle!Next]_(Lifecycle!vars)

\* A step that leaves the phases and the places alone.
LEMMA Stutters ==
    ASSUME UNCHANGED <<Phases, outstanding>>
    PROVE  LifecycleMove
  BY DEF LifecycleMove, Lifecycle!vars, Phases

\* A record exists only for an id that was accepted.
RecordAccepted == \A t \in Task : status[t] # "absent" => Accepted(t)

LEMMA RecordStep ==
    ASSUME TypeInv, RecordAccepted, [Next]_vars
    PROVE  RecordAccepted'
  <1> USE DEF TypeInv, TypeOK, BackendTypeOK
  <1>1. CASE Admits
    <2>1. PICK c \in Client, p \in Priority : clientPc[c] = "submit" /\ Accept(c, call[c].task, p)
      BY <1>1 DEF Admits
    <2>2. PICK t \in Task : t = call[c].task
      BY <2>1 DEF CallKnown, CallRecord
    <2>3. sequence \in Run /\ exec' = [exec EXCEPT ![sequence] = Queued(t)] /\ exec[sequence] = NoRun
      BY <2>1, <2>2, SequenceAssumption DEF Accept, Run, ExecKnown
    <2>4. exec'[sequence].task = t /\ \A r \in Run : r # sequence => exec'[r] = exec[r]
      BY <2>3 DEF Queued, NoRun
    <2>5. \A u \in Task : Accepted(u) => Accepted(u)'
      BY <2>3, <2>4, ActorAssumption DEF Accepted, NoRun
    <2>6. Accepted(t)'
      BY <2>3, <2>4 DEF Accepted
    <2>7. \A u \in Task : u # t => status'[u] = status[u]
      BY <2>1, <2>2 DEF Accept, Submit
    <2>8. QED
      BY <2>5, <2>6, <2>7 DEF RecordAccepted
  <1>2. CASE SameRuns /\ ~Admits
    <2>1. \A u \in Task : Accepted(u)' <=> Accepted(u)
      BY <1>2 DEF SameRuns, Accepted
    <2>2. \A u \in Task : status'[u] # "absent" => status[u] # "absent"
      <3>1. CASE Keeps \/ Pulls
        BY <3>1 DEF Keeps, Pulls, Pull, backendVars
      <3>2. CASE Reads
        BY <3>2 DEF Reads, Read, ReadKeep, ReadConsume, Terminal, CallKnown, CallRecord
      <3>3. CASE Starts
        BY <3>3, RunEffect DEF Starts
      <3>4. CASE Completes \/ Fails
        <4>1. PICK u \in Task, o \in Terminal : UpdateStatus(u, o)
          BY <3>4, RunNames DEF Completes, Fails, ExecKnown, Terminal
        <4>2. OthersKept(u) /\ status[u] # "absent"
          BY <4>1, FinishEffect
        <4>3. QED
          BY <4>2 DEF OthersKept
      <3>5. QED
        BY <1>2, <3>1, <3>2, <3>3, <3>4, StepKinds DEF StepKind, Releases, Keeps
    <2>3. QED
      BY <2>1, <2>2 DEF RecordAccepted
  <1>3. QED
    BY <1>1, <1>2, StepKinds DEF StepKind

\* A submission is admitted: its id is new, and there is a place for it.
LEMMA AdmitStep ==
    ASSUME TypeInv, SlotInv, RecordAccepted, Admits
    PROVE  LifecycleMove
  <1> USE DEF TypeInv, TypeOK, BackendTypeOK
  <1>1. PICK c \in Client, p \in Priority :
            clientPc[c] = "submit" /\ slots # 0 /\ Accept(c, call[c].task, p)
    BY DEF Admits
  <1>2. PICK t \in Task : t = call[c].task
    BY <1>1 DEF CallKnown, CallRecord
  <1>3. sequence \in Run /\ exec' = [exec EXCEPT ![sequence] = Queued(t)] /\ exec[sequence] = NoRun
    BY <1>1, <1>2, SequenceAssumption DEF Accept, Run, ExecKnown
  <1>4. exec'[sequence].task = t /\ \A r \in Run : r # sequence => exec'[r] = exec[r]
    BY <1>3 DEF Queued, NoRun
  <1>5. \A u \in Task : u # t => (Accepted(u)' <=> Accepted(u))
    BY <1>3, <1>4, ActorAssumption DEF Accepted, NoRun
  <1>6. ~Accepted(t)
    BY <1>1, <1>2 DEF SlotInv, SubmittedOnce
  <1>7. /\ status[t] = "absent"
        /\ status' = [status EXCEPT ![t] = "PENDING"]
        /\ outstanding' = outstanding \cup {t}
    BY <1>1, <1>2 DEF Accept, Submit
  <1>8. Phases[t] = "new" /\ Phases' = [Phases EXCEPT ![t] = "PENDING"]
    BY <1>5, <1>6, <1>7 DEF Phases
  <1>9. Cardinality(outstanding) < MaxOutstanding
    <2>1. Cardinality(outstanding) \in Nat
      BY TaskAssumption, FS_Subset, FS_CardinalityType
    <2>2. slots \in Nat /\ slots # 0 /\ slots + Cardinality(outstanding) = MaxOutstanding
      BY <1>1 DEF SlotInv, SlotAccounting
    <2>3. QED
      BY <2>1, <2>2, OutstandingAssumption
  <1>10. Lifecycle!Admit(t)
    <2>1. Lifecycle!Cardinality(outstanding) = Cardinality(outstanding)
      BY DEF Lifecycle!Cardinality, Cardinality
    <2>2. QED
      BY <1>7, <1>8, <1>9, <2>1 DEF Lifecycle!Admit, Phases
  <1>11. QED
    BY <1>10 DEF LifecycleMove, Lifecycle!Next

\* A record is started, or read, or consumed, which forgets it.
LEMMA BeginStep ==
    ASSUME TypeInv, RecordAccepted, Starts \/ Reads, SameRuns, UNCHANGED admissionVars
    PROVE  LifecycleMove
  <1> USE DEF TypeInv, TypeOK, BackendTypeOK
  <1>1. \A u \in Task : Accepted(u)' <=> Accepted(u)
    BY DEF SameRuns, Accepted
  <1>2. UNCHANGED outstanding
    BY DEF admissionVars
  <1>3. ASSUME NEW t \in Task, status[t] = "PENDING", UpdateStatus(t, "RUNNING")
        PROVE  LifecycleMove
    <2>1. status' = [status EXCEPT ![t] = "RUNNING"]
      BY <1>3 DEF UpdateStatus, UpdateLive, Terminal
    <2>2. Phases[t] = "PENDING" /\ Phases' = [Phases EXCEPT ![t] = "RUNNING"]
      BY <1>1, <1>3, <2>1 DEF Phases
    <2>3. Lifecycle!Begin(t)
      BY <1>2, <2>2 DEF Lifecycle!Begin, Phases
    <2>4. QED
      BY <2>3 DEF LifecycleMove, Lifecycle!Next
  <1>4. ASSUME NEW t \in Task, ReadConsume(t)
        PROVE  LifecycleMove
    <2>1. status[t] \in Terminal /\ status' = [status EXCEPT ![t] = "absent"]
      BY <1>4 DEF ReadConsume
    <2>2. Accepted(t)
      BY <2>1 DEF RecordAccepted, Terminal
    <2>3. Phases[t] \in Terminal /\ Phases' = [Phases EXCEPT ![t] = "gone"]
      BY <1>1, <2>1, <2>2 DEF Phases, Terminal
    <2>4. Lifecycle!Forget(t)
      BY <1>2, <2>3 DEF Lifecycle!Forget, Lifecycle!Finished, Phases, Terminal
    <2>5. QED
      BY <2>4 DEF LifecycleMove, Lifecycle!Next
  <1>5. ASSUME NEW t \in Task, ReadKeep(t)
        PROVE  LifecycleMove
    BY <1>1, <1>2, <1>5, Stutters DEF ReadKeep, Phases
  <1>6. QED
    BY <1>3, <1>4, <1>5 DEF Starts, Reads, Read, CallKnown, CallRecord

\* A live record finishes and stays; the finished ones the prune drops are
\* forgotten.
LEMMA FinishStep ==
    ASSUME TypeInv, OwnInv, IndexConsistent, RecordAccepted, Completes \/ Fails, SameRuns,
           UNCHANGED admissionVars
    PROVE  LifecycleMove
  <1>1. \A u \in Task : Accepted(u)' <=> Accepted(u)
    BY DEF SameRuns, Accepted
  <1>2. UNCHANGED outstanding
    BY DEF admissionVars
  <1>3. PICK t \in Task, s \in Terminal :
            /\ status[t] \in Live
            /\ status[t] = "PENDING" => s = "FAILED"
            /\ UpdateStatus(t, s)
    BY FinishesLive DEF OwnInv
  <1>4. OthersKept(t) /\ status'[t] = s
    <2>1. OthersKept(t) /\ status'[t] \in {s, "absent"}
      BY <1>3, FinishEffect DEF TypeInv, TypeOK
    <2>2. status'[t] # "absent"
      BY <1>3, LiveKeptByUpdate DEF BackendInv, TypeInv, TypeOK
    <2>3. QED
      BY <2>1, <2>2
  <1> DEFINE dropped == {u \in Task : status[u] \in Terminal /\ status'[u] = "absent"}
  <1>5. dropped \in SUBSET Task /\ t \notin dropped
    BY <1>3 DEF Live, Terminal
  <1>6. \A u \in Task : Phases[u] = IF status[u] # "absent" THEN status[u]
                                    ELSE IF Accepted(u) THEN "gone" ELSE "new"
    BY DEF Phases
  <1>7. \A u \in Task : Phases'[u] = IF u \in dropped THEN "gone"
                                     ELSE IF u = t THEN s ELSE Phases[u]
    <2>1. CASE s # "absent"
      BY <1>1, <1>3, <1>4, <2>1 DEF Phases, OthersKept, RecordAccepted, Terminal, Live
    <2>2. QED
      BY <2>1 DEF Terminal
  <1>8. Phases' = [u \in Task |-> IF u \in dropped THEN "gone"
                                  ELSE IF u = t THEN s ELSE Phases[u]]
    <2>1. Phases' = [u \in Task |-> Phases'[u]]
      BY DEF Phases
    <2>2. QED
      BY <1>7, <2>1
  <1>9. /\ Phases[t] \in Live
        /\ Phases[t] = "PENDING" => s = "FAILED"
        /\ \A u \in dropped : Phases[u] \in Terminal
    BY <1>3, <1>6 DEF Live, Terminal
  <1> HIDE DEF dropped
  <1>10. \E o \in Terminal, f \in SUBSET Task :
             /\ Phases[t] \in Live
             /\ Phases[t] = "PENDING" => o = "FAILED"
             /\ \A u \in f : Phases[u] \in Terminal
             /\ Phases' = [u \in Task |-> IF u \in f THEN "gone"
                                          ELSE IF u = t THEN o ELSE Phases[u]]
             /\ UNCHANGED outstanding
    BY <1>2, <1>5, <1>8, <1>9
  <1>11. Lifecycle!FinishSome(t)
    BY <1>10
       DEF Lifecycle!FinishSome, Lifecycle!Finish, Lifecycle!Active, Lifecycle!Finished,
           Phases, Live, Terminal
  <1>12. QED
    BY <1>11 DEF LifecycleMove, Lifecycle!Next

\* A place is given back after its task has finished.
LEMMA ReleaseStep ==
    ASSUME TypeInv, OwnInv, Releases, SameRuns
    PROVE  LifecycleMove
  <1>1. PICK t \in Task : ReleaseSlot(t) /\ status[t] \notin Live
    <2>1. ASSUME NEW r \in Run, exec[r].pc = "record"
          PROVE  exec[r].task \in Task /\ status[exec[r].task] \notin Live
      BY <2>1, RunNames DEF OwnInv, ReleaseInv, ReleaseKnown
    <2>2. failPc = "release" => failTask \in Task /\ status[failTask] \notin Live
      BY DEF TypeInv, FailKnown, OwnInv, ReleaseInv, ReleaseKnown
    <2>3. QED
      BY <2>1, <2>2 DEF Releases
  <1>2. UNCHANGED Phases
    BY DEF Releases, backendVars, SameRuns, Phases, Accepted
  <1>3. CASE t \in outstanding
    <2>1. outstanding' = outstanding \ {t}
      BY <1>1, <1>3 DEF ReleaseSlot
    <2>2. Phases[t] \notin Live
      BY <1>1 DEF Phases, Live
    <2>3. Lifecycle!Release(t)
      BY <1>2, <1>3, <2>1, <2>2 DEF Lifecycle!Release, Lifecycle!Active, Phases, Live
    <2>4. QED
      BY <2>3 DEF LifecycleMove, Lifecycle!Next
  <1>4. CASE t \notin outstanding
    BY <1>1, <1>2, <1>4, Stutters DEF ReleaseSlot, admissionVars
  <1>5. QED
    BY <1>3, <1>4

\* Every step of the scheduler is one of the lifecycle, or none.
LEMMA LifecycleStep ==
    ASSUME TypeInv, SlotInv, OwnInv, IndexConsistent, RecordAccepted, [Next]_vars
    PROVE  LifecycleMove
  <1>1. CASE (Keeps \/ Pulls) /\ SameRuns /\ UNCHANGED admissionVars
    <2>1. UNCHANGED <<Phases, outstanding>>
      BY <1>1 DEF Keeps, Pulls, Pull, backendVars, admissionVars, SameRuns, Phases, Accepted
    <2>2. QED
      BY <2>1, Stutters
  <1>2. QED
    BY <1>1, StepKinds, AdmitStep, BeginStep, FinishStep, ReleaseStep DEF StepKind

\* The scheduler implements the safety part of TaskLifecycle: a request is
\* admitted once and below the limit, runs at most once, finishes once, and
\* gives its place back after that, whatever its threads do and however many
\* there are.
THEOREM SchedulerImplementsLifecycle ==
    ASSUME Resubmit = FALSE
    PROVE  Spec => ImplementsLifecycle
  <1>1. Init => Lifecycle!Init /\ RecordAccepted /\ IndexConsistent
    <2>1. Init => Lifecycle!Init
      BY ActorAssumption DEF Init, BackendInit, NoRun, Accepted, Lifecycle!Init
    <2>2. Init => RecordAccepted
      BY DEF Init, BackendInit, RecordAccepted
    <2>3. Init => IndexConsistent
      BY BackendStart DEF Init, BackendInv
    <2>4. QED
      BY <2>1, <2>2, <2>3
  <1>2. TypeInv /\ IndexConsistent /\ RecordAccepted /\ [Next]_vars
            => (IndexConsistent /\ RecordAccepted)'
    BY IndexStep, RecordStep
  <1>3. TypeInv /\ SlotInv /\ OwnInv /\ IndexConsistent /\ RecordAccepted /\ [Next]_vars
            => [Lifecycle!Next]_(Lifecycle!vars)
    BY LifecycleStep DEF LifecycleMove
  <1>4. QED
    BY <1>1, <1>2, <1>3, OwnAlways, PTL DEF Spec, ImplementsLifecycle, Lifecycle!Spec

-----------------------------------------------------------------------------
(* Counters.  The totals of the instrumentation count runs: startedTotal   *)
(* the runs that have begun, the completed and the failed ones together    *)
(* the runs that have ended, and submittedTotal the accepted ones but the  *)
(* one whose caller is about to record it.  It holds whatever is           *)
(* submitted: CoreInv keeps the heap, the workers' hands and the           *)
(* executions about different runs, and here every accepted run is in one  *)
(* of these places.                                                        *)
RunsBegun == \A r \in Run : r < sequence => exec[r].pc # "none"

RunInv == CoreInv /\ RunsBegun

\* The runs that a worker has marked RUNNING, ...
Begun ==
    {r \in Run : \/ exec[r].pc \notin {"none", "queued"}
                 \/ \E w \in Worker : workerPc[w] = "execute" /\ workerEntry[w].seq = r}

\* ... those that were counted as completed or failed, ...
Ended == {r \in Run : exec[r].pc \in {"notify", "resolve", "done"}}

\* ... and the four things that a step may do to them and to the counters.
NothingCounted    == Begun' = Begun /\ Ended' = Ended /\ UNCHANGED metricsVars
SubmissionCounted == Begun' = Begun /\ Ended' = Ended /\ \E t : RecordSubmitted(t)
StartIsCounted ==
    \E r \in Run : r \notin Begun /\ Begun' = Begun \cup {r} /\ Ended' = Ended /\ RecordStarted
FinishIsCounted ==
    \E r \in Run : /\ r \notin Ended /\ Ended' = Ended \cup {r} /\ Begun' = Begun
                   /\ \E t, s : s \in Terminal /\ RecordFinished(t, s)
Counts == NothingCounted \/ SubmissionCounted \/ StartIsCounted \/ FinishIsCounted

\* Steps that leave the heap and the runs alone.
LEMMA RunsFrame ==
    ASSUME TypeInv, RunInv, UNCHANGED <<pending, sequence, exec, workerEntry>>, IdleMoves
    PROVE  RunsBegun' /\ Begun' = Begun /\ Ended' = Ended
  <1>1. \A w \in Worker :
            /\ workerPc'[w] = "execute" <=> workerPc[w] = "execute"
            /\ workerPc'[w] = "callback" <=> workerPc[w] = "callback"
            /\ Held(w)' <=> Held(w)
    BY DEF IdleMoves, Held
  <1>2. RunsBegun'
    BY DEF RunInv, RunsBegun
  <1>3. Begun' = Begun /\ Ended' = Ended
    BY <1>1 DEF Begun, Ended
  <1>4. QED
    BY <1>2, <1>3

\* A run on its way goes on.
LEMMA RunGoesOn ==
    ASSUME TypeInv, RunInv, UNCHANGED <<pending, sequence, workerEntry>>, NEW r \in Run,
           exec[r].pc \notin {"none", "queued"}, NEW pc, pc \notin {"none", "queued"}, NEW by,
           RunMoves(r, pc, by),
           \/ IdleMoves
           \/ exec[r].by \in Worker /\ WorkerGoTo(exec[r].by, "pull")
    PROVE  /\ RunsBegun' /\ Begun' = Begun
           /\ Ended' = IF pc \in {"notify", "resolve", "done"} THEN Ended \cup {r} ELSE Ended \ {r}
  <1>1. \A w \in Worker : workerPc'[w] = "execute" <=> workerPc[w] = "execute"
    <2>1. CASE IdleMoves
      BY <2>1 DEF IdleMoves
    <2>2. CASE exec[r].by \in Worker /\ WorkerGoTo(exec[r].by, "pull")
      BY <2>2 DEF WorkerGoTo, RunInv, CoreInv, CallbackKnown, TypeInv, TypeOK
    <2>3. QED
      BY <2>1, <2>2
  <1>2. RunsBegun'
    BY DEF RunInv, RunsBegun, RunMoves
  <1>3. Begun' = Begun
    BY <1>1 DEF Begun, RunMoves
  <1>4. Ended' = IF pc \in {"notify", "resolve", "done"} THEN Ended \cup {r} ELSE Ended \ {r}
    BY DEF Ended, RunMoves
  <1>5. QED
    BY <1>2, <1>3, <1>4

\* A call starts.
LEMMA RunsCalls ==
    ASSUME TypeInv, RunInv, NEW c \in Client, NEW k \in Call, NEW t \in Task,
           CallQuery(c, k, t) \/ CallSubmit(c, k, t)
    PROVE  RunsBegun' /\ NothingCounted
  <1>1. UNCHANGED <<pending, sequence, exec, workerEntry, metricsVars>>
    BY DEF CallQuery, CallSubmit, taskVars, backendVars, workerVars
  <1>2. IdleMoves
    <2>1. CASE UNCHANGED workerPc
      BY <2>1 DEF IdleMoves
    <2>2. CASE threads = {} /\ workerPc' = [w \in Worker |-> "pull"]
      BY <2>2 DEF IdleMoves, RunInv, CoreInv, ThreadsKnown
    <2>3. QED
      BY <2>1, <2>2 DEF CallQuery, CallSubmit, workerVars
  <1>3. QED
    BY <1>1, <1>2, RunsFrame DEF NothingCounted

\* A call goes on.
LEMMA RunsClient ==
    ASSUME TypeInv, RunInv, NEW c \in Client, ClientStep(c)
    PROVE  RunsBegun' /\ (NothingCounted \/ SubmissionCounted)
  <1>1. call[c] \in CallRecord /\ call[c].task \in Task
    BY DEF ClientStep, SubmitTask, RecordSubmission, NotifySubmission, WaitTerminal,
       PollWake, DeadlinePasses, RegisterAsync, CheckAsync, AwaitEnds, Collect,
       TypeInv, CallKnown, CallRecord
  <1>2. ASSUME UNCHANGED <<pending, sequence, exec, workerVars>>
        PROVE  RunsBegun' /\ Begun' = Begun /\ Ended' = Ended
    <2>1. IdleMoves
      BY <1>2 DEF workerVars, IdleMoves
    <2>2. QED
      BY <1>2, <2>1, RunsFrame DEF workerVars
  <1>3. ASSUME NEW p \in Priority, Accept(c, call[c].task, p),
               UNCHANGED <<metricsVars, workerVars>>
        PROVE  RunsBegun' /\ NothingCounted
    <2> DEFINE t == call[c].task  s == sequence
               e == [prio |-> p, seq |-> s, id |-> t]
    <2>1. s \in Run /\ sequence' = s + 1 /\ s \in Nat
      BY <1>3, SequenceAssumption DEF Accept, Submit, TypeInv, TypeOK, BackendTypeOK, Run
    <2>2. /\ pending' = pending \cup {e}
          /\ exec' = [exec EXCEPT ![s] = Queued(t)]
          /\ UNCHANGED <<workerPc, workerEntry>>
      BY <1>3 DEF Accept, Submit, workerVars
    <2>3. exec[s] = NoRun /\ exec \in [Run -> ExecRecord]
      BY <2>1 DEF TypeInv, ExecKnown, TypeOK
    <2>4. /\ exec'[s] = Queued(t) /\ exec'[s].pc = "queued" /\ exec'[s].task = t
          /\ exec'[s].by = None
          /\ \A q \in Run : q # s => exec'[q] = exec[q]
      BY <2>1, <2>2, <2>3 DEF Queued, NoRun
    <2>5. e.seq = s /\ e.id = t
      OBVIOUS
    <2>6. \A f \in pending : f.seq < s /\ f.seq \in Run /\ f.seq # s
      BY <2>1, EntryNames DEF Run
    <2>7. \A w \in Worker : Held(w) => workerEntry[w].seq \in Run /\ workerEntry[w].seq # s
      BY <2>1, EntryNames DEF Run
    <2> HIDE DEF e
    <2>8. RunsBegun'
      <3> SUFFICES ASSUME NEW r \in Run, r < s + 1 PROVE exec'[r].pc # "none"
        BY <2>1 DEF RunsBegun
      <3>1. r = s \/ r < s
        BY <2>1 DEF Run
      <3>2. QED
        BY <2>4, <3>1 DEF RunInv, RunsBegun
    <2>9. Begun' = Begun
      <3>1. s \notin Begun'
        BY <2>2, <2>4, <2>7 DEF Begun, Held
      <3>2. s \notin Begun
        BY <2>3, <2>7 DEF Begun, Held, NoRun
      <3>3. \A q \in Run : q # s => (q \in Begun' <=> q \in Begun)
        BY <2>2, <2>4 DEF Begun
      <3>4. Begun \subseteq Run /\ Begun' \subseteq Run
        BY DEF Begun
      <3>5. QED
        BY <3>1, <3>2, <3>3, <3>4
    <2>10. Ended' = Ended
      BY <2>3, <2>4 DEF Ended, NoRun
    <2>11. QED
      BY <1>3, <2>8, <2>9, <2>10 DEF NothingCounted
  <1>4. CASE SubmitTask(c)
    <2>1. CASE Refuse(c, call[c].task)
      BY <1>2, <1>4, <2>1 DEF SubmitTask, Refuse, backendVars, NothingCounted
    <2>2. CASE \E p \in Priority : Accept(c, call[c].task, p)
      BY <1>3, <1>4, <2>2 DEF SubmitTask
    <2>3. QED
      BY <1>4, <2>1, <2>2 DEF SubmitTask
  <1>5. CASE RecordSubmission(c)
    BY <1>2, <1>5 DEF RecordSubmission, backendVars, SubmissionCounted
  <1>6. CASE \/ NotifySubmission(c) \/ PollWake(c) \/ DeadlinePasses(c)
             \/ RegisterAsync(c) \/ CheckAsync(c) \/ AwaitEnds(c)
    BY <1>2, <1>6 DEF NotifySubmission, PollWake, DeadlinePasses, RegisterAsync, CheckAsync,
       AwaitEnds, taskVars, backendVars, NothingCounted
  <1>7. CASE WaitTerminal(c) \/ Collect(c)
    <2>1. UNCHANGED <<exec, workerVars, metricsVars>>
      BY <1>7 DEF WaitTerminal, Collect
    <2>2. UNCHANGED backendVars \/ ReadResponse(c)
      BY <1>7 DEF WaitTerminal, Collect
    <2>3. UNCHANGED <<pending, sequence>>
      BY <1>1, <2>2, ReadResponseTypes DEF backendVars, TypeInv
    <2>4. QED
      BY <1>2, <2>1, <2>3 DEF NothingCounted
  <1>8. QED
    BY <1>4, <1>5, <1>6, <1>7 DEF ClientStep

\* A run leaves the queue with the worker that held it.
LEMMA RunLeavesQueue ==
    ASSUME TypeInv, RunInv, NEW w \in Worker, Held(w), NEW r, r = workerEntry[w].seq,
           NEW pc \in {"flying", "update"}, NEW by, RunMoves(r, pc, by),
           UNCHANGED <<pending, sequence, workerEntry>>,
           \/ by = w /\ workerPc' = [workerPc EXCEPT ![w] = "callback"]
           \/ by = exec[r].by /\ workerPc' = [workerPc EXCEPT ![w] = "pull"]
    PROVE  RunsBegun' /\ r \in Run /\ Begun' = Begun \cup {r} /\ Ended' = Ended
  <1>1. r \in Run /\ exec[r].pc = "queued"
    BY EntryNames DEF RunInv, CoreInv, HeldQueued
  <1>2. /\ exec'[r].pc = pc /\ exec'[r].task = exec[r].task /\ exec'[r].by = by
        /\ \A q \in Run : q # r => exec'[q] = exec[q]
    BY DEF RunMoves
  <1>3. /\ workerPc'[w] \in {"callback", "pull"}
        /\ \A v \in Worker : v # w => workerPc'[v] = workerPc[v]
    BY DEF TypeInv, TypeOK
  <1>4. RunsBegun'
    BY <1>2 DEF RunInv, RunsBegun
  <1>5. Begun' = Begun \cup {r}
    <2>1. r \in Begun'
      BY <1>1, <1>2 DEF Begun
    <2>2. \A q \in Run : q # r => (q \in Begun' <=> q \in Begun)
      <3> SUFFICES ASSUME NEW q \in Run, q # r PROVE q \in Begun' <=> q \in Begun
        OBVIOUS
      <3>1. \A v \in Worker : /\ workerPc'[v] = "execute" => workerPc[v] = "execute"
                              /\ v # w => workerPc'[v] = workerPc[v]
        BY <1>3
      <3>2. QED
        BY <1>2, <3>1 DEF Begun
    <2>3. Begun \subseteq Run /\ Begun' \subseteq Run
      BY DEF Begun
    <2>4. QED
      BY <1>1, <2>1, <2>2, <2>3
  <1>6. Ended' = Ended
    BY <1>1, <1>2 DEF Ended
  <1>7. QED
    BY <1>1, <1>4, <1>5, <1>6

\* A worker that holds an entry looks at its record.
LEMMA RunsStart ==
    ASSUME TypeInv, RunInv, NEW w \in Worker, StartTask(w)
    PROVE  RunsBegun' /\ (NothingCounted \/ StartIsCounted)
  <1> DEFINE r == workerEntry[w].seq
  <1>1. /\ workerPc[w] = "run" /\ Held(w)
        /\ r \in Run /\ workerEntry[w].id \in Task /\ exec[r].pc = "queued"
    BY EntryNames DEF StartTask, Held, RunInv, CoreInv, HeldQueued
  <1>2. r \notin Begun
    BY <1>1 DEF Begun, RunInv, CoreInv, HeldQueued, Held
  <1>3. UNCHANGED <<pending, sequence, workerEntry>>
    BY <1>1, RunEffect
       DEF StartTask, WorkerGoTo, backendVars, TypeInv, TypeOK
  <1>4. CASE /\ status[workerEntry[w].id] = "PENDING" /\ RecordStarted
             /\ WorkerGoTo(w, "execute") /\ UNCHANGED exec
    <2>1. /\ workerPc'[w] = "execute"
          /\ \A v \in Worker : v # w => workerPc'[v] = workerPc[v]
      BY <1>4 DEF WorkerGoTo, TypeInv, TypeOK
    <2>2. RunsBegun'
      BY <1>3, <1>4 DEF RunInv, RunsBegun
    <2>3. Ended' = Ended
      BY <1>4 DEF Ended
    <2>4. Begun' = Begun \cup {r}
      <3>1. r \in Begun'
        BY <1>1, <1>3, <2>1 DEF Begun
      <3>2. \A q \in Run : q # r => (q \in Begun' <=> q \in Begun)
        <4> SUFFICES ASSUME NEW q \in Run, q # r PROVE q \in Begun' <=> q \in Begun
          OBVIOUS
        <4>1. \A v \in Worker : /\ v # w => workerPc'[v] = workerPc[v]
                                /\ v = w => workerEntry[v].seq # q
          BY <2>1
        <4>2. QED
          BY <1>1, <1>3, <1>4, <4>1 DEF Begun
      <3>3. Begun \subseteq Run /\ Begun' \subseteq Run
        BY DEF Begun
      <3>4. QED
        BY <1>1, <3>1, <3>2, <3>3
    <2>5. QED
      BY <1>1, <1>2, <1>4, <2>2, <2>3, <2>4 DEF StartIsCounted
  <1>5. CASE /\ status[workerEntry[w].id] = "PENDING" /\ RecordStarted
             /\ exec' = Finishing(r, "FAILED", w) /\ WorkerGoTo(w, "callback")
    <2>1. RunMoves(r, "update", w)
      BY <1>1, <1>5, FinishingMoves DEF TypeInv
    <2>2. RunsBegun' /\ Begun' = Begun \cup {r} /\ Ended' = Ended
      <3>1. workerPc' = [workerPc EXCEPT ![w] = "callback"]
        BY <1>5 DEF WorkerGoTo
      <3>2. QED
        BY <1>1, <1>3, <2>1, <3>1, RunLeavesQueue
    <2>3. QED
      BY <1>1, <1>2, <1>5, <2>2 DEF StartIsCounted
  <1>6. CASE WorkerGoTo(w, "pull") /\ UNCHANGED <<metricsVars, exec>>
    <2>1. /\ workerPc'[w] = "pull"
          /\ \A v \in Worker : v # w => workerPc'[v] = workerPc[v]
      BY <1>6 DEF WorkerGoTo, TypeInv, TypeOK
    <2>2. RunsBegun'
      BY <1>3, <1>6 DEF RunInv, RunsBegun
    <2>3. Begun' = Begun /\ Ended' = Ended
      BY <1>1, <1>3, <1>6, <2>1 DEF Begun, Ended
    <2>4. QED
      BY <1>6, <2>2, <2>3 DEF NothingCounted
  <1>7. QED
    BY <1>4, <1>5, <1>6 DEF StartTask

\* Workers.
LEMMA RunsWorker ==
    ASSUME TypeInv, RunInv, NEW w \in Worker, WorkerStep(w)
    PROVE  RunsBegun' /\ (NothingCounted \/ StartIsCounted)
  <1>1. ASSUME UNCHANGED <<pending, sequence, exec, workerEntry, metricsVars>>, NEW pc,
               workerPc' = [workerPc EXCEPT ![w] = pc],
               {workerPc[w], pc} \cap {"run", "execute", "callback"} = {}
        PROVE  RunsBegun' /\ NothingCounted
    <2>1. IdleMoves
      BY <1>1 DEF IdleMoves, TypeInv, TypeOK
    <2>2. QED
      BY <1>1, <2>1, RunsFrame DEF NothingCounted
  <1>2. CASE PullTask(w)
    <2>1. workerPc[w] = "pull" /\ UNCHANGED <<exec, metricsVars>>
      BY <1>2 DEF PullTask
    <2>2. CASE WorkerGoTo(w, "exit") /\ UNCHANGED backendVars
      BY <1>1, <2>1, <2>2 DEF WorkerGoTo, backendVars
    <2>3. CASE UNCHANGED <<backendVars, workerVars>>
      <3>1. IdleMoves
        BY <2>3 DEF workerVars, IdleMoves
      <3>2. QED
        BY <2>1, <2>3, <3>1, RunsFrame DEF NothingCounted, backendVars, workerVars
    <2>4. ASSUME NEW e \in pending, Pull(e),
                 workerPc' = [workerPc EXCEPT ![w] = "run"],
                 workerEntry' = [workerEntry EXCEPT ![w] = e]
          PROVE  RunsBegun' /\ NothingCounted
      <3>1. pending' = pending \ {e} /\ UNCHANGED sequence
        BY <2>4 DEF Pull
      <3>2. /\ workerPc'[w] = "run" /\ workerEntry'[w] = e
            /\ \A v \in Worker : v # w =>
                  workerPc'[v] = workerPc[v] /\ workerEntry'[v] = workerEntry[v]
        BY <2>4 DEF TypeInv, TypeOK
      <3>3. RunsBegun'
        BY <2>1, <3>1 DEF RunInv, RunsBegun
      <3>4. Begun' = Begun /\ Ended' = Ended
        BY <2>1, <3>2 DEF Begun, Ended
      <3>5. QED
        BY <2>1, <3>3, <3>4 DEF NothingCounted
    <2>5. QED
      BY <1>2, <2>2, <2>3, <2>4 DEF PullTask
  <1>3. CASE StartTask(w)
    BY <1>3, RunsStart
  <1>4. CASE ExecuteInline(w) \/ ExecuteLater(w)
    <2> DEFINE r == workerEntry[w].seq
    <2>1. /\ workerPc[w] = "execute" /\ Held(w)
          /\ UNCHANGED <<pending, sequence, workerEntry, metricsVars>>
      BY <1>4 DEF ExecuteInline, ExecuteLater, Held, WorkerGoTo, taskVars, backendVars
    <2>2. r \in Run /\ r \in Begun
      BY <2>1, EntryNames DEF Begun
    <2>3. CASE ExecuteInline(w)
      <3>1. RunMoves(r, "update", w)
        BY <2>2, <2>3, FinishingMoves DEF ExecuteInline, TypeInv
      <3>2. workerPc' = [workerPc EXCEPT ![w] = "callback"]
        BY <2>3 DEF ExecuteInline, WorkerGoTo
      <3>3. RunsBegun' /\ Begun' = Begun \cup {r} /\ Ended' = Ended
        BY <2>1, <3>1, <3>2, RunLeavesQueue
      <3>4. QED
        BY <2>1, <2>2, <3>3 DEF NothingCounted
    <2>4. CASE ExecuteLater(w)
      <3>1. RunMoves(r, "flying", exec[r].by)
        BY <2>2, <2>4, GoToMoves DEF ExecuteLater, TypeInv
      <3>2. workerPc' = [workerPc EXCEPT ![w] = "pull"]
        BY <2>4 DEF ExecuteLater, WorkerGoTo
      <3>3. RunsBegun' /\ Begun' = Begun \cup {r} /\ Ended' = Ended
        BY <2>1, <3>1, <3>2, RunLeavesQueue
      <3>4. QED
        BY <2>1, <2>2, <3>3 DEF NothingCounted
    <2>5. QED
      BY <1>4, <2>3, <2>4
  <1>5. CASE WorkerExit(w) \/ WorkerExited(w)
    <2>1. /\ workerPc[w] \in {"exit", "failing"}
          /\ UNCHANGED <<pending, sequence, exec, workerEntry, metricsVars>>
      BY <1>5 DEF WorkerExit, WorkerExited, WorkerLeaves, WorkerGoTo, taskVars, backendVars
    <2>2. PICK pc \in {"failing", "dead"} : workerPc' = [workerPc EXCEPT ![w] = pc]
      BY <1>5 DEF WorkerExit, WorkerExited, WorkerLeaves, WorkerGoTo
    <2>3. QED
      BY <1>1, <2>1, <2>2
  <1>6. QED
    BY <1>2, <1>3, <1>4, <1>5 DEF WorkerStep

\* Completion paths.
LEMMA RunsCompletion ==
    ASSUME TypeInv, RunInv, NEW r \in Run, FutureDone(r) \/ CompletionStep(r)
    PROVE  RunsBegun' /\ (NothingCounted \/ FinishIsCounted)
  <1>1. /\ exec[r].pc \in {"flying", "update", "record", "notify", "resolve"}
        /\ UNCHANGED <<sequence, workerEntry>>
    BY DEF FutureDone, CompletionStep, CompleteUpdate, CompleteRelease, CompleteNotify,
       CompleteResolve, UpdateStatus, UpdateTerminal, UpdateLive, WorkerGoTo, workerVars,
       taskVars, backendVars
  <1>2. exec[r].task \in Task
    BY <1>1, RunNames
  <1>3. ASSUME UNCHANGED <<workerVars, metricsVars, pending>>, NEW pc, NEW by,
               RunMoves(r, pc, by),
               pc \notin {"none", "queued"},
               exec[r].pc \in {"notify", "resolve", "done"} <=> pc \in {"notify", "resolve", "done"}
        PROVE  RunsBegun' /\ NothingCounted
    <2>1. IdleMoves
      BY <1>3 DEF workerVars, IdleMoves
    <2>2. Begun' = Begun /\ RunsBegun'
          /\ Ended' = IF pc \in {"notify", "resolve", "done"} THEN Ended \cup {r} ELSE Ended \ {r}
      BY <1>1, <1>3, <2>1, RunGoesOn
    <2>3. Ended' = Ended
      BY <1>3, <2>2 DEF Ended
    <2>4. QED
      BY <1>3, <2>2, <2>3 DEF NothingCounted
  <1>4. CASE FutureDone(r)
    <2>1. RunMoves(r, "update", None)
      BY <1>4, FinishingMoves DEF FutureDone, TypeInv
    <2>2. exec[r].pc = "flying" /\ UNCHANGED <<workerVars, metricsVars, pending>>
      BY <1>4 DEF FutureDone, taskVars, backendVars
    <2>3. QED
      BY <1>3, <2>1, <2>2
  <1>5. CASE CompleteUpdate(r)
    <2>1. RunMoves(r, "record", exec[r].by)
      BY <1>5, GoToMoves DEF CompleteUpdate, ExecGoTo, TypeInv
    <2>2. exec[r].outcome \in Terminal
      BY <1>5 DEF CompleteUpdate, TypeInv, ExecKnown
    <2>3. exec[r].pc = "update" /\ UNCHANGED <<workerVars, metricsVars, pending>>
      BY <1>5, <2>2 DEF CompleteUpdate, UpdateStatus, UpdateTerminal
    <2>4. QED
      BY <1>3, <2>1, <2>3
  <1>6. CASE CompleteRelease(r)
    <2>1. RunMoves(r, "notify", exec[r].by)
      BY <1>6, GoToMoves DEF CompleteRelease, ExecGoTo, TypeInv
    <2>2. /\ exec[r].pc = "record" /\ UNCHANGED <<workerVars, pending>>
          /\ RecordFinished(exec[r].task, exec[r].outcome)
      BY <1>6 DEF CompleteRelease, backendVars
    <2>3. exec[r].outcome \in Terminal
      BY <2>2 DEF TypeInv, ExecKnown
    <2>4. IdleMoves
      BY <2>2 DEF workerVars, IdleMoves
    <2>5. RunsBegun' /\ Begun' = Begun
          /\ Ended' = IF "notify" \in {"notify", "resolve", "done"} THEN Ended \cup {r} ELSE Ended \ {r}
      BY <1>1, <2>1, <2>2, <2>4, RunGoesOn DEF workerVars
    <2>6. r \notin Ended
      BY <2>2 DEF Ended
    <2>7. QED
      BY <2>2, <2>3, <2>5, <2>6 DEF FinishIsCounted
  <1>7. CASE CompleteNotify(r)
    <2>1. RunMoves(r, "resolve", exec[r].by)
      BY <1>7, GoToMoves DEF CompleteNotify, ExecGoTo, TypeInv
    <2>2. exec[r].pc = "notify" /\ UNCHANGED <<workerVars, metricsVars, pending>>
      BY <1>7 DEF CompleteNotify, taskVars, backendVars
    <2>3. QED
      BY <1>3, <2>1, <2>2
  <1>8. CASE CompleteResolve(r)
    <2>1. RunMoves(r, "done", None)
      BY <1>8, EndMoves DEF CompleteResolve, TypeInv
    <2>2. exec[r].pc = "resolve" /\ UNCHANGED <<metricsVars, pending>>
      BY <1>8 DEF CompleteResolve, taskVars, backendVars
    <2>3. CASE UNCHANGED workerVars
      BY <1>3, <2>1, <2>2, <2>3
    <2>4. CASE exec[r].by \in Worker /\ WorkerGoTo(exec[r].by, "pull")
      <3>1. RunsBegun' /\ Begun' = Begun
            /\ Ended' = IF "done" \in {"notify", "resolve", "done"} THEN Ended \cup {r} ELSE Ended \ {r}
        BY <1>1, <2>1, <2>2, <2>4, RunGoesOn
      <3>2. Ended' = Ended
        BY <2>2, <3>1 DEF Ended
      <3>3. QED
        BY <2>2, <3>1, <3>2 DEF NothingCounted
    <2>5. QED
      BY <1>8, <2>3, <2>4 DEF CompleteResolve
  <1>9. QED
    BY <1>4, <1>5, <1>6, <1>7, <1>8 DEF CompletionStep

\* Stopping.
LEMMA RunsStop ==
    ASSUME TypeInv, RunInv, StopBegin \/ StopStep \/ FailStep
    PROVE  RunsBegun' /\ NothingCounted
  <1>1. /\ UNCHANGED <<workerPc, workerEntry, metricsVars, sequence, pending>>
        /\ IdleMoves
    <2>1. UNCHANGED <<workerPc, workerEntry, metricsVars>>
      BY DEF StopBegin, StopStep, CloseStrategy, CloseRaises, StopNotify, JoinThreads, StopReturns,
         FailFuture, FailStep, FailUpdate, FailRelease, FailNotify, workerVars, taskVars
    <2>2. UNCHANGED <<sequence, pending>>
      BY DEF StopBegin, StopStep, CloseStrategy, CloseRaises, StopNotify, JoinThreads, StopReturns,
         FailFuture, FailStep, FailUpdate, FailRelease, FailNotify, taskVars, backendVars,
         UpdateStatus, UpdateTerminal, UpdateLive
    <2>3. QED
      BY <2>1, <2>2 DEF IdleMoves
  <1>2. CASE UNCHANGED exec
    BY <1>1, <1>2, RunsFrame DEF NothingCounted
  <1>3. CASE \E r \in Run : FailFuture(r)
    <2>1. PICK r \in Run : FailFuture(r)
      BY <1>3
    <2>2. RunMoves(r, "update", Stopper) /\ exec[r].pc = "flying"
      BY <2>1, FinishingMoves DEF FailFuture, TypeInv
    <2>3. RunsBegun' /\ Begun' = Begun
          /\ Ended' = IF "update" \in {"notify", "resolve", "done"} THEN Ended \cup {r} ELSE Ended \ {r}
      BY <1>1, <2>2, RunGoesOn
    <2>4. Ended' = Ended
      BY <2>2, <2>3 DEF Ended
    <2>5. QED
      BY <1>1, <2>3, <2>4 DEF NothingCounted
  <1>4. QED
    BY <1>2, <1>3 DEF StopBegin, StopStep, CloseStrategy, CloseRaises, StopNotify, JoinThreads,
                      StopReturns,
       FailStep, FailUpdate, FailRelease, FailNotify

\* Every step of the scheduler is of one of the four kinds.
LEMMA RunsStep ==
    ASSUME TypeInv, RunInv, [Next]_vars
    PROVE  RunsBegun' /\ Counts
  <1>1. CASE UNCHANGED vars
    <2>1. UNCHANGED <<pending, sequence, exec, workerPc, workerEntry, metricsVars>>
      BY <1>1 DEF vars, taskVars, backendVars, workerVars
    <2>2. IdleMoves
      BY <2>1 DEF IdleMoves
    <2>3. QED
      BY <2>1, <2>2, RunsFrame DEF Counts, NothingCounted
  <1>2. ASSUME NEW c \in Client, NEW k \in Call, NEW t \in Task,
               CallQuery(c, k, t) \/ CallSubmit(c, k, t)
        PROVE  RunsBegun' /\ Counts
    BY <1>2, RunsCalls DEF Counts
  <1>3. ASSUME NEW c \in Client, ClientStep(c) PROVE RunsBegun' /\ Counts
    BY <1>3, RunsClient DEF Counts
  <1>4. ASSUME NEW w \in Worker, WorkerStep(w) PROVE RunsBegun' /\ Counts
    BY <1>4, RunsWorker DEF Counts
  <1>5. ASSUME NEW r \in Run, FutureDone(r) \/ CompletionStep(r) PROVE RunsBegun' /\ Counts
    BY <1>5, RunsCompletion DEF Counts
  <1>6. CASE StopBegin \/ StopStep \/ FailStep
    BY <1>6, RunsStop DEF Counts
  <1>7. QED
    BY <1>1, <1>2, <1>3, <1>4, <1>5, <1>6 DEF Next, Rest

Finished == finishedTotal["COMPLETED"] + finishedTotal["FAILED"]

\* The counters are the sizes of these sets; the gauge, which stops at zero,
\* covers at least the difference.
RunsCounted ==
    /\ startedTotal = Cardinality(Begun)
    /\ Finished = Cardinality(Ended)
    /\ inflight + Finished >= submittedTotal

\* The runs are finitely many.
LEMMA RunsFinite ==
    /\ IsFiniteSet(Run)
    /\ IsFiniteSet(Begun) /\ Cardinality(Begun) \in Nat
    /\ IsFiniteSet(Ended) /\ Cardinality(Ended) \in Nat
  <1>1. IsFiniteSet(Run)
    BY FS_Interval, SequenceAssumption DEF Run
  <1>2. Begun \subseteq Run /\ Ended \subseteq Run
    BY DEF Begun, Ended
  <1>3. QED
    BY <1>1, <1>2, FS_Subset, FS_CardinalityType

\* A counter moves with its set.
LEMMA CountsKept ==
    ASSUME TypeOK, RunsCounted, Counts
    PROVE  RunsCounted'
  <1>1. /\ submittedTotal \in Nat /\ startedTotal \in Nat /\ inflight \in Nat
        /\ finishedTotal \in [Terminal -> Nat]
        /\ finishedTotal["COMPLETED"] \in Nat /\ finishedTotal["FAILED"] \in Nat
    BY DEF TypeOK, Terminal
  <1>2. CASE NothingCounted
    BY <1>2 DEF NothingCounted, RunsCounted, Finished, metricsVars
  <1>3. CASE SubmissionCounted
    <2>1. PICK t : RecordSubmitted(t)
      BY <1>3 DEF SubmissionCounted
    <2>2. /\ startedTotal' = Cardinality(Begun') /\ Finished' = Cardinality(Ended')
          /\ Finished' = Finished
      BY <1>3, <2>1 DEF SubmissionCounted, RecordSubmitted, RunsCounted, Finished
    <2>3. Finished \in Nat
      BY <1>1 DEF Finished
    <2>4. inflight' + Finished' >= submittedTotal'
      BY <1>1, <2>1, <2>2, <2>3 DEF RecordSubmitted, RunsCounted
    <2>5. QED
      BY <2>2, <2>4 DEF RunsCounted
  <1>4. CASE StartIsCounted
    <2>1. PICK r \in Run : r \notin Begun /\ Begun' = Begun \cup {r} /\ Ended' = Ended /\ RecordStarted
      BY <1>4 DEF StartIsCounted
    <2>2. Cardinality(Begun') = Cardinality(Begun) + 1
      BY <2>1, RunsFinite, FS_AddElement
    <2>3. startedTotal' = Cardinality(Begun')
      BY <2>1, <2>2 DEF RecordStarted, RunsCounted
    <2>4. Finished' = Finished /\ UNCHANGED <<inflight, submittedTotal>>
      BY <2>1 DEF RecordStarted, Finished
    <2>5. Finished' = Cardinality(Ended') /\ inflight' + Finished' >= submittedTotal'
      BY <2>1, <2>4 DEF RunsCounted
    <2>6. QED
      BY <2>3, <2>5 DEF RunsCounted
  <1>5. CASE FinishIsCounted
    <2>1. PICK r \in Run : /\ r \notin Ended /\ Ended' = Ended \cup {r} /\ Begun' = Begun
                           /\ \E t, s : s \in Terminal /\ RecordFinished(t, s)
      BY <1>5 DEF FinishIsCounted
    <2>2. Cardinality(Ended') = Cardinality(Ended) + 1
      BY <2>1, RunsFinite, FS_AddElement
    <2>3. PICK t, s : s \in Terminal /\ RecordFinished(t, s)
      BY <2>1
    <2>4. /\ finishedTotal' = [finishedTotal EXCEPT ![s] = finishedTotal[s] + 1]
          /\ inflight' = IF inflight > 0 THEN inflight - 1 ELSE 0
          /\ UNCHANGED <<submittedTotal, startedTotal>>
      BY <2>3 DEF RecordFinished
    <2>5. Finished' = Finished + 1
      <3>1. CASE s = "COMPLETED"
        BY <1>1, <2>4, <3>1 DEF Finished, Terminal
      <3>2. CASE s = "FAILED"
        BY <1>1, <2>4, <3>2 DEF Finished, Terminal
      <3>3. QED
        BY <2>3, <3>1, <3>2 DEF Terminal
    <2>6. Finished \in Nat
      BY <1>1 DEF Finished
    <2>7. inflight' + Finished' >= submittedTotal'
      BY <1>1, <2>4, <2>5, <2>6 DEF RunsCounted
    <2>8. startedTotal' = Cardinality(Begun')
      BY <2>1, <2>4 DEF RunsCounted
    <2>9. QED
      BY <2>2, <2>5, <2>7, <2>8 DEF RunsCounted
  <1>6. QED
    BY <1>2, <1>3, <1>4, <1>5 DEF Counts

\* The lifecycle lock: a submission that was accepted and not announced yet,
\* or a stop that is under way, has it.
LockKnown ==
    /\ \A c \in Client : clientPc[c] \in {"record", "notify"} => lifecycleLock = c
    /\ stopPc # "idle" => lifecycleLock = Stopper

Recording == {c \in Client : clientPc[c] = "record"}

\* What is accepted is counted, up to the one submission that holds the lock.
SubmitCounted == submittedTotal + (IF Recording = {} THEN 0 ELSE 1) = sequence

\* The lock passes from one to the next, and the counter follows the heap.
LEMMA LockStep ==
    ASSUME TypeInv, LockKnown, SubmitCounted, [Next]_vars
    PROVE  LockKnown' /\ SubmitCounted'
  <1> USE DEF shutdownVars, stopVars, lockVars, taskVars, metricsVars, clientVars
  <1>1. ASSUME UNCHANGED <<clientPc, lifecycleLock, stopPc, submittedTotal, sequence>>
        PROVE  LockKnown' /\ SubmitCounted'
    BY <1>1 DEF LockKnown, SubmitCounted, Recording
  <1>2. ASSUME NEW c \in Client, clientPc[c] \notin {"record", "notify"}, NEW pc,
               pc \notin {"record", "notify"},
               clientPc' = [clientPc EXCEPT ![c] = pc],
               UNCHANGED <<lifecycleLock, stopPc, submittedTotal, sequence>>
        PROVE  LockKnown' /\ SubmitCounted'
    <2>1. \A d \in Client : clientPc'[d] = clientPc[d] \/
                {clientPc'[d], clientPc[d]} \cap {"record", "notify"} = {}
      BY <1>2 DEF TypeInv, TypeOK
    <2>2. Recording' = Recording
      BY <2>1 DEF Recording
    <2>3. QED
      BY <1>2, <2>1, <2>2 DEF LockKnown, SubmitCounted
  <1>3. ASSUME NEW c \in Client, NEW k \in Call, NEW t \in Task,
               CallQuery(c, k, t) \/ CallSubmit(c, k, t)
        PROVE  LockKnown' /\ SubmitCounted'
    <2>1. /\ clientPc[c] = "idle"
          /\ UNCHANGED <<lifecycleLock, stopPc, submittedTotal, sequence>>
      BY <1>3 DEF CallQuery, CallSubmit, backendVars
    <2>2. PICK pc \in {"wait", "collect", "done", "submit"} :
             clientPc' = [clientPc EXCEPT ![c] = pc]
      BY <1>3 DEF CallQuery, CallSubmit
    <2>3. QED
      BY <1>2, <2>1, <2>2
  <1>4. ASSUME NEW c \in Client, ClientStep(c) PROVE LockKnown' /\ SubmitCounted'
    <2>0. c # Stopper /\ None # Stopper /\ None \notin Client /\ Stopper \notin Client
      BY ActorAssumption
    <2>1. CASE SubmitTask(c) /\ Refuse(c, call[c].task)
      <3>1. clientPc[c] = "submit" /\ UNCHANGED <<lifecycleLock, stopPc, submittedTotal, sequence>>
        BY <2>1 DEF SubmitTask, Refuse, backendVars
      <3>2. clientPc' = [clientPc EXCEPT ![c] = "done"]
        BY <2>1 DEF Refuse, Return
      <3>3. QED
        BY <1>2, <3>1, <3>2
    <2>2. CASE SubmitTask(c) /\ \E p \in Priority : Accept(c, call[c].task, p)
      <3>1. /\ clientPc[c] = "submit" /\ lifecycleLock = None
            /\ UNCHANGED <<stopPc, submittedTotal>>
        BY <2>2 DEF SubmitTask
      <3>2. /\ sequence' = sequence + 1 /\ lifecycleLock' = c
            /\ clientPc' = [clientPc EXCEPT ![c] = "record"]
        BY <2>2 DEF Accept, Submit, GoTo
      <3>3. \A d \in Client : clientPc[d] \notin {"record", "notify"}
        BY <2>0, <3>1 DEF LockKnown
      <3>4. clientPc'[c] = "record" /\ \A d \in Client : d # c => clientPc'[d] = clientPc[d]
        BY <3>2 DEF TypeInv, TypeOK
      <3>5. Recording = {} /\ Recording' # {}
        BY <3>3, <3>4 DEF Recording
      <3>6. LockKnown'
        BY <2>0, <3>1, <3>2, <3>3, <3>4 DEF LockKnown
      <3>7. submittedTotal \in Nat /\ sequence \in Nat
        BY DEF TypeInv, TypeOK, BackendTypeOK
      <3>8. QED
        BY <3>1, <3>2, <3>5, <3>6, <3>7 DEF SubmitCounted
    <2>3. CASE RecordSubmission(c)
      <3>1. /\ clientPc[c] = "record" /\ lifecycleLock = c
            /\ submittedTotal' = submittedTotal + 1 /\ UNCHANGED <<stopPc, sequence>>
        BY <2>3 DEF RecordSubmission, RecordSubmitted, LockKnown, backendVars
      <3>2. \A d \in Client : d # c => clientPc[d] \notin {"record", "notify"}
        BY <3>1 DEF LockKnown
      <3>3. /\ \/ clientPc'[c] = "notify" /\ lifecycleLock' = lifecycleLock
               \/ clientPc'[c] = "done" /\ lifecycleLock' = None
            /\ \A d \in Client : d # c => clientPc'[d] = clientPc[d]
        BY <2>3 DEF RecordSubmission, GoTo, Return, TypeInv, TypeOK
      <3>4. Recording # {} /\ Recording' = {}
        BY <3>1, <3>2, <3>3 DEF Recording
      <3>5. LockKnown'
        BY <2>0, <3>1, <3>2, <3>3 DEF LockKnown
      <3>6. submittedTotal \in Nat /\ sequence \in Nat
        BY DEF TypeInv, TypeOK, BackendTypeOK
      <3>7. QED
        BY <3>1, <3>4, <3>5, <3>6 DEF SubmitCounted
    <2>4. CASE NotifySubmission(c)
      <3>1. /\ clientPc[c] = "notify" /\ lifecycleLock = c
            /\ UNCHANGED <<stopPc, sequence, submittedTotal>>
        BY <2>4 DEF NotifySubmission, LockKnown, backendVars
      <3>2. \A d \in Client : d # c => clientPc[d] \notin {"record", "notify"}
        BY <3>1 DEF LockKnown
      <3>3. /\ clientPc'[c] \in {"done", "wait", "register"}
            /\ \A d \in Client : d # c => clientPc'[d] = clientPc[d]
        BY <2>4 DEF NotifySubmission, GoTo, Return, TypeInv, TypeOK
      <3>4. Recording = {} /\ Recording' = {}
        BY <3>1, <3>2, <3>3 DEF Recording
      <3>5. LockKnown'
        BY <2>0, <3>1, <3>2, <3>3 DEF LockKnown
      <3>6. QED
        BY <3>1, <3>4, <3>5 DEF SubmitCounted
    <2>5. CASE \/ WaitTerminal(c) \/ PollWake(c) \/ DeadlinePasses(c)
               \/ RegisterAsync(c) \/ CheckAsync(c) \/ AwaitEnds(c) \/ Collect(c)
      <3>1. clientPc[c] \in {"wait", "register", "check", "await", "collect"}
            /\ UNCHANGED <<lifecycleLock, stopPc, submittedTotal>>
        BY <2>5 DEF WaitTerminal, PollWake, DeadlinePasses, RegisterAsync, CheckAsync,
           AwaitEnds, Collect
      <3>2. UNCHANGED clientPc \/
              \E pc \in {"done", "check", "collect", "await"} :
                 clientPc' = [clientPc EXCEPT ![c] = pc]
        BY <2>5 DEF WaitTerminal, PollWake, DeadlinePasses, RegisterAsync, CheckAsync,
           AwaitEnds, Collect, ReadResponse, GoTo, Return
      <3>3. UNCHANGED sequence
        <4>1. CASE ReadResponse(c)
          <5>1. call[c] \in CallRecord
            BY <3>1 DEF TypeInv, CallKnown, CallRecord
          <5>2. QED
            BY <4>1, <5>1, ReadResponseTypes DEF TypeInv
        <4>2. CASE UNCHANGED backendVars
          BY <4>2 DEF backendVars
        <4>3. QED
          BY <2>5, <4>1, <4>2 DEF WaitTerminal, PollWake, DeadlinePasses, RegisterAsync,
             CheckAsync, AwaitEnds, Collect
      <3>4. QED
        BY <1>1, <1>2, <3>1, <3>2, <3>3
    <2>6. QED
      BY <1>4, <2>1, <2>2, <2>3, <2>4, <2>5 DEF ClientStep, SubmitTask
  <1>5. ASSUME NEW w \in Worker, WorkerStep(w) PROVE LockKnown' /\ SubmitCounted'
    <2>1. UNCHANGED <<clientPc, lifecycleLock, stopPc, submittedTotal>>
      BY <1>5 DEF WorkerStep, PullTask, StartTask, ExecuteInline, ExecuteLater, WorkerExit,
         WorkerExited, RecordStarted
    <2>2. UNCHANGED sequence
      BY <1>5 DEF WorkerStep, PullTask, Pull, StartTask, UpdateStatus, UpdateTerminal, UpdateLive,
         ExecuteInline, ExecuteLater, WorkerExit, WorkerExited, backendVars
    <2>3. QED
      BY <1>1, <2>1, <2>2
  <1>6. ASSUME NEW r \in Run, FutureDone(r) \/ CompletionStep(r)
        PROVE  LockKnown' /\ SubmitCounted'
    <2>1. UNCHANGED <<clientPc, lifecycleLock, stopPc, submittedTotal, sequence>>
      BY <1>6 DEF FutureDone, CompletionStep, CompleteUpdate, CompleteRelease, CompleteNotify,
         CompleteResolve, RecordFinished, UpdateStatus, UpdateTerminal, UpdateLive, backendVars
    <2>2. QED
      BY <1>1, <2>1
  <1>7. CASE StopBegin \/ StopStep
    <2>1. UNCHANGED <<clientPc, submittedTotal, sequence>>
      BY <1>7 DEF StopBegin, StopStep, CloseStrategy, CloseRaises, StopNotify, JoinThreads, StopReturns,
         FailFuture, backendVars
    <2>2. SubmitCounted'
      BY <2>1 DEF SubmitCounted, Recording
    <2>3. \/ UNCHANGED lifecycleLock /\ stopPc # "idle"
          \/ lifecycleLock = None /\ lifecycleLock' = Stopper
          \/ stopPc # "idle" /\ stopPc' = "idle" /\ lifecycleLock' = None
      BY <1>7 DEF StopBegin, StopStep, CloseStrategy, CloseRaises, StopNotify, JoinThreads, StopReturns,
         FailFuture
    <2>4. \A c \in Client : c # Stopper /\ c # None
      BY ActorAssumption
    <2>5. LockKnown'
      BY <2>1, <2>3, <2>4 DEF LockKnown
    <2>6. QED
      BY <2>2, <2>5
  <1>8. CASE FailStep \/ UNCHANGED vars
    <2>1. UNCHANGED <<clientPc, lifecycleLock, stopPc, submittedTotal, sequence>>
      BY <1>8 DEF FailStep, FailUpdate, FailRelease, FailNotify, UpdateStatus, UpdateTerminal,
         UpdateLive, backendVars, vars
    <2>2. QED
      BY <1>1, <2>1
  <1>9. QED
    BY <1>3, <1>4, <1>5, <1>6, <1>7, <1>8 DEF Next, Rest

\* A worker that waits is about to pull.
SleepersPull == \A w \in Worker \cap waitSet : workerPc[w] = "pull"

\* No step moves a worker that waits.
LEMMA SleepersStep ==
    ASSUME TypeInv, RunInv, SleepersPull, [Next]_vars
    PROVE  SleepersPull'
  <1> USE DEF shutdownVars, taskVars, clientVars
  <1>1. ASSUME waitSet' \cap Worker \subseteq waitSet,
               \A w \in Worker : workerPc'[w] = workerPc[w] \/ workerPc'[w] = "pull"
                                   \/ workerPc[w] # "pull" \/ w \notin waitSet
        PROVE  SleepersPull'
    BY <1>1 DEF SleepersPull
  <1>2. ASSUME NEW c \in Client, NEW k \in Call, NEW t \in Task,
               CallQuery(c, k, t) \/ CallSubmit(c, k, t)
        PROVE  SleepersPull'
    <2>1. UNCHANGED waitSet /\ (UNCHANGED workerPc \/ workerPc' = [w \in Worker |-> "pull"])
      BY <1>2 DEF CallQuery, CallSubmit, workerVars
    <2>2. QED
      BY <1>1, <2>1
  <1>3. ASSUME NEW c \in Client, ClientStep(c) PROVE SleepersPull'
    <2>1. UNCHANGED workerPc
      BY <1>3 DEF ClientStep, SubmitTask, RecordSubmission, NotifySubmission, WaitTerminal,
         PollWake, DeadlinePasses, RegisterAsync, CheckAsync, AwaitEnds, Collect, workerVars
    <2>2. waitSet' \subseteq waitSet \cup {c}
      BY <1>3 DEF ClientStep, SubmitTask, RecordSubmission, NotifySubmission, WaitTerminal,
         PollWake, DeadlinePasses, RegisterAsync, CheckAsync, AwaitEnds, Collect, NotifyWaiters
    <2>3. c \notin Worker
      BY ActorAssumption
    <2>4. QED
      BY <1>1, <2>1, <2>2, <2>3
  <1>4. ASSUME NEW w \in Worker, WorkerStep(w) PROVE SleepersPull'
    <2>1. CASE PullTask(w) /\ waitSet' = waitSet \cup {w} /\ UNCHANGED workerPc
      BY <2>1 DEF PullTask, SleepersPull
    <2>2. CASE /\ UNCHANGED waitSet /\ (w \notin waitSet \/ workerPc[w] # "pull")
               /\ \E pc : workerPc' = [workerPc EXCEPT ![w] = pc]
      <3>1. \A v \in Worker : v # w => workerPc'[v] = workerPc[v]
        BY <2>2 DEF TypeInv, TypeOK
      <3>2. QED
        BY <1>1, <2>2, <3>1
    <2>3. QED
      BY <1>4, <2>1, <2>2 DEF WorkerStep, PullTask, StartTask, ExecuteInline, ExecuteLater,
         WorkerExit, WorkerExited, WorkerLeaves, WorkerGoTo, workerVars
  <1>5. ASSUME NEW r \in Run, FutureDone(r) \/ CompletionStep(r) PROVE SleepersPull'
    <2>1. waitSet' \subseteq waitSet
      BY <1>5 DEF FutureDone, CompletionStep, CompleteUpdate, CompleteRelease, CompleteNotify,
         CompleteResolve, NotifyWaiters
    <2>2. UNCHANGED workerPc \/ workerPc' = [workerPc EXCEPT ![exec[r].by] = "pull"]
      BY <1>5 DEF FutureDone, CompletionStep, CompleteUpdate, CompleteRelease, CompleteNotify,
         CompleteResolve, WorkerGoTo, workerVars
    <2>3. \A w \in Worker : workerPc'[w] = workerPc[w] \/ workerPc'[w] = "pull"
      BY <2>2 DEF TypeInv, TypeOK
    <2>4. QED
      BY <1>1, <2>1, <2>3
  <1>6. CASE StopBegin \/ StopStep \/ FailStep \/ UNCHANGED vars
    <2>1. UNCHANGED workerPc /\ waitSet' \subseteq waitSet
      BY <1>6 DEF StopBegin, StopStep, CloseStrategy, CloseRaises, StopNotify, JoinThreads, StopReturns,
         FailFuture, FailStep, FailUpdate, FailRelease, FailNotify, workerVars, NotifyWaiters, vars
    <2>2. QED
      BY <1>1, <2>1
  <1>7. QED
    BY <1>2, <1>3, <1>4, <1>5, <1>6 DEF Next, Rest

\* The whole invariant.
CountInv == RunInv /\ RunsCounted /\ LockKnown /\ SubmitCounted /\ SleepersPull

\* It holds at the start, ...
LEMMA CountStart == Init => CountInv
  <1> SUFFICES ASSUME Init PROVE CountInv
    OBVIOUS
  <1>1. CoreInv
    BY OwnBegins DEF OwnInv
  <1>2. RunsBegun
    BY DEF Init, BackendInit, RunsBegun, Run
  <1>3. Begun = {} /\ Ended = {}
    BY DEF Init, NoRun, Begun, Ended
  <1>4. RunsCounted
    BY <1>3, FS_EmptySet DEF Init, MetricsInit, RunsCounted, Finished
  <1>5. LockKnown /\ SleepersPull
    BY DEF Init, LockKnown, SleepersPull
  <1>6. SubmitCounted
    BY DEF Init, BackendInit, MetricsInit, SubmitCounted, Recording
  <1>7. QED
    BY <1>1, <1>2, <1>4, <1>5, <1>6 DEF RunInv, CountInv

\* ... is kept by every step, ...
LEMMA CountStep ==
    ASSUME TypeInv, CountInv, [Next]_vars
    PROVE  CountInv'
  <1>1. RunsBegun' /\ Counts
    BY RunsStep DEF CountInv
  <1>2. RunsCounted'
    BY <1>1, CountsKept DEF CountInv, TypeInv
  <1>3. LockKnown' /\ SubmitCounted'
    BY LockStep DEF CountInv
  <1>4. SleepersPull'
    BY SleepersStep DEF CountInv
  <1>5. CoreInv'
    BY OwnStep DEF CountInv, RunInv, OwnKept
  <1>6. QED
    BY <1>1, <1>2, <1>3, <1>4, <1>5 DEF CountInv, RunInv

\* ... and so holds always.
LEMMA CountAlways == Spec => [](TypeInv /\ CountInv)
  <1>1. TypeInv /\ CountInv /\ [Next]_vars => (TypeInv /\ CountInv)'
    BY TypeStep, CountStep
  <1>2. QED
    BY <1>1, TypeStart, CountStart, PTL DEF Spec

\* The accepted runs.
Issued == {r \in Run : r < sequence}

\* They are as many as the heap has numbered.
LEMMA IssuedMany ==
    ASSUME TypeInv
    PROVE  IsFiniteSet(Issued) /\ Cardinality(Issued) = sequence
  <1>1. sequence \in Nat /\ sequence <= MaxSequence
    BY DEF TypeInv, TypeOK, BackendTypeOK, EntryKnown
  <1>2. Issued = 0 .. (sequence - 1)
    BY <1>1, SequenceAssumption DEF Issued, Run
  <1>3. IsFiniteSet(0 .. (sequence - 1)) /\
        Cardinality(0 .. (sequence - 1)) = IF 0 > sequence - 1 THEN 0 ELSE (sequence - 1) - 0 + 1
    BY <1>1, FS_Interval
  <1>4. QED
    BY <1>1, <1>2, <1>3

\* The counters never run ahead of the tasks: what has ended has begun, what
\* has begun was accepted, and the in-flight gauge covers what is submitted and
\* not finished; for any number of clients, workers and submissions, whether or
\* not an id comes twice, and whenever a trace sink raises.
THEOREM CountersNeverRunAhead == Spec => []MetricsConsistent
  <1>1. ASSUME TypeInv, CountInv PROVE MetricsConsistent
    <2>1. Ended \subseteq Begun
      BY DEF Ended, Begun
    <2>2. Begun \subseteq Issued
      <3> SUFFICES ASSUME NEW r \in Run, r \in Begun PROVE r < sequence
        BY DEF Begun, Issued
      <3>1. CASE exec[r].pc # "none"
        BY <1>1, <3>1, RunNames
      <3>2. CASE \E w \in Worker : workerPc[w] = "execute" /\ workerEntry[w].seq = r
        BY <1>1, <3>2, EntryNames DEF Held
      <3>3. QED
        BY <3>1, <3>2 DEF Begun
    <2>3. Cardinality(Ended) <= Cardinality(Begun)
      BY <2>1, RunsFinite, FS_Subset
    <2>4. Cardinality(Begun) <= Cardinality(Issued)
      BY <1>1, <2>2, IssuedMany, FS_Subset
    <2>5. Cardinality(Issued) = sequence
      BY <1>1, IssuedMany
    <2>6. submittedTotal \in Nat /\ sequence \in Nat
      BY <1>1 DEF TypeInv, TypeOK, BackendTypeOK
    <2>7. submittedTotal <= sequence
      BY <1>1, <2>6 DEF CountInv, SubmitCounted
    <2>8. startedTotal <= sequence
      BY <1>1, <2>4, <2>5 DEF CountInv, RunsCounted
    <2>9. Finished <= startedTotal /\ inflight + Finished >= submittedTotal
      BY <1>1, <2>3 DEF CountInv, RunsCounted
    <2>10. QED
      BY <2>7, <2>8, <2>9 DEF MetricsConsistent, Finished
  <1>2. QED
    BY <1>1, CountAlways, PTL

\* Nothing is counted twice or forgotten: when every call has returned and no
\* work is left, what was started was finished, and what was submitted and not
\* finished is still queued (the tasks that stop failed before they started).
THEOREM CountersSettleAtRest == Spec => []CountersSettle
  <1>1. ASSUME TypeInv, CountInv, AtRest
        PROVE  /\ startedTotal = Finished
               /\ submittedTotal = Finished + Cardinality({r \in Run : exec[r].pc = "queued"})
    <2> DEFINE Queue == {r \in Run : exec[r].pc = "queued"}
    <2>1. \A w \in Worker : workerPc[w] \in {"none", "dead", "pull"}
      BY <1>1 DEF AtRest, CountInv, SleepersPull
    <2>2. \A r \in Run : exec[r].pc \in {"none", "queued", "done"}
      BY <1>1 DEF AtRest, TypeInv, TypeOK, ExecRecord, ExecPc
    <2>3. Begun = Ended
      BY <2>1, <2>2 DEF Begun, Ended
    <2>4. startedTotal = Finished /\ Finished = Cardinality(Ended)
      BY <1>1, <2>3 DEF CountInv, RunsCounted
    <2>5. Issued = Ended \cup Queue
      <3>1. \A r \in Run : r < sequence <=> exec[r].pc # "none"
        BY <1>1, RunNames DEF CountInv, RunInv, RunsBegun
      <3>2. QED
        BY <2>2, <3>1 DEF Issued, Ended
    <2>6. Ended \cap Queue = {}
      BY DEF Ended
    <2>7. IsFiniteSet(Ended) /\ IsFiniteSet(Queue)
      BY <1>1, <2>5, IssuedMany, FS_Subset
    <2>8. Recording = {}
      BY <1>1 DEF AtRest, Recording
    <2> HIDE DEF Queue
    <2>9. Cardinality(Ended \cup Queue) =
             Cardinality(Ended) + Cardinality(Queue) - Cardinality(Ended \cap Queue)
      BY <2>7, FS_Union
    <2>10. Cardinality(Ended \cap Queue) = 0
      BY <2>6, FS_EmptySet
    <2>11. Cardinality(Ended) \in Nat /\ Cardinality(Queue) \in Nat
      BY <2>7, FS_CardinalityType
    <2>12. Cardinality(Issued) = Cardinality(Ended) + Cardinality(Queue)
      BY <2>5, <2>9, <2>10, <2>11
    <2>13. submittedTotal = sequence /\ Cardinality(Issued) = sequence
      <3>1. submittedTotal \in Nat /\ sequence \in Nat
        BY <1>1 DEF TypeInv, TypeOK, BackendTypeOK
      <3>2. QED
        BY <1>1, <2>8, <3>1, IssuedMany DEF CountInv, SubmitCounted
    <2>14. QED
      BY <2>4, <2>12, <2>13 DEF Queue
  <1>2. TypeInv /\ CountInv => CountersSettle
    BY <1>1 DEF CountersSettle, Finished
  <1>3. QED
    BY <1>2, CountAlways, PTL
=============================================================================
