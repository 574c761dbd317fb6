-------------------------- MODULE SchedulerProofs --------------------------
(***************************************************************************)
(* Proofs about the scheduler, for every number of workers, clients and    *)
(* tasks and every limit: its states are well typed, and no slot of        *)
(* max_outstanding_tasks is leaked or released twice as long as no id is   *)
(* submitted twice.                                                        *)
(***************************************************************************)
EXTENDS SchedulerProperties, TaskBackendProofs

-----------------------------------------------------------------------------
(* TypeOK is not inductive: what a thread at a given point holds has to be *)
(* known there.  A caller inside a method knows its call, a worker that    *)
(* pulled an entry holds one that was submitted, and an execution that     *)
(* finishes has an outcome.                                                *)
CallKnown == \A c \in Client : clientPc[c] # "idle" => call[c] \in CallRecord

EntryKnown ==
    /\ sequence <= MaxSequence
    /\ \A e \in pending : e.seq < sequence
    /\ \A w \in Worker : workerPc[w] \in {"run", "execute"} =>
          /\ workerEntry[w] \in HeapEntry
          /\ workerEntry[w].seq < sequence

ExecKnown ==
    \A r \in Run :
        /\ r < sequence => exec[r].task \in Task
        /\ r >= sequence => exec[r] = NoRun
        /\ exec[r].pc \in {"update", "record"} => exec[r].outcome \in Terminal

FailKnown == failPc = "release" => failTask \in Task

TypeInv == TypeOK /\ CallKnown /\ EntryKnown /\ ExecKnown /\ FailKnown

\* A fresh scheduler satisfies the invariant.
LEMMA TypeStart == Init => TypeInv
  <1> SUFFICES ASSUME Init PROVE TypeInv
    OBVIOUS
  <1> USE DEF Init, BackendInit, MetricsInit
  <1>1. BackendTypeOK
    BY DEF BackendTypeOK, Unset
  <1>2. exec \in [Run -> ExecRecord] /\ ExecKnown
    BY DEF Run, NoRun, ExecRecord, ExecPc, ExecKnown
  <1>3. TypeOK
    BY <1>1, <1>2, OutstandingAssumption
       DEF TypeOK, Terminal, ClientPc, Outcome, WorkerPc, StopPc, FailPc
  <1>4. CallKnown /\ EntryKnown /\ FailKnown
    BY SequenceAssumption DEF CallKnown, EntryKnown, FailKnown
  <1>5. QED
    BY <1>2, <1>3, <1>4 DEF TypeInv

-----------------------------------------------------------------------------
(* Each step keeps the invariant.                                          *)

\* What a step leaves alone stays well typed.
LEMMA BackendTypeFrame ==
    ASSUME BackendTypeOK, UNCHANGED backendVars PROVE BackendTypeOK'
  BY DEF backendVars, BackendTypeOK

\* Calls begin.
LEMMA CallTypes ==
    ASSUME TypeInv, NEW c \in Client, NEW k \in Call, NEW t \in Task,
           CallQuery(c, k, t) \/ CallSubmit(c, k, t)
    PROVE  TypeInv'
  <1> USE DEF TypeInv, taskVars, metricsVars, admissionVars, asyncVars, workerVars,
              clientVars, shutdownVars, failVars, stopVars, lockVars
  <1>1. CallOn(k, t) \in CallRecord
    BY CallAssumption DEF CallOn, CallRecord, CallKind
  <1>2. BackendTypeOK' /\ UNCHANGED <<backendVars, exec>>
    BY BackendTypeFrame DEF CallQuery, CallSubmit, TypeOK
  <1>3. CASE CallQuery(c, k, t)
    <2>1. TypeOK'
      BY <1>1, <1>2, <1>3 DEF CallQuery, TypeOK, ClientPc
    <2>2. QED
      BY <1>1, <1>2, <1>3, <2>1 DEF CallQuery, TypeOK, CallKnown, EntryKnown, ExecKnown,
                                FailKnown, backendVars
  <1>4. CASE CallSubmit(c, k, t)
    <2>1. TypeOK'
      BY <1>1, <1>2, <1>4 DEF CallSubmit, TypeOK, ClientPc, WorkerPc, Outcome
    <2>2. CallKnown'
      BY <1>1, <1>4 DEF CallSubmit, TypeOK, CallKnown
    <2>3. EntryKnown'
      BY <1>2, <1>4 DEF CallSubmit, TypeOK, EntryKnown, backendVars
    <2>4. QED
      BY <1>2, <1>4, <2>1, <2>2, <2>3 DEF CallSubmit, ExecKnown, FailKnown, backendVars
  <1>5. QED
    BY <1>3, <1>4

\* Reading a record keeps the backend well typed, and gives a proper outcome.
LEMMA ReadResponseTypes ==
    ASSUME TypeOK, NEW c \in Client, call[c] \in CallRecord, ReadResponse(c)
    PROVE  /\ BackendTypeOK'
           /\ UNCHANGED <<sequence, pending>>
           /\ \E o \in Outcome : Return(c, o)
  <1> DEFINE t == call[c].task
  <1>1. t \in Task /\ call[c].consume \in BOOLEAN
    BY DEF CallRecord
  <1>2. CASE status[t] = "absent"
    BY <1>2, BackendTypeFrame DEF ReadResponse, TypeOK, Outcome, backendVars
  <1>3. CASE status[t] # "absent"
    <2>1. Return(c, status[t]) /\ Read(t, call[c].consume)
      BY <1>3 DEF ReadResponse
    <2>2. status[t] \in Outcome
      BY <1>1, <1>3 DEF TypeOK, BackendTypeOK, Outcome
    <2>3. BackendTypeOK'
      BY <1>1, <2>1, ReadType DEF TypeOK
    <2>4. UNCHANGED <<sequence, pending>>
      BY <2>1 DEF Read, ReadConsume, ReadKeep
    <2>5. QED
      BY <2>1, <2>2, <2>3, <2>4
  <1>4. QED
    BY <1>2, <1>3

\* A caller goes on.
LEMMA ClientTypes ==
    ASSUME TypeInv, NEW c \in Client, ClientStep(c)
    PROVE  TypeInv'
  <1> USE DEF TypeInv, taskVars, metricsVars, admissionVars, asyncVars, workerVars,
              clientVars, shutdownVars, failVars, stopVars, lockVars
  <1>0. call[c] \in CallRecord /\ call[c].task \in Task
    BY DEF ClientStep, SubmitTask, RecordSubmission, NotifySubmission, WaitTerminal,
           PollWake, DeadlinePasses, RegisterAsync, CheckAsync, AwaitEnds, Collect,
           CallKnown, CallRecord
  <1>1. CASE SubmitTask(c)
    <2> DEFINE t == call[c].task
    <2>1. CASE Refuse(c, t)
      <3>1. BackendTypeOK' /\ UNCHANGED backendVars
        BY <2>1, BackendTypeFrame DEF Refuse, TypeOK
      <3>2. TypeOK'
        BY <1>0, <1>1, <2>1, <3>1 DEF SubmitTask, Refuse, Accept, Return, TypeOK, ClientPc, Outcome
      <3>3. QED
        BY <1>1, <2>1, <3>1, <3>2 DEF SubmitTask, Refuse, Return, TypeOK, CallKnown,
                              EntryKnown, ExecKnown, FailKnown, backendVars
    <2>2. ASSUME NEW p \in Priority, Accept(c, t, p), slots # 0 PROVE TypeInv'
      <3>1. BackendTypeOK'
        BY <1>0, <2>2, SubmitType DEF Accept, TypeOK
      <3>2. sequence \in Run /\ sequence' = sequence + 1
        BY <2>2, SequenceAssumption DEF Accept, Submit, TypeOK, BackendTypeOK, Run
      <3>3. exec' \in [Run -> ExecRecord]
        BY <1>0, <2>2, <3>2 DEF Accept, Queued, NoRun, TypeOK, ExecRecord, ExecPc
      <3>4. TypeOK'
        BY <1>0, <1>1, <2>2, <3>1, <3>3 DEF SubmitTask, Accept, GoTo, TypeOK, ClientPc
      <3>5. CallKnown' /\ FailKnown'
        BY <1>0, <1>1, <2>2 DEF SubmitTask, Accept, GoTo, TypeOK, CallKnown, FailKnown
      <3>6. EntryKnown'
        <4>1. \A e \in pending : e.seq \in Nat
          BY DEF TypeOK, BackendTypeOK, HeapEntry
        <4>2. \A e \in pending' : e.seq < sequence'
          BY <2>2, <3>2, <4>1 DEF Accept, Submit, EntryKnown, Run
        <4>3. sequence' <= MaxSequence
          BY <3>2, SequenceAssumption DEF Run
        <4>4. UNCHANGED <<workerPc, workerEntry>>
          BY <1>1 DEF SubmitTask
        <4>5. \A w \in Worker : workerEntry[w] \in HeapEntry => workerEntry[w].seq \in Nat
          BY DEF HeapEntry
        <4>6. QED
          BY <3>2, <4>2, <4>3, <4>4, <4>5 DEF EntryKnown, Run
      <3>7. ExecKnown'
        BY <1>0, <2>2, <3>2 DEF Accept, Queued, NoRun, TypeOK, BackendTypeOK, ExecKnown, Run, ExecRecord
      <3>8. QED
        BY <3>4, <3>5, <3>6, <3>7
    <2>3. QED
      BY <1>1, <2>1, <2>2 DEF SubmitTask
  <1>2. CASE RecordSubmission(c)
    <2>1. BackendTypeOK'
      BY <1>2, BackendTypeFrame DEF RecordSubmission, TypeOK
    <2>2. TypeOK'
      BY <1>0, <1>2, <2>1 DEF RecordSubmission, RecordSubmitted, TypeOK, GoTo, Return,
                        ClientPc, Outcome
    <2>3. QED
      BY <1>0, <1>2, <2>2 DEF RecordSubmission, RecordSubmitted, GoTo, Return, backendVars,
                        TypeOK, CallKnown, EntryKnown, ExecKnown, FailKnown
  <1>3. CASE NotifySubmission(c)
    <2>1. BackendTypeOK'
      BY <1>3, BackendTypeFrame DEF NotifySubmission, TypeOK
    <2>2. TypeOK'
      BY <1>0, <1>3, <2>1 DEF NotifySubmission, NotifyWaiters, TypeOK, GoTo, Return, ClientPc, Outcome
    <2>3. QED
      BY <1>0, <1>3, <2>2 DEF NotifySubmission, GoTo, Return, backendVars, TypeOK,
                        CallKnown, EntryKnown, ExecKnown, FailKnown
  <1>4. CASE WaitTerminal(c)
    <2>1. CASE ReadResponse(c) /\ UNCHANGED waitSet
      <3>1. /\ BackendTypeOK'
            /\ UNCHANGED <<sequence, pending>>
            /\ \E o \in Outcome : Return(c, o)
        BY <1>0, <2>1, ReadResponseTypes
      <3>2. TypeOK'
        BY <1>4, <2>1, <3>1 DEF WaitTerminal, TypeOK, Return, ClientPc
      <3>3. QED
        BY <1>0, <1>4, <3>1, <3>2 DEF WaitTerminal, Return, TypeOK,
                        CallKnown, EntryKnown, ExecKnown, FailKnown
    <2>2. CASE UNCHANGED backendVars
      <3>1. BackendTypeOK'
        BY <2>2, BackendTypeFrame DEF TypeOK
      <3>2. TypeOK'
        BY <1>0, <1>4, <2>1, <2>2, <3>1 DEF WaitTerminal, TypeOK, Return, ClientPc, Outcome
      <3>3. QED
        BY <1>0, <1>4, <2>1, <2>2, <3>2 DEF WaitTerminal, Return, backendVars, TypeOK,
                        CallKnown, EntryKnown, ExecKnown, FailKnown
    <2>3. QED
      BY <1>4, <2>1, <2>2 DEF WaitTerminal
  <1>5. CASE PollWake(c) \/ DeadlinePasses(c)
    <2>1. BackendTypeOK'
      BY <1>5, BackendTypeFrame DEF PollWake, DeadlinePasses, TypeOK
    <2>2. TypeOK'
      BY <1>5, <2>1 DEF PollWake, DeadlinePasses, TypeOK
    <2>3. QED
      BY <1>5, <2>2 DEF PollWake, DeadlinePasses, backendVars, TypeOK, CallKnown,
                        EntryKnown, ExecKnown, FailKnown
  <1>6. CASE RegisterAsync(c) \/ CheckAsync(c) \/ AwaitEnds(c)
    <2>1. BackendTypeOK' /\ UNCHANGED <<backendVars, exec>>
      BY <1>6, BackendTypeFrame DEF RegisterAsync, CheckAsync, AwaitEnds, TypeOK
    <2>2. TypeOK'
      BY <1>0, <1>6, <2>1 DEF RegisterAsync, CheckAsync, AwaitEnds, ResolveAsyncWaiter, GoTo,
                        Return, TypeOK, ClientPc, Outcome
    <2>3. QED
      BY <1>0, <1>6, <2>1, <2>2 DEF RegisterAsync, CheckAsync, AwaitEnds, GoTo, Return,
                        backendVars, TypeOK, CallKnown, EntryKnown, ExecKnown, FailKnown
  <1>7. CASE Collect(c)
    <2>1. CASE ReadResponse(c)
      <3>1. /\ BackendTypeOK'
            /\ UNCHANGED <<sequence, pending>>
            /\ \E o \in Outcome : Return(c, o)
        BY <1>0, <2>1, ReadResponseTypes
      <3>2. TypeOK'
        BY <1>7, <3>1 DEF Collect, TypeOK, Return, ClientPc
      <3>3. QED
        BY <1>0, <1>7, <3>1, <3>2 DEF Collect, Return, TypeOK,
                        CallKnown, EntryKnown, ExecKnown, FailKnown
    <2>2. CASE /\ status[call[c].task] \in Live
               /\ Return(c, status[call[c].task])
               /\ UNCHANGED backendVars
      <3>1. BackendTypeOK'
        BY <2>2, BackendTypeFrame DEF TypeOK
      <3>2. TypeOK'
        BY <1>0, <1>7, <2>2, <3>1 DEF Collect, TypeOK, Return, ClientPc, Outcome, Status
      <3>3. QED
        BY <1>0, <1>7, <2>2, <3>2 DEF Collect, Return, backendVars, TypeOK,
                        CallKnown, EntryKnown, ExecKnown, FailKnown
    <2>3. QED
      BY <1>7, <2>1, <2>2 DEF Collect
  <1>8. QED
    BY <1>1, <1>2, <1>3, <1>4, <1>5, <1>6, <1>7 DEF ClientStep

\* The record of an execution that enters the completion path.
LEMMA FinishingRecord ==
    ASSUME NEW e \in ExecRecord, NEW o \in Terminal, NEW b \in Thread \cup {None}
    PROVE  [e EXCEPT !.pc = "update", !.outcome = o, !.by = b] \in ExecRecord
  <1>1. [e EXCEPT !.pc = "update"] \in ExecRecord
    BY DEF ExecRecord, ExecPc
  <1>2. [e EXCEPT !.pc = "update", !.outcome = o] \in ExecRecord
    BY <1>1 DEF ExecRecord
  <1>3. QED
    BY <1>2 DEF ExecRecord

\* Writing a well-formed record over one execution.
LEMMA ExecWrite ==
    ASSUME TypeInv, NEW r \in Run, r < sequence, NEW e \in ExecRecord,
           e.task \in Task,
           e.pc \in {"update", "record"} => e.outcome \in Terminal,
           exec' = [exec EXCEPT ![r] = e],
           sequence' = sequence
    PROVE  exec' \in [Run -> ExecRecord] /\ ExecKnown'
  <1>1. exec \in [Run -> ExecRecord] /\ sequence \in Nat
    BY DEF TypeInv, TypeOK, BackendTypeOK
  <1>2. exec' \in [Run -> ExecRecord]
    BY <1>1
  <1>3. ASSUME NEW q \in Run
        PROVE  /\ q < sequence => exec'[q].task \in Task
               /\ q >= sequence => exec'[q] = NoRun
               /\ exec'[q].pc \in {"update", "record"} => exec'[q].outcome \in Terminal
    <2>1. CASE q = r
      BY <1>1, <2>1 DEF Run
    <2>2. CASE q # r
      BY <1>1, <2>2 DEF TypeInv, ExecKnown
    <2>3. QED
      BY <2>1, <2>2
  <1>4. QED
    BY <1>2, <1>3 DEF ExecKnown

\* Entering the completion path writes such a record.
LEMMA FinishWrite ==
    ASSUME TypeInv, NEW r \in Run, r < sequence, NEW o \in Terminal,
           NEW b \in Thread \cup {None},
           exec' = Finishing(r, o, b),
           sequence' = sequence
    PROVE  exec' \in [Run -> ExecRecord] /\ ExecKnown'
  <1> DEFINE e == [exec[r] EXCEPT !.pc = "update", !.outcome = o, !.by = b]
  <1>1. exec[r].task \in Task /\ exec[r] \in ExecRecord
    BY DEF TypeInv, ExecKnown, TypeOK
  <1>2. exec' = [exec EXCEPT ![r] = e]
    BY DEF Finishing
  <1>3. e \in ExecRecord
    BY <1>1, FinishingRecord
  <1>4. e.task \in Task /\ (e.pc \in {"update", "record"} => e.outcome \in Terminal)
    BY <1>1 DEF ExecRecord
  <1> HIDE DEF e
  <1>5. QED
    BY <1>2, <1>3, <1>4, ExecWrite

\* A worker goes on.
LEMMA WorkerTypes ==
    ASSUME TypeInv, NEW w \in Worker, WorkerStep(w)
    PROVE  TypeInv'
  <1> USE DEF TypeInv, taskVars, metricsVars, admissionVars, asyncVars, workerVars,
              clientVars, shutdownVars, failVars, stopVars, lockVars
  <1>1. CASE PullTask(w)
    <2>1. CASE UNCHANGED backendVars
      <3>1. BackendTypeOK'
        BY <2>1, BackendTypeFrame DEF TypeOK
      <3>2. TypeOK'
        BY <1>1, <2>1, <3>1 DEF PullTask, Pull, backendVars, WorkerGoTo, TypeOK, WorkerPc
      <3>3. QED
        BY <1>1, <2>1, <3>2 DEF PullTask, Pull, WorkerGoTo, TypeOK, backendVars, CallKnown,
                        EntryKnown, ExecKnown, FailKnown
    <2>2. ASSUME NEW e \in pending, Pull(e),
                 workerPc' = [workerPc EXCEPT ![w] = "run"],
                 workerEntry' = [workerEntry EXCEPT ![w] = e],
                 UNCHANGED <<threads, waitSet>>
          PROVE  TypeInv'
      <3>1. BackendTypeOK' /\ e \in HeapEntry
        BY <2>2, PullType DEF TypeOK, BackendTypeOK
      <3>2. TypeOK'
        BY <1>1, <2>2, <3>1 DEF PullTask, TypeOK, WorkerPc
      <3>3. QED
        BY <1>1, <2>2, <3>1, <3>2 DEF PullTask, Pull, TypeOK, CallKnown, EntryKnown,
                        ExecKnown, FailKnown
    <2>3. QED
      BY <1>1, <2>1, <2>2 DEF PullTask
  <1>2. CASE StartTask(w)
    <2> DEFINE t == workerEntry[w].id
    <2>1. t \in Task
      BY <1>2 DEF StartTask, EntryKnown, HeapEntry
    <2>2. BackendTypeOK' /\ UNCHANGED <<pending, sequence>>
      <3>1. CASE UpdateStatus(t, "RUNNING")
        BY <2>1, <3>1, UpdateStatusType
           DEF UpdateStatus, UpdateLive, Status, Live, Terminal, TypeOK
      <3>2. CASE UNCHANGED backendVars
        BY <3>2, BackendTypeFrame DEF TypeOK, backendVars
      <3>3. QED
        BY <1>2, <3>1, <3>2 DEF StartTask
    <2>3. exec' \in [Run -> ExecRecord] /\ ExecKnown'
      <3>1. CASE UNCHANGED exec
        BY <2>2, <3>1 DEF ExecKnown, TypeOK
      <3>2. CASE exec' = Finishing(workerEntry[w].seq, "FAILED", w)
        <4>1. workerEntry[w].seq \in Run /\ workerEntry[w].seq < sequence
          BY <1>2, SequenceAssumption DEF StartTask, EntryKnown, TypeOK, BackendTypeOK,
                        HeapEntry, Run
        <4>2. QED
          BY <2>2, <3>2, <4>1, FinishWrite DEF Terminal, Thread
      <3>3. QED
        BY <1>2, <3>1, <3>2 DEF StartTask
    <2>4. TypeOK'
      BY <1>2, <2>2, <2>3 DEF StartTask, RecordStarted, WorkerGoTo, TypeOK, WorkerPc
    <2>5. QED
      BY <1>2, <2>2, <2>3, <2>4 DEF StartTask, WorkerGoTo, TypeOK, CallKnown, EntryKnown,
                        FailKnown
  <1>3. CASE ExecuteInline(w) \/ ExecuteLater(w)
    <2> DEFINE r == workerEntry[w].seq
    <2>1. BackendTypeOK' /\ UNCHANGED backendVars
      BY <1>3, BackendTypeFrame DEF ExecuteInline, ExecuteLater, TypeOK
    <2>2. r \in Run /\ r < sequence
      BY <1>3, SequenceAssumption DEF ExecuteInline, ExecuteLater, EntryKnown, TypeOK, BackendTypeOK,
                        HeapEntry, Run
    <2>6. exec[r].task \in Task /\ exec[r] \in ExecRecord
      BY <2>2 DEF ExecKnown, TypeOK
    <2>3. exec' \in [Run -> ExecRecord] /\ ExecKnown'
      <3>1. CASE ExecuteInline(w)
        <4>1. PICK o \in Terminal : exec' = Finishing(r, o, w)
          BY <3>1, OutcomeAssumption DEF ExecuteInline, Terminal
        <4>2. QED
          BY <2>1, <2>2, <4>1, FinishWrite DEF backendVars, Thread
      <3>2. CASE ExecuteLater(w)
        <4>1. exec' = [exec EXCEPT ![r] = [exec[r] EXCEPT !.pc = "flying"]]
          BY <3>2 DEF ExecuteLater
        <4>2. [exec[r] EXCEPT !.pc = "flying"] \in ExecRecord
          BY <2>6 DEF ExecRecord, ExecPc
        <4>3. QED
          BY <2>1, <2>2, <2>6, <4>1, <4>2, ExecWrite DEF backendVars, ExecRecord
      <3>3. QED
        BY <1>3, <3>1, <3>2
    <2>4. TypeOK'
      BY <1>3, <2>1, <2>3 DEF ExecuteInline, ExecuteLater, WorkerGoTo, TypeOK, WorkerPc
    <2>5. QED
      BY <1>3, <2>1, <2>3, <2>4 DEF ExecuteInline, ExecuteLater, WorkerGoTo, backendVars, TypeOK,
                        CallKnown, EntryKnown, FailKnown
  <1>4. CASE WorkerExit(w) \/ WorkerExited(w)
    <2>1. BackendTypeOK' /\ UNCHANGED backendVars
      BY <1>4, BackendTypeFrame DEF WorkerExit, WorkerExited, TypeOK
    <2>2. /\ failPc' \in FailPc /\ failBy' \in Worker \cup {Stopper, None}
          /\ failTodo' \in SUBSET Task /\ failTask' \in Task \cup {None}
          /\ FailKnown'
      BY <1>4 DEF WorkerExit, WorkerExited, FailBegin, FailEnds, NeverStarted, TypeOK, FailPc,
                        FailKnown
    <2>3. TypeOK'
      BY <1>4, <2>1, <2>2 DEF WorkerExit, WorkerExited, WorkerLeaves, WorkerGoTo, TypeOK,
                        WorkerPc
    <2>4. QED
      BY <1>4, <2>1, <2>2, <2>3 DEF WorkerExit, WorkerExited, WorkerLeaves, WorkerGoTo,
                        backendVars, TypeOK, CallKnown, EntryKnown, ExecKnown
  <1>5. QED
    BY <1>1, <1>2, <1>3, <1>4 DEF WorkerStep

\* An execution finishes.
LEMMA CompletionTypes ==
    ASSUME TypeInv, NEW r \in Run, FutureDone(r) \/ CompletionStep(r)
    PROVE  TypeInv'
  <1> USE DEF TypeInv, taskVars, metricsVars, admissionVars, asyncVars, workerVars,
              clientVars, shutdownVars, failVars, stopVars, lockVars
  <1>0. r < sequence /\ exec[r].task \in Task
    BY DEF FutureDone, CompletionStep, CompleteUpdate, CompleteRelease, CompleteNotify,
           CompleteResolve, ExecKnown, NoRun, Run, TypeOK, BackendTypeOK
  <1>1. CASE FutureDone(r)
    <2>1. BackendTypeOK' /\ UNCHANGED backendVars
      BY <1>1, BackendTypeFrame DEF FutureDone, TypeOK
    <2>2. PICK o \in Terminal :
              exec' = [exec EXCEPT ![r] =
                          [exec[r] EXCEPT !.pc = "update", !.outcome = o, !.by = None]]
      BY <1>1, OutcomeAssumption DEF FutureDone, Finishing, Terminal
    <2>3. [exec[r] EXCEPT !.pc = "update", !.outcome = o, !.by = None] \in ExecRecord
      BY FinishingRecord DEF TypeOK
    <2>4. TypeOK'
      BY <1>1, <2>1, <2>2, <2>3 DEF FutureDone, TypeOK
    <2>5. ExecKnown'
      BY <1>0, <2>1, <2>2, <2>3, ExecWrite DEF TypeOK, backendVars, ExecRecord
    <2>6. QED
      BY <1>1, <2>1, <2>4, <2>5 DEF FutureDone, backendVars, CallKnown, EntryKnown, FailKnown
  <1>2. CASE CompleteUpdate(r)
    <2>1. exec[r].outcome \in Terminal
      BY <1>2 DEF CompleteUpdate, ExecKnown
    <2>2. BackendTypeOK' /\ UNCHANGED <<pending, sequence>>
      BY <1>0, <1>2, <2>1, UpdateStatusType
         DEF CompleteUpdate, UpdateStatus, UpdateTerminal, Status, TypeOK
    <2>3. TypeOK'
      BY <1>2, <2>2 DEF CompleteUpdate, ExecGoTo, TypeOK, ExecRecord, ExecPc
    <2>4. QED
      BY <1>0, <1>2, <2>1, <2>2, <2>3 DEF CompleteUpdate, ExecGoTo, TypeOK, CallKnown, EntryKnown,
                        ExecKnown, FailKnown, ExecRecord, Run, BackendTypeOK
  <1>3. CASE CompleteRelease(r)
    <2>1. BackendTypeOK' /\ UNCHANGED backendVars
      BY <1>3, BackendTypeFrame DEF CompleteRelease, TypeOK
    <2>2. exec[r].outcome \in Terminal
      BY <1>3 DEF CompleteRelease, ExecKnown
    <2>3. slots' \in Nat /\ outstanding' \in SUBSET Task
      BY <1>3 DEF CompleteRelease, ReleaseSlot, TypeOK
    <2>4. finishedTotal' \in [Terminal -> Nat] /\ inflight' \in Nat /\ submittedAt' \in SUBSET Task
      BY <1>3, <2>2 DEF CompleteRelease, RecordFinished, TypeOK
    <2>5. TypeOK'
      BY <1>3, <2>1, <2>3, <2>4 DEF CompleteRelease, RecordFinished, ExecGoTo, TypeOK, ExecRecord,
                        ExecPc
    <2>6. ExecKnown'
      <3>1. exec' = [exec EXCEPT ![r] = [exec[r] EXCEPT !.pc = "notify"]]
        BY <1>3 DEF CompleteRelease, ExecGoTo
      <3>2. exec[r] \in ExecRecord
        BY DEF TypeOK
      <3>3. [exec[r] EXCEPT !.pc = "notify"] \in ExecRecord
        BY <3>2 DEF ExecRecord, ExecPc
      <3>4. QED
        BY <1>0, <2>1, <3>1, <3>2, <3>3, ExecWrite DEF backendVars, ExecRecord
    <2>7. QED
      BY <1>3, <2>1, <2>5, <2>6 DEF CompleteRelease, CallKnown, EntryKnown, FailKnown,
                        backendVars
  <1>4. CASE CompleteNotify(r) \/ CompleteResolve(r)
    <2>1. BackendTypeOK' /\ UNCHANGED backendVars
      BY <1>4, BackendTypeFrame DEF CompleteNotify, CompleteResolve, TypeOK
    <2>2. exec' \in [Run -> ExecRecord] /\ ExecKnown'
      <3>1. PICK p \in {"resolve", "done"}, b \in Thread \cup {None} :
                exec' = [exec EXCEPT ![r] = [exec[r] EXCEPT !.pc = p, !.by = b]]
        <4>1. exec[r] \in ExecRecord
          BY DEF TypeOK
        <4>2. CASE CompleteNotify(r)
          <5>1. [exec[r] EXCEPT !.pc = "resolve"]
                    = [exec[r] EXCEPT !.pc = "resolve", !.by = exec[r].by]
            BY <4>1 DEF ExecRecord
          <5>2. QED
            BY <4>1, <4>2, <5>1 DEF CompleteNotify, ExecGoTo, ExecRecord
        <4>3. CASE CompleteResolve(r)
          <5>1. exec' = [exec EXCEPT ![r] = [exec[r] EXCEPT !.pc = "done", !.by = None]]
            BY <4>3 DEF CompleteResolve
          <5>2. QED
            BY <5>1
        <4>4. QED
          BY <1>4, <4>2, <4>3
      <3>2. exec[r] \in ExecRecord
        BY DEF TypeOK
      <3>3. [exec[r] EXCEPT !.pc = p, !.by = b] \in ExecRecord
        BY <3>2 DEF ExecRecord, ExecPc
      <3>4. QED
        BY <1>0, <2>1, <3>1, <3>2, <3>3, ExecWrite DEF backendVars, ExecRecord
    <2>3. TypeOK'
      BY <1>0, <1>4, <2>1, <2>2 DEF CompleteNotify, CompleteResolve, NotifyWaiters,
                        ResolveAsyncWaiter, WorkerGoTo, TypeOK, WorkerPc
    <2>4. QED
      BY <1>4, <2>1, <2>2, <2>3 DEF CompleteNotify, CompleteResolve, WorkerGoTo, backendVars,
                        TypeOK, CallKnown, EntryKnown, FailKnown
  <1>5. QED
    BY <1>1, <1>2, <1>3, <1>4 DEF CompletionStep

\* Pending tasks are failed.
LEMMA FailTypes ==
    ASSUME TypeInv, FailStep
    PROVE  TypeInv'
  <1> USE DEF TypeInv, taskVars, metricsVars, admissionVars, asyncVars, workerVars,
              clientVars, shutdownVars, failVars, stopVars, lockVars
  <1>1. CASE FailUpdate
    <2>1. PICK t \in failTodo : /\ UpdateStatus(t, "FAILED")
                                /\ failTask' = t
                                /\ failTodo' = failTodo \ {t}
      BY <1>1 DEF FailUpdate
    <2>2. BackendTypeOK' /\ UNCHANGED <<pending, sequence>>
      BY <2>1, UpdateStatusType
         DEF UpdateStatus, UpdateTerminal, Status, Terminal, TypeOK
    <2>3. TypeOK'
      BY <1>1, <2>1, <2>2 DEF FailUpdate, TypeOK, FailPc
    <2>4. QED
      BY <1>1, <2>1, <2>2, <2>3 DEF FailUpdate, TypeOK, CallKnown, EntryKnown, ExecKnown, FailKnown
  <1>2. CASE FailRelease
    <2>1. BackendTypeOK' /\ UNCHANGED backendVars
      BY <1>2, BackendTypeFrame DEF FailRelease, TypeOK
    <2>2. slots' \in Nat /\ outstanding' \in SUBSET Task
      BY <1>2 DEF FailRelease, ReleaseSlot, TypeOK
    <2>3. failTask \in Task
      BY <1>2 DEF FailRelease, FailKnown
    <2>4. asyncWaiter' \in [Task -> Client \cup {None}] /\ resolved' \in SUBSET Client
      BY <1>2, <2>3 DEF FailRelease, ResolveAsyncWaiter, TypeOK
    <2>5. TypeOK'
      BY <1>2, <2>1, <2>2, <2>4 DEF FailRelease, TypeOK, FailPc
    <2>6. QED
      BY <1>2, <2>1, <2>5 DEF FailRelease, backendVars, TypeOK, CallKnown, EntryKnown, ExecKnown,
                        FailKnown
  <1>3. CASE FailNotify
    <2>1. BackendTypeOK' /\ UNCHANGED backendVars
      BY <1>3, BackendTypeFrame DEF FailNotify, TypeOK
    <2>2. TypeOK'
      BY <1>3, <2>1 DEF FailNotify, NotifyWaiters, TypeOK, FailPc
    <2>3. QED
      BY <1>3, <2>1, <2>2 DEF FailNotify, backendVars, TypeOK, CallKnown, EntryKnown, ExecKnown,
                        FailKnown
  <1>4. QED
    BY <1>1, <1>2, <1>3 DEF FailStep

\* The scheduler is stopped.
LEMMA StopTypes ==
    ASSUME TypeInv, StopBegin \/ StopStep
    PROVE  TypeInv'
  <1> USE DEF TypeInv, taskVars, metricsVars, admissionVars, asyncVars, workerVars,
              clientVars, shutdownVars, failVars, stopVars, lockVars
  <1>0. BackendTypeOK' /\ UNCHANGED backendVars
    BY BackendTypeFrame DEF StopBegin, StopStep, CloseStrategy, CloseRaises, FailFuture,
                            StopNotify, JoinThreads,
           StopReturns, TypeOK
  <1>1. CASE StopBegin \/ CloseStrategy \/ CloseRaises \/ StopNotify
    <2>1. TypeOK'
      BY <1>0, <1>1 DEF StopBegin, CloseStrategy, CloseRaises, StopNotify, NotifyWaiters, TypeOK, StopPc
    <2>2. QED
      BY <1>0, <1>1, <2>1 DEF StopBegin, CloseStrategy, CloseRaises, StopNotify, backendVars,
                              TypeOK, CallKnown,
                        EntryKnown, ExecKnown, FailKnown
  <1>2. ASSUME NEW r \in Run, FailFuture(r) PROVE TypeInv'
    <2>1. r < sequence /\ exec[r].task \in Task
      BY <1>2 DEF FailFuture, ExecKnown, NoRun, Run, TypeOK, BackendTypeOK
    <2>2. exec' = [exec EXCEPT ![r] =
                      [exec[r] EXCEPT !.pc = "update", !.outcome = "FAILED", !.by = Stopper]]
      BY <1>2 DEF FailFuture, Finishing
    <2>3. [exec[r] EXCEPT !.pc = "update", !.outcome = "FAILED", !.by = Stopper] \in ExecRecord
      BY FinishingRecord DEF TypeOK, Terminal, Thread
    <2>4. TypeOK'
      BY <1>0, <1>2, <2>2, <2>3 DEF FailFuture, TypeOK
    <2>5. ExecKnown'
      BY <1>0, <2>1, <2>2, <2>3, ExecWrite DEF TypeOK, backendVars, ExecRecord, Terminal
    <2>6. QED
      BY <1>0, <1>2, <2>4, <2>5 DEF FailFuture, backendVars, CallKnown, EntryKnown, FailKnown
  <1>3. CASE JoinThreads \/ StopReturns
    <2>1. /\ failPc' \in FailPc /\ failBy' \in Worker \cup {Stopper, None}
          /\ failTodo' \in SUBSET Task /\ failTask' \in Task \cup {None}
          /\ FailKnown'
      BY <1>3 DEF JoinThreads, StopReturns, FailBegin, FailEnds, NeverStarted, TypeOK, FailPc,
                        FailKnown
    <2>2. TypeOK'
      BY <1>0, <1>3, <2>1 DEF JoinThreads, StopReturns, TypeOK, StopPc
    <2>3. QED
      BY <1>0, <1>3, <2>1, <2>2 DEF JoinThreads, StopReturns, backendVars, TypeOK, CallKnown,
                        EntryKnown, ExecKnown
  <1>4. QED
    BY <1>1, <1>2, <1>3 DEF StopStep

\* Every step keeps the invariant.
LEMMA TypeStep ==
    ASSUME TypeInv, [Next]_vars PROVE TypeInv'
  <1>1. CASE \E c \in Client, k \in Call, t \in Task : CallQuery(c, k, t) \/ CallSubmit(c, k, t)
    BY <1>1, CallTypes
  <1>2. CASE \E c \in Client : ClientStep(c)
    BY <1>2, ClientTypes
  <1>3. CASE \E w \in Worker : WorkerStep(w)
    BY <1>3, WorkerTypes
  <1>4. CASE \E r \in Run : FutureDone(r) \/ CompletionStep(r)
    BY <1>4, CompletionTypes
  <1>5. CASE StopBegin \/ StopStep
    BY <1>5, StopTypes
  <1>6. CASE FailStep
    BY <1>6, FailTypes
  <1>7. CASE UNCHANGED vars
    <2>1. UNCHANGED <<taskVars, waitSet, asyncVars, workerVars, clientVars, shutdownVars, exec>>
      BY <1>7 DEF vars
    <2>2. BackendTypeOK'
      BY <2>1, BackendTypeFrame DEF taskVars, TypeInv, TypeOK
    <2>3. TypeOK'
      BY <2>1, <2>2 DEF TypeInv, TypeOK, taskVars, metricsVars, admissionVars, asyncVars,
             workerVars, clientVars, shutdownVars, failVars, stopVars, lockVars
    <2>4. QED
      BY <2>1, <2>3 DEF TypeInv, CallKnown, EntryKnown, ExecKnown, FailKnown, taskVars,
             backendVars, workerVars, clientVars, shutdownVars, failVars
  <1>8. QED
    BY <1>1, <1>2, <1>3, <1>4, <1>5, <1>6, <1>7 DEF Next, Rest

\* Every reachable state of the scheduler is well typed, for any number of
\* clients, workers and tasks: no thread acts on a call, an entry or an
\* outcome that it does not have.
THEOREM SchedulerTypeCorrect == Spec => []TypeOK
  <1>1. TypeInv => TypeOK
    BY DEF TypeInv
  <1>2. QED
    BY <1>1, TypeStart, TypeStep, PTL DEF Spec

-----------------------------------------------------------------------------
(* Slots.  What keeps the accounting exact is that an id is accepted at    *)
(* most once: an id that holds a slot was accepted before, and the one a   *)
(* caller is about to have accepted was not, nor is another caller about   *)
(* to submit it.                                                           *)
SlotHoldersAccepted == \A t \in outstanding : Accepted(t)

SubmittedOnce ==
    \A c \in Client : clientPc[c] = "submit" =>
        /\ ~Accepted(call[c].task)
        /\ \A d \in Client :
              clientPc[d] = "submit" /\ call[d].task = call[c].task => d = c

SlotInv == SlotAccounting /\ SlotHoldersAccepted /\ SubmittedOnce /\ AcceptedOnce

\* A fresh scheduler has all its permits.
LEMMA SlotStart == Init => SlotInv
  <1>1. Cardinality({}) = 0
    BY FS_EmptySet
  <1>2. QED
    BY <1>1, OutstandingAssumption
       DEF Init, NoRun, SlotInv, SlotAccounting, SlotHoldersAccepted, SubmittedOnce,
           AcceptedOnce

\* A step that accepts nothing and lets nobody begin to submit keeps the part
\* of the invariant about ids, whatever slots it releases.
KeepsIds ==
    /\ \A r \in Run : exec'[r].task = exec[r].task
    /\ \A c \in Client :
          clientPc'[c] = "submit" => clientPc[c] = "submit" /\ call'[c] = call[c]

LEMMA IdsFrame ==
    ASSUME SlotInv, KeepsIds, outstanding' \subseteq outstanding
    PROVE  SlotHoldersAccepted' /\ SubmittedOnce' /\ AcceptedOnce'
  <1>1. \A t : Accepted(t)' <=> Accepted(t)
    BY DEF KeepsIds, Accepted
  <1>2. SlotHoldersAccepted' /\ SubmittedOnce'
    BY <1>1 DEF SlotInv, SlotHoldersAccepted, SubmittedOnce, KeepsIds
  <1>3. AcceptedOnce'
    BY DEF SlotInv, AcceptedOnce, KeepsIds
  <1>4. QED
    BY <1>2, <1>3

\* A step that in addition touches no slot keeps the whole invariant.
LEMMA SlotFrame ==
    ASSUME SlotInv, KeepsIds, UNCHANGED admissionVars
    PROVE  SlotInv'
  BY IdsFrame DEF SlotInv, SlotAccounting, admissionVars

\* Releasing moves one id's permit back, or does nothing.
LEMMA SlotRelease ==
    ASSUME TypeOK, SlotInv, KeepsIds, NEW t \in Task, ReleaseSlot(t)
    PROVE  SlotInv'
  <1>1. IsFiniteSet(outstanding) /\ Cardinality(outstanding) \in Nat
    BY TaskAssumption, FS_Subset, FS_CardinalityType DEF TypeOK
  <1>2. outstanding' \subseteq outstanding
    BY DEF ReleaseSlot, admissionVars
  <1>3. SlotAccounting'
    <2>1. CASE t \in outstanding
      <3>1. outstanding' = outstanding \ {t} /\ slots' = slots + 1
        BY <2>1 DEF ReleaseSlot
      <3>2. Cardinality(outstanding \ {t}) = Cardinality(outstanding) - 1
        BY <1>1, <2>1, FS_RemoveElement
      <3>3. slots + Cardinality(outstanding) = MaxOutstanding /\ slots \in Nat
        BY DEF SlotInv, SlotAccounting, TypeOK
      <3>4. slots' + Cardinality(outstanding') = MaxOutstanding
        BY <1>1, <3>1, <3>2, <3>3
      <3>5. QED
        BY <3>4 DEF SlotAccounting
    <2>2. CASE t \notin outstanding
      BY <2>2 DEF ReleaseSlot, admissionVars, SlotInv, SlotAccounting
    <2>3. QED
      BY <2>1, <2>2
  <1>4. QED
    BY <1>2, <1>3, IdsFrame DEF SlotInv

\* Accepting an id that was never accepted takes exactly one permit.
LEMMA SlotAccept ==
    ASSUME TypeInv, SlotInv, NEW c \in Client, NEW p \in Priority,
           clientPc[c] = "submit", slots # 0, Accept(c, call[c].task, p)
    PROVE  SlotInv'
  <1> DEFINE t == call[c].task
  <1> USE DEF TypeInv
  <1>1. IsFiniteSet(outstanding) /\ Cardinality(outstanding) \in Nat
    BY TaskAssumption, FS_Subset, FS_CardinalityType DEF TypeOK
  <1>2. ~Accepted(t) /\ t \notin outstanding
    BY DEF SlotInv, SlotHoldersAccepted, SubmittedOnce
  <1>3. SlotAccounting'
    <2>1. outstanding' = outstanding \cup {t} /\ slots' = slots - 1
      BY DEF Accept
    <2>2. Cardinality(outstanding \cup {t}) = Cardinality(outstanding) + 1
      BY <1>1, <1>2, FS_AddElement
    <2>3. slots + Cardinality(outstanding) = MaxOutstanding /\ slots \in Nat
      BY DEF SlotInv, SlotAccounting, TypeOK
    <2>4. slots' + Cardinality(outstanding') = MaxOutstanding
      BY <1>1, <2>1, <2>2, <2>3
    <2>5. QED
      BY <2>4 DEF SlotAccounting
  <1>4. sequence \in Run /\ exec[sequence] = NoRun
    BY SequenceAssumption DEF Accept, TypeOK, BackendTypeOK, Run, ExecKnown
  <1>5. exec' = [exec EXCEPT ![sequence] = Queued(t)] /\ exec \in [Run -> ExecRecord]
    BY DEF Accept, TypeOK
  <1>6. t \in Task /\ None \notin Task
    <2>1. t \in Task
      BY DEF CallKnown, CallRecord
    <2>2. QED
      BY <2>1, ActorAssumption
  <1>7. \A u \in Task : Accepted(u)' <=> u = t \/ Accepted(u)
    BY <1>4, <1>5, <1>6 DEF Accepted, Queued, NoRun
  <1>8. SlotHoldersAccepted'
    BY <1>6, <1>7 DEF Accept, SlotInv, SlotHoldersAccepted, TypeOK
  <1>9. SubmittedOnce'
    BY <1>6, <1>7 DEF Accept, GoTo, SlotInv, SubmittedOnce, TypeOK, CallKnown, CallRecord
  <1>10. AcceptedOnce'
    <2>1. exec'[sequence].task = t
      BY <1>4, <1>5 DEF Queued, NoRun
    <2>2. \A r \in Run : r # sequence => exec'[r] = exec[r] /\ exec[r].task # t
      BY <1>2, <1>5 DEF Accepted
    <2>3. QED
      BY <2>1, <2>2 DEF SlotInv, AcceptedOnce
  <1>11. QED
    BY <1>3, <1>8, <1>9, <1>10 DEF SlotInv

\* No step of an execution changes whose execution it is.
LEMMA TaskKept ==
    ASSUME TypeOK, NEW r \in Run,
           \/ \E o \in Terminal, by \in Thread \cup {None} : exec' = Finishing(r, o, by)
           \/ \E pc \in ExecPc : ExecGoTo(r, pc)
           \/ exec' = [exec EXCEPT ![r].pc = "done", ![r].by = None]
           \/ exec' = exec
    PROVE  \A q \in Run : exec'[q].task = exec[q].task
  <1>1. ASSUME NEW q \in Run, q # r PROVE exec'[q].task = exec[q].task
    BY <1>1 DEF TypeOK, Finishing, ExecGoTo
  <1>2. exec[r] \in ExecRecord
    BY DEF TypeOK
  <1>3. exec'[r].task = exec[r].task
    <2>1. ASSUME NEW o, NEW by, exec' = Finishing(r, o, by)
          PROVE  exec'[r].task = exec[r].task
      <3>1. exec'[r] = [exec[r] EXCEPT !.pc = "update", !.outcome = o, !.by = by]
        BY <2>1 DEF TypeOK, Finishing
      <3>2. [exec[r] EXCEPT !.pc = "update", !.outcome = o, !.by = by].task = exec[r].task
        BY <1>2 DEF ExecRecord
      <3>3. QED
        BY <3>1, <3>2
    <2>2. ASSUME NEW pc, ExecGoTo(r, pc)
          PROVE  exec'[r].task = exec[r].task
      BY <1>2, <2>2 DEF TypeOK, ExecGoTo, ExecRecord
    <2>3. CASE exec' = [exec EXCEPT ![r].pc = "done", ![r].by = None]
      BY <1>2, <2>3 DEF TypeOK, ExecRecord
    <2>4. QED
      BY <2>1, <2>2, <2>3
  <1>4. QED
    BY <1>1, <1>3

\* Every step keeps the slots, when no id is submitted again.
LEMMA SlotStep ==
    ASSUME Resubmit = FALSE, TypeInv, SlotInv, [Next]_vars
    PROVE  SlotInv'
  <1> USE DEF TypeInv, taskVars, metricsVars, asyncVars, workerVars,
              clientVars, shutdownVars, failVars, stopVars, lockVars
  <1>1. ASSUME NEW c \in Client, NEW k \in Call, NEW t \in Task,
               CallQuery(c, k, t) \/ CallSubmit(c, k, t)
        PROVE  SlotInv'
    <2>1. CASE CallQuery(c, k, t)
      <3>1. KeepsIds
        BY <2>1 DEF CallQuery, KeepsIds, TypeOK
      <3>2. QED
        BY <2>1, <3>1, SlotFrame DEF CallQuery
    <2>2. CASE CallSubmit(c, k, t)
      <3>1. /\ \A r \in Run : exec[r].task # t
            /\ \A d \in Client : clientPc[d] = "submit" => call[d].task # t
        BY <1>1, <2>2 DEF CallSubmit, Unused
      <3>2. UNCHANGED <<exec, slots, outstanding>>
        BY <2>2 DEF CallSubmit, admissionVars
      <3>3. \A d \in Client : d # c => clientPc'[d] = clientPc[d] /\ call'[d] = call[d]
        BY <2>2 DEF CallSubmit, TypeOK
      <3>4. call'[c].task = t
        BY <2>2 DEF CallSubmit, CallOn, TypeOK
      <3>5. \A u : Accepted(u)' <=> Accepted(u)
        BY <3>2 DEF Accepted
      <3>6. SubmittedOnce'
        BY <3>1, <3>3, <3>4, <3>5 DEF SlotInv, SubmittedOnce, Accepted
      <3>7. QED
        BY <3>2, <3>5, <3>6 DEF SlotInv, SlotAccounting, SlotHoldersAccepted, AcceptedOnce
    <2>3. QED
      BY <1>1, <2>1, <2>2
  <1>2. ASSUME NEW c \in Client, ClientStep(c) PROVE SlotInv'
    <2>1. CASE SubmitTask(c)
      <3>1. CASE Refuse(c, call[c].task)
        <4>1. KeepsIds
          BY <2>1, <3>1 DEF SubmitTask, Refuse, Return, KeepsIds, TypeOK
        <4>2. QED
          BY <3>1, <4>1, SlotFrame DEF Refuse
      <3>2. CASE \E p \in Priority : slots # 0 /\ Accept(c, call[c].task, p)
        BY <2>1, <3>2, SlotAccept DEF SubmitTask
      <3>3. QED
        BY <2>1, <3>1, <3>2 DEF SubmitTask
    <2>2. CASE ~SubmitTask(c)
      <3>1. KeepsIds
        BY <1>2, <2>2 DEF ClientStep, RecordSubmission, NotifySubmission, WaitTerminal,
               PollWake, DeadlinePasses, RegisterAsync, CheckAsync, AwaitEnds, Collect,
               ReadResponse, Return, GoTo, KeepsIds, TypeOK
      <3>2. UNCHANGED admissionVars
        BY <1>2, <2>2 DEF ClientStep, RecordSubmission, NotifySubmission, WaitTerminal,
               PollWake, DeadlinePasses, RegisterAsync, CheckAsync, AwaitEnds, Collect
      <3>3. QED
        BY <3>1, <3>2, SlotFrame
    <2>3. QED
      BY <2>1, <2>2
  <1>3. ASSUME NEW w \in Worker, WorkerStep(w) PROVE SlotInv'
    <2>1. KeepsIds
      <3>1. UNCHANGED <<clientPc, call>>
        BY <1>3 DEF WorkerStep, PullTask, StartTask, ExecuteInline, ExecuteLater,
               WorkerExit, WorkerExited
      <3>2. CASE StartTask(w) \/ ExecuteInline(w) \/ ExecuteLater(w)
        <4>1. workerEntry[w].seq \in Run
          BY <3>2, SequenceAssumption DEF StartTask, ExecuteInline, ExecuteLater, EntryKnown,
                 TypeOK, BackendTypeOK, HeapEntry, Run
        <4>2. \/ \E o \in Terminal : exec' = Finishing(workerEntry[w].seq, o, w)
              \/ ExecGoTo(workerEntry[w].seq, "flying")
              \/ UNCHANGED exec
          BY <3>2, OutcomeAssumption DEF StartTask, ExecuteInline, ExecuteLater, ExecGoTo,
                 Terminal
        <4>3. QED
          BY <3>1, <4>1, <4>2, TaskKept DEF KeepsIds, ExecPc, Thread
      <3>3. CASE UNCHANGED exec
        BY <3>1, <3>3 DEF KeepsIds
      <3>4. QED
        BY <1>3, <3>2, <3>3 DEF WorkerStep, PullTask, WorkerExit, WorkerExited
    <2>2. UNCHANGED admissionVars
      BY <1>3 DEF WorkerStep, PullTask, StartTask, ExecuteInline, ExecuteLater,
             WorkerExit, WorkerExited
    <2>3. QED
      BY <2>1, <2>2, SlotFrame
  <1>4. ASSUME NEW r \in Run, FutureDone(r) \/ CompletionStep(r) PROVE SlotInv'
    <2>1. KeepsIds
      <3>1. UNCHANGED <<clientPc, call>>
        BY <1>4 DEF FutureDone, CompletionStep, CompleteUpdate, CompleteRelease,
               CompleteNotify, CompleteResolve
      <3>2. \/ \E o \in Terminal : exec' = Finishing(r, o, None)
            \/ \E pc \in ExecPc : ExecGoTo(r, pc)
            \/ exec' = [exec EXCEPT ![r].pc = "done", ![r].by = None]
        BY <1>4, OutcomeAssumption DEF FutureDone, CompletionStep, CompleteUpdate,
               CompleteRelease, CompleteNotify, CompleteResolve, ExecPc, Terminal
      <3>3. QED
        BY <3>1, <3>2, TaskKept DEF KeepsIds
    <2>2. CASE CompleteRelease(r)
      <3>1. exec[r].task \in Task
        BY <2>2 DEF CompleteRelease, ExecKnown, NoRun, Run, TypeOK, BackendTypeOK
      <3>2. QED
        BY <2>1, <2>2, <3>1, SlotRelease DEF CompleteRelease
    <2>3. CASE ~CompleteRelease(r)
      <3>1. UNCHANGED admissionVars
        BY <1>4, <2>3 DEF FutureDone, CompletionStep, CompleteUpdate, CompleteNotify,
               CompleteResolve
      <3>2. QED
        BY <2>1, <3>1, SlotFrame
    <2>4. QED
      BY <2>2, <2>3
  <1>5. CASE StopBegin \/ StopStep
    <2>1. KeepsIds
      <3>1. UNCHANGED <<clientPc, call>>
        BY <1>5 DEF StopBegin, StopStep, CloseStrategy, CloseRaises, FailFuture, StopNotify, JoinThreads,
               StopReturns
      <3>2. ASSUME NEW r \in Run, FailFuture(r) PROVE KeepsIds
        BY <3>1, <3>2, TaskKept DEF FailFuture, KeepsIds, Terminal, Thread
      <3>3. CASE UNCHANGED exec
        BY <3>1, <3>3 DEF KeepsIds
      <3>4. QED
        BY <1>5, <3>2, <3>3 DEF StopBegin, StopStep, CloseStrategy, CloseRaises, StopNotify, JoinThreads,
               StopReturns
    <2>2. UNCHANGED admissionVars
      BY <1>5 DEF StopBegin, StopStep, CloseStrategy, CloseRaises, FailFuture, StopNotify, JoinThreads,
             StopReturns
    <2>3. QED
      BY <2>1, <2>2, SlotFrame
  <1>6. CASE FailStep
    <2>1. KeepsIds
      BY <1>6 DEF FailStep, FailUpdate, FailRelease, FailNotify, KeepsIds
    <2>2. CASE FailRelease
      <3>1. failTask \in Task
        BY <2>2 DEF FailRelease, FailKnown
      <3>2. QED
        BY <2>1, <2>2, <3>1, SlotRelease DEF FailRelease
    <2>3. CASE FailUpdate \/ FailNotify
      BY <2>1, <2>3, SlotFrame DEF FailUpdate, FailNotify
    <2>4. QED
      BY <1>6, <2>2, <2>3 DEF FailStep
  <1>7. CASE UNCHANGED vars
    BY <1>7, SlotFrame DEF vars, KeepsIds
  <1>8. QED
    BY <1>1, <1>2, <1>3, <1>4, <1>5, <1>6, <1>7 DEF Next, Rest

\* No slot is leaked and none is released twice, for any limit and any number
\* of threads, by completion, stop and the last worker alike: under the
\* contract that a request is submitted once.
THEOREM SlotsConserved ==
    ASSUME Resubmit = FALSE
    PROVE  Spec => []SlotAccounting
  <1>1. SlotInv => SlotAccounting
    BY DEF SlotInv
  <1>2. TypeInv /\ SlotInv /\ [Next]_vars => TypeInv' /\ SlotInv'
    BY TypeStep, SlotStep
  <1>3. QED
    BY <1>1, <1>2, TypeStart, SlotStart, PTL DEF Spec

\* No two accepted submissions carry one id, if clients submit a request once:
\* an execution and its slot are then the task's own.
LEMMA RequestsAcceptedOnce ==
    ASSUME Resubmit = FALSE
    PROVE  Spec => []AcceptedOnce
  <1>1. SlotInv => AcceptedOnce
    BY DEF SlotInv
  <1>2. TypeInv /\ SlotInv /\ [Next]_vars => TypeInv' /\ SlotInv'
    BY TypeStep, SlotStep
  <1>3. QED
    BY <1>1, <1>2, TypeStart, SlotStart, PTL DEF Spec

=============================================================================
