---------------------------- MODULE CallerProofs ----------------------------
(***************************************************************************)
(* What a caller gets, for every number of callers and threads, when no id *)
(* is submitted twice: the outcome of its task or a refusal it can name;   *)
(* an outcome consumed by one caller at most; and a coroutine that never   *)
(* waits for a future nobody will resolve.                                 *)
(***************************************************************************)
EXTENDS LifecycleProofs

-----------------------------------------------------------------------------
(* The invariant.                                                          *)

\* Which calls can be at which point, and who can run out of time.
CallPhase ==
    \A c \in Client :
        /\ clientPc[c] \in {"submit", "record", "notify"} => call[c].api \notin Reader
        /\ clientPc[c] \in {"register", "check", "await"} => call[c].api = "async"
        /\ clientPc[c] = "wait" => call[c].api \in {"wait", "query"}
        /\ clientPc[c] = "collect" => call[c].api \in {"async", "look"}
        /\ c \in expired => clientPc[c] # "idle" /\ call[c].timed

\* A caller whose submission was accepted and whose call goes on; it is the
\* only one for its id.
Owner(c) ==
    clientPc[c] \notin {"idle", "submit", "done"} /\ call[c].api \notin Reader

OwnerAccepted == \A c \in Client : Owner(c) => Accepted(call[c].task)

OneOwnerCall ==
    \A c, d \in Client : Owner(c) /\ Owner(d) /\ call[c].task = call[d].task => c = d

\* An execution past its update has finished its task for good.
FinishedSettled ==
    \A r \in Run : exec[r].pc \in {"record", "notify", "resolve", "done"} =>
                      status[exec[r].task] \notin Live

\* A registration belongs to a coroutine that checks or awaits; a resolved
\* coroutine, and one that collects, finds its task finished.
AsyncKnown ==
    /\ \A t \in Task, c \in Client :
          asyncWaiter[t] = c => clientPc[c] \in {"check", "await"} /\ call[c].task = t
    /\ \A c \in Client : c \in resolved =>
          /\ clientPc[c] \in {"check", "await", "collect", "done"}
          /\ call[c].api = "async"
          /\ Accepted(call[c].task)
          /\ status[call[c].task] \notin Live
    /\ \A c \in Client : clientPc[c] = "collect" /\ call[c].api = "async" =>
          status[call[c].task] \notin Live

\* A record is lost only where records are consumed or evicted.
LossExplained == \A t \in Task : Accepted(t) /\ status[t] = "absent" => MayLose

\* What a consuming call returned has left the backend for good.
ConsumedGone ==
    \A c \in Client :
        clientPc[c] = "done" /\ outcome[c] \in Terminal /\ call[c].consume =>
            status[call[c].task] = "absent" /\ Accepted(call[c].task)

CallerInv ==
    /\ CallPhase /\ OwnerAccepted /\ OneOwnerCall /\ FinishedSettled
    /\ AsyncKnown /\ LossExplained

\* Until it is resolved, a coroutine that checks or awaits is registered.
Registered ==
    \A c \in Client : clientPc[c] \in {"check", "await"} /\ c \notin resolved =>
                         asyncWaiter[call[c].task] = c

-----------------------------------------------------------------------------
(* What every step does to the records, and most steps to the callers.     *)

\* An accepted id stays accepted; a settled record stays settled; a lost one
\* stays lost; and a record is lost by a consuming caller or a limit.
RecordsAge ==
    \A t \in Task :
        /\ Accepted(t) => Accepted(t)'
        /\ Accepted(t) /\ status[t] \notin Live => status'[t] \notin Live
        /\ Accepted(t) /\ status[t] = "absent" => status'[t] = "absent"

LEMMA RecordsMove ==
    ASSUME TypeInv, SlotInv, OwnInv, [Next]_vars
    PROVE  RecordsAge
  <1> USE DEF TypeInv, TypeOK, BackendTypeOK
  <1>1. CASE Admits
    <2>1. PICK c \in Client, p \in Priority :
              clientPc[c] = "submit" /\ slots # 0 /\ Accept(c, call[c].task, p)
      BY <1>1 DEF Admits
    <2>2. PICK t \in Task : t = call[c].task
      BY <2>1 DEF CallKnown, CallRecord
    <2>3. ~Accepted(t)
      BY <2>1, <2>2 DEF SlotInv, SubmittedOnce
    <2>4. /\ sequence \in Run
          /\ exec' = [exec EXCEPT ![sequence] = Queued(t)]
          /\ exec[sequence] = NoRun
      BY <2>1, <2>2, SequenceAssumption DEF Accept, Run, ExecKnown
    <2>5. \A u \in Task : Accepted(u) => Accepted(u)'
      BY <2>4, ActorAssumption DEF Accepted, NoRun
    <2>6. \A u \in Task : u # t => status'[u] = status[u]
      BY <2>1, <2>2 DEF Accept, Submit
    <2>7. QED
      BY <2>3, <2>5, <2>6 DEF RecordsAge
  <1>2. CASE SameRuns /\ ~Admits
    <2>1. \A u \in Task : Accepted(u)' <=> Accepted(u)
      BY <1>2 DEF SameRuns, Accepted
    <2>2. \A u \in Task : status[u] \notin Live =>
              status'[u] \notin Live /\ (status[u] = "absent" => status'[u] = "absent")
      <3>1. CASE Keeps \/ Pulls
        BY <3>1 DEF Keeps, Pulls, Pull, backendVars
      <3>2. CASE Reads
        BY <3>2 DEF Reads, Read, ReadKeep, ReadConsume, Terminal, Live, CallKnown, CallRecord
      <3>3. CASE Starts
        BY <3>3, RunEffect DEF Starts, Live
      <3>4. CASE Completes \/ Fails
        <4>1. PICK u \in Task, o \in Terminal : status[u] \in Live /\ UpdateStatus(u, o)
          BY <3>4, FinishesLive DEF OwnInv
        <4>2. OthersKept(u)
          BY <4>1, FinishEffect
        <4>3. QED
          BY <4>1, <4>2 DEF OthersKept, Live
      <3>5. QED
        BY <1>2, <3>1, <3>2, <3>3, <3>4, StepKinds DEF StepKind, Releases, Keeps
    <2>3. QED
      BY <2>1, <2>2 DEF RecordsAge, Live
  <1>3. QED
    BY <1>1, <1>2, StepKinds DEF StepKind

\* Nobody's call is lost, and no one starts to consume.
CallsKept ==
    \A c \in Client : clientPc[c] # "idle" => clientPc'[c] # "idle" /\ call'[c] = call[c]

LEMMA LossStep ==
    ASSUME TypeInv, SlotInv, OwnInv, LossExplained, CallsKept, [Next]_vars
    PROVE  LossExplained'
  <1> USE DEF TypeInv, TypeOK, BackendTypeOK
  <1>1. MayLose => MayLose'
    BY DEF MayLose, CallsKept
  <1>2. SUFFICES ASSUME NEW t \in Task, Accepted(t)', status'[t] = "absent", ~MayLose
                 PROVE  FALSE
    BY <1>1 DEF LossExplained
  <1>3. CASE Admits
    <2>1. PICK c \in Client, p \in Priority :
              clientPc[c] = "submit" /\ slots # 0 /\ Accept(c, call[c].task, p)
      BY <1>3 DEF Admits
    <2>2. PICK u \in Task : u = call[c].task
      BY <2>1 DEF CallKnown, CallRecord
    <2>3. /\ sequence \in Run
          /\ exec' = [exec EXCEPT ![sequence] = Queued(u)]
      BY <2>1, <2>2, SequenceAssumption DEF Accept, Run
    <2>4. Accepted(t) \/ t = u
      BY <1>2, <2>3 DEF Accepted, Queued, NoRun
    <2>5. status'[u] = "PENDING" /\ (t # u => status'[t] = status[t])
      BY <2>1, <2>2 DEF Accept, Submit
    <2>6. QED
      BY <1>2, <2>4, <2>5 DEF LossExplained
  <1>4. CASE SameRuns /\ ~Admits
    <2>1. Accepted(t)
      BY <1>2, <1>4 DEF SameRuns, Accepted
    <2>2. status[t] # "absent"
      BY <1>2, <2>1 DEF LossExplained
    <2>3. CASE Keeps \/ Pulls
      BY <1>2, <2>2, <2>3 DEF Keeps, Pulls, Pull, backendVars
    <2>4. CASE Reads
      BY <1>2, <2>2, <2>4 DEF Reads, Read, ReadKeep, MayLose
    <2>5. CASE Starts
      BY <1>2, <2>2, <2>5, RunEffect DEF Starts
    <2>6. CASE Completes \/ Fails
      <3>1. PICK u \in Task, o \in Terminal : status[u] \in Live /\ UpdateStatus(u, o)
        BY <2>6, FinishesLive DEF OwnInv
      <3>2. RetainLimit = 0
        BY <1>2, LimitAssumption DEF MayLose
      <3>3. status' = [v \in Task |-> IF v = u THEN o ELSE status[v]]
        BY <3>1, <3>2 DEF UpdateStatus, UpdateTerminal, Evicted
      <3>4. QED
        BY <1>2, <2>2, <3>3 DEF Terminal
    <2>7. QED
      BY <1>4, <2>3, <2>4, <2>5, <2>6, StepKinds DEF StepKind, Releases, Keeps
  <1>5. QED
    BY <1>3, <1>4, StepKinds DEF StepKind

-----------------------------------------------------------------------------
(* The invariant, step by step.                                            *)
Settled == {"record", "notify", "resolve", "done"}

\* Only its update settles an execution.
LEMMA SettledBy ==
    ASSUME TypeInv, [Next]_vars, NEW r \in Run, exec'[r].pc \in Settled
    PROVE  CompleteUpdate(r) \/ (exec[r].pc \in Settled /\ exec'[r].task = exec[r].task)
  <1> USE DEF TypeInv, Settled
  <1>1. CASE exec' = exec
    BY <1>1
  <1>2. ASSUME NEW q \in Run, NEW pc \in {"update", "flying"}, NEW by, RunMoves(q, pc, by)
        PROVE  exec[r].pc \in Settled /\ exec'[r].task = exec[r].task
    <2>1. r # q
      BY <1>2 DEF RunMoves
    <2>2. QED
      BY <1>2, <2>1 DEF RunMoves
  <1>3. ASSUME NEW c \in Client, ClientStep(c), exec' # exec
        PROVE  exec[r].pc \in Settled /\ exec'[r].task = exec[r].task
    <2>1. PICK t : sequence \in Nat /\ exec' = [exec EXCEPT ![sequence] = Queued(t)]
      BY <1>3 DEF ClientStep, SubmitTask, Refuse, Accept, RecordSubmission, NotifySubmission,
             WaitTerminal, PollWake, DeadlinePasses, RegisterAsync, CheckAsync, AwaitEnds,
             Collect, TypeOK, BackendTypeOK
    <2>2. r # sequence
      BY <2>1 DEF Queued, NoRun, TypeOK
    <2>3. QED
      BY <2>1, <2>2 DEF TypeOK
  <1>4. ASSUME NEW w \in Worker, WorkerStep(w), exec' # exec
        PROVE  exec[r].pc \in Settled /\ exec'[r].task = exec[r].task
    <2>1. Held(w) /\ workerEntry[w].seq \in Run
      BY <1>4, EntryNames
         DEF WorkerStep, PullTask, StartTask, ExecuteInline, ExecuteLater, WorkerExit,
             WorkerExited, Held
    <2>2. PICK q \in Run : \/ \E o, by : exec' = Finishing(q, o, by)
                           \/ exec' = [exec EXCEPT ![q].pc = "flying"]
      BY <1>4, <2>1 DEF WorkerStep, PullTask, StartTask, ExecuteInline, ExecuteLater, WorkerExit,
             WorkerExited
    <2>3. QED
      BY <1>2, <2>2, FinishingMoves, GoToMoves
  <1>5. ASSUME NEW q \in Run, FutureDone(q) \/ FailFuture(q)
        PROVE  exec[r].pc \in Settled /\ exec'[r].task = exec[r].task
    BY <1>2, <1>5, FinishingMoves DEF FutureDone, FailFuture
  <1>6. ASSUME NEW q \in Run, CompletionStep(q)
        PROVE  CompleteUpdate(r) \/ (exec[r].pc \in Settled /\ exec'[r].task = exec[r].task)
    <2>1. CASE CompleteUpdate(q)
      BY <2>1, GoToMoves DEF CompleteUpdate, ExecGoTo, RunMoves
    <2>2. CASE CompleteRelease(q) \/ CompleteNotify(q)
      BY <2>2, GoToMoves DEF CompleteRelease, CompleteNotify, ExecGoTo, RunMoves
    <2>3. CASE CompleteResolve(q)
      BY <2>3, EndMoves DEF CompleteResolve, RunMoves
    <2>4. QED
      BY <1>6, <2>1, <2>2, <2>3 DEF CompletionStep
  <1>7. CASE \E c \in Client, k \in Call, t \in Task : CallQuery(c, k, t) \/ CallSubmit(c, k, t)
    BY <1>1, <1>7 DEF CallQuery, CallSubmit
  <1>8. CASE StopBegin \/ CloseStrategy \/ CloseRaises \/ StopNotify \/ JoinThreads
             \/ StopReturns \/ FailStep
    BY <1>1, <1>8 DEF StopBegin, CloseStrategy, CloseRaises, StopNotify, JoinThreads, StopReturns,
                      FailStep,
           FailUpdate, FailRelease, FailNotify
  <1>9. CASE UNCHANGED vars
    BY <1>1, <1>9 DEF vars
  <1>10. QED
    BY <1>1, <1>3, <1>4, <1>5, <1>6, <1>7, <1>8, <1>9 DEF Next, StopStep, Rest

LEMMA SettledStep ==
    ASSUME TypeInv, SlotInv, OwnInv, FinishedSettled, [Next]_vars
    PROVE  FinishedSettled'
  <1>1. SUFFICES ASSUME NEW r \in Run, exec'[r].pc \in Settled
                 PROVE  status'[exec'[r].task] \notin Live
    BY DEF FinishedSettled, Settled
  <1>2. CASE CompleteUpdate(r)
    <2>1. exec[r].task \in Task /\ exec[r].outcome \in Terminal
      BY <1>2, RunNames DEF CompleteUpdate, TypeInv, ExecKnown
    <2>2. status'[exec[r].task] \notin Live
      BY <1>2, <2>1, FinishEffect DEF CompleteUpdate, TypeInv, TypeOK
    <2>3. RunMoves(r, "record", exec[r].by)
      BY <1>2, GoToMoves DEF CompleteUpdate, ExecGoTo, TypeInv
    <2>4. QED
      BY <2>2, <2>3 DEF RunMoves
  <1>3. CASE exec[r].pc \in Settled /\ exec'[r].task = exec[r].task
    <2>1. exec[r].task \in Task /\ Accepted(exec[r].task)
      BY <1>3, RunNames DEF Settled, Accepted
    <2>2. status[exec[r].task] \notin Live
      BY <1>3 DEF FinishedSettled, Settled
    <2>3. QED
      BY <1>3, <2>1, <2>2, RecordsMove DEF RecordsAge
  <1>4. QED
    BY <1>1, <1>2, <1>3, SettledBy

\* Steps that are no caller's: a coroutine may be resolved, once its task is
\* settled.
LEMMA CallerFrame ==
    ASSUME TypeInv, CallerInv, RecordsAge, UNCHANGED clientVars,
           \A t \in Task : asyncWaiter'[t] \in {asyncWaiter[t], None},
           \A c \in resolved' :
               \/ c \in resolved
               \/ \E t \in Task : /\ asyncWaiter[t] = c
                                  /\ Accepted(t)
                                  /\ status[t] \notin Live
    PROVE  CallPhase' /\ OwnerAccepted' /\ OneOwnerCall' /\ AsyncKnown'
  <1> USE DEF CallerInv, clientVars
  <1>1. \A c \in Client : Owner(c)' <=> Owner(c)
    BY DEF Owner
  <1>2. \A c \in Client : clientPc[c] # "idle" => call[c].task \in Task
    BY DEF TypeInv, CallKnown, CallRecord
  <1>3. CallPhase' /\ OneOwnerCall'
    BY <1>1 DEF CallPhase, OneOwnerCall
  <1>4. OwnerAccepted'
    BY <1>1, <1>2 DEF OwnerAccepted, Owner, RecordsAge
  <1>5. \A t \in Task, c \in Client : asyncWaiter'[t] = c =>
            clientPc[c] \in {"check", "await"} /\ call[c].task = t
    BY ActorAssumption DEF AsyncKnown
  <1>6. \A c \in Client : c \in resolved' =>
            /\ clientPc[c] \in {"check", "await", "collect", "done"}
            /\ call[c].api = "async"
            /\ Accepted(call[c].task)
            /\ status[call[c].task] \notin Live
    BY DEF AsyncKnown, CallPhase
  <1>7. \A c \in Client : clientPc[c] = "collect" /\ call[c].api = "async" =>
            call[c].task \in Task /\ Accepted(call[c].task)
    BY <1>2 DEF OwnerAccepted, Owner, Reader
  <1>8. AsyncKnown'
    BY <1>2, <1>5, <1>6, <1>7 DEF AsyncKnown, RecordsAge
  <1>9. QED
    BY <1>3, <1>4, <1>8

\* A step of caller c that leaves the registrations alone.
LEMMA OneCallerMoves ==
    ASSUME TypeInv, CallerInv, RecordsAge, NEW c \in Client,
           call' = call, UNCHANGED asyncVars,
           \A d \in Client : d # c =>
               clientPc'[d] = clientPc[d] /\ (d \in expired' <=> d \in expired),
           clientPc[c] \notin {"idle", "check", "await"},
           clientPc'[c] \notin {"idle", "check", "await", "collect"},
           clientPc[c] \in {"collect", "done"} => clientPc'[c] = "done",
           clientPc'[c] = "submit" => clientPc[c] = "submit",
           clientPc'[c] \in {"record", "notify"} => call[c].api \notin Reader,
           clientPc'[c] = "wait" => call[c].api \in {"wait", "query"},
           clientPc'[c] = "register" => call[c].api = "async",
           c \in expired' => call[c].timed,
           Owner(c)' => Owner(c) \/ (~Accepted(call[c].task) /\ Accepted(call[c].task)')
    PROVE  CallPhase' /\ OwnerAccepted' /\ OneOwnerCall' /\ AsyncKnown'
  <1> USE DEF CallerInv
  <1>1. \A d \in Client : d # c => (Owner(d)' <=> Owner(d))
    BY DEF Owner
  <1>2. \A d \in Client : clientPc[d] # "idle" => call[d].task \in Task
    BY DEF TypeInv, CallKnown, CallRecord
  <1>3. CallPhase'
    BY DEF CallPhase
  <1>4. OwnerAccepted'
    BY <1>1, <1>2 DEF OwnerAccepted, Owner, RecordsAge
  <1>5. OneOwnerCall'
    BY <1>1 DEF OneOwnerCall, OwnerAccepted
  <1>6. \A t \in Task, d \in Client : asyncWaiter'[t] = d =>
            clientPc'[d] \in {"check", "await"} /\ call[d].task = t
    BY DEF AsyncKnown, asyncVars
  <1>7. \A d \in Client : d \in resolved' =>
            /\ clientPc'[d] \in {"check", "await", "collect", "done"}
            /\ call[d].api = "async"
            /\ status'[call[d].task] \notin Live
            /\ Accepted(call[d].task)'
    <2>1. ASSUME NEW d \in Client, d \in resolved
          PROVE  /\ clientPc[d] \in {"check", "await", "collect", "done"}
                 /\ call[d].task \in Task
                 /\ call[d].api = "async"
                 /\ Accepted(call[d].task)
                 /\ status[call[d].task] \notin Live
      BY <1>2, <2>1 DEF AsyncKnown
    <2>2. QED
      BY <2>1 DEF asyncVars, RecordsAge
  <1>8. ASSUME NEW d \in Client, clientPc'[d] = "collect", call[d].api = "async"
        PROVE  status'[call[d].task] \notin Live
    <2>1. d # c /\ clientPc[d] = "collect" /\ call[d].task \in Task
      BY <1>2, <1>8
    <2>2. Accepted(call[d].task) /\ status[call[d].task] \notin Live
      BY <1>8, <2>1 DEF OwnerAccepted, Owner, Reader, AsyncKnown
    <2>3. QED
      BY <2>1, <2>2 DEF RecordsAge
  <1>9. AsyncKnown'
    BY <1>6, <1>7, <1>8 DEF AsyncKnown
  <1>10. QED
    BY <1>3, <1>4, <1>5, <1>9

\* A submission is accepted, and then it belongs to this caller.
LEMMA AcceptedNow ==
    ASSUME TypeInv, SlotInv, NEW c \in Client, SubmitTask(c), clientPc'[c] = "record"
    PROVE  ~Accepted(call[c].task) /\ Accepted(call[c].task)'
  <1> USE DEF TypeInv, TypeOK, BackendTypeOK
  <1>1. clientPc[c] = "submit"
    BY DEF SubmitTask
  <1>2. PICK p \in Priority : Accept(c, call[c].task, p)
    BY DEF SubmitTask, Refuse, Return
  <1>3. PICK t \in Task : t = call[c].task
    BY <1>1 DEF CallKnown, CallRecord
  <1>4. ~Accepted(t)
    BY <1>1, <1>3 DEF SlotInv, SubmittedOnce
  <1>5. sequence \in Run /\ exec' = [exec EXCEPT ![sequence] = Queued(t)]
    BY <1>2, <1>3, SequenceAssumption DEF Accept, Run
  <1>6. Accepted(t)'
    BY <1>5 DEF Accepted, Queued, NoRun
  <1>7. UNCHANGED call
    BY <1>2 DEF Accept, GoTo
  <1>8. QED
    BY <1>3, <1>4, <1>6, <1>7

\* The steps of submit and of the waiting loop.
LEMMA CallerMoves ==
    ASSUME TypeInv, SlotInv, CallerInv, RecordsAge, NEW c \in Client,
           \/ SubmitTask(c) \/ RecordSubmission(c) \/ NotifySubmission(c)
           \/ WaitTerminal(c) \/ PollWake(c) \/ DeadlinePasses(c) \/ Collect(c)
    PROVE  CallPhase' /\ OwnerAccepted' /\ OneOwnerCall' /\ AsyncKnown'
  <1> USE DEF TypeInv, TypeOK, Return, GoTo, clientVars
  <1>0. call' = call /\ UNCHANGED asyncVars
    BY DEF SubmitTask, Refuse, Accept, RecordSubmission, NotifySubmission, WaitTerminal,
           ReadResponse, PollWake, DeadlinePasses, Collect
  <1>1. CASE SubmitTask(c)
    <2>1. /\ clientPc[c] = "submit"
          /\ clientPc'[c] \in {"done", "record"}
          /\ expired' = expired
          /\ \A d \in Client : d # c => clientPc'[d] = clientPc[d]
      BY <1>1 DEF SubmitTask, Refuse, Accept
    <2>2. Owner(c)' => ~Accepted(call[c].task) /\ Accepted(call[c].task)'
      BY <1>1, <2>1, AcceptedNow DEF Owner
    <2>3. call[c].api \notin Reader /\ (c \in expired => call[c].timed)
      BY <2>1 DEF CallerInv, CallPhase
    <2>4. QED
      BY <1>0, <2>1, <2>2, <2>3, OneCallerMoves
  <1>2. CASE RecordSubmission(c) \/ NotifySubmission(c)
    <2>1. /\ clientPc[c] \in {"record", "notify"}
          /\ clientPc'[c] \in {"notify", "done", "wait", "register"}
          /\ clientPc'[c] = "wait" => call[c].api = "wait"
          /\ clientPc'[c] = "register" => call[c].api = "async"
          /\ expired' = expired
          /\ \A d \in Client : d # c => clientPc'[d] = clientPc[d]
      BY <1>2 DEF RecordSubmission, NotifySubmission
    <2>2. call[c].api \notin Reader /\ (c \in expired => call[c].timed) /\ Owner(c)
      BY <2>1 DEF CallerInv, CallPhase, Owner
    <2>3. QED
      BY <1>0, <2>1, <2>2, OneCallerMoves
  <1>3. CASE WaitTerminal(c) \/ PollWake(c) \/ DeadlinePasses(c) \/ Collect(c)
    <2>1. /\ clientPc[c] \in {"wait", "collect"}
          /\ clientPc'[c] = "done" \/ (clientPc[c] = "wait" /\ clientPc'[c] = "wait")
          /\ c \in expired' => c \in expired \/ call[c].timed
          /\ \A d \in Client : d # c =>
                clientPc'[d] = clientPc[d] /\ (d \in expired' <=> d \in expired)
      BY <1>3 DEF WaitTerminal, PollWake, DeadlinePasses, Collect, ReadResponse
    <2>2. /\ c \in expired => call[c].timed
          /\ clientPc[c] = "wait" => call[c].api \in {"wait", "query"}
      BY DEF CallerInv, CallPhase
    <2>3. Owner(c)' => Owner(c)
      BY <1>0, <2>1 DEF Owner
    <2>4. QED
      BY <1>0, <2>1, <2>2, <2>3, OneCallerMoves
  <1>4. QED
    BY <1>1, <1>2, <1>3

\* The steps of submit_and_wait_async after submit returned.
LEMMA AsyncMoves ==
    ASSUME TypeInv, SlotInv, CallerInv, RecordsAge, NEW c \in Client,
           RegisterAsync(c) \/ CheckAsync(c) \/ AwaitEnds(c)
    PROVE  CallPhase' /\ OwnerAccepted' /\ OneOwnerCall' /\ AsyncKnown'
  <1> USE DEF TypeInv, TypeOK, Return, GoTo, CallerInv
  <1>1. PICK t \in Task : t = call[c].task
    BY DEF RegisterAsync, CheckAsync, AwaitEnds, CallKnown, CallRecord
  <1>2. /\ call' = call /\ expired' = expired
        /\ UNCHANGED <<status, exec>>
        /\ \A d \in Client : d # c => clientPc'[d] = clientPc[d]
        /\ clientPc[c] \in {"register", "check", "await"}
        /\ clientPc'[c] \in {"check", "await", "collect", "done"}
        /\ clientPc'[c] = "check" => clientPc[c] = "register"
        /\ clientPc[c] = "register" => clientPc'[c] = "check"
    BY DEF RegisterAsync, CheckAsync, AwaitEnds, taskVars, backendVars
  <1>3. call[c].api = "async" /\ Owner(c) /\ Accepted(t)
    BY <1>1, <1>2 DEF CallPhase, Owner, Reader, OwnerAccepted
  <1>4. \A d \in Client : Owner(d)' => Owner(d)
    BY <1>2, <1>3 DEF Owner
  <1>5. \A u : Accepted(u)' <=> Accepted(u)
    BY <1>2 DEF Accepted
  <1>6. CallPhase'
    BY <1>2, <1>3 DEF CallPhase
  <1>7. OwnerAccepted' /\ OneOwnerCall'
    BY <1>2, <1>4, <1>5 DEF OwnerAccepted, OneOwnerCall
  <1>8. \A u \in Task, d \in Client : asyncWaiter'[u] = d =>
            clientPc'[d] \in {"check", "await"} /\ call[d].task = u
    <2>1. CASE RegisterAsync(c)
      BY <1>1, <1>2, <2>1 DEF RegisterAsync, AsyncKnown
    <2>2. CASE CheckAsync(c) \/ AwaitEnds(c)
      <3>1. \A u \in Task, d \in Client : asyncWaiter'[u] = d => asyncWaiter[u] = d
        BY <1>1, <2>2, ActorAssumption
           DEF CheckAsync, AwaitEnds, ResolveAsyncWaiter, asyncVars
      <3>2. clientPc'[c] \in {"check", "await"} \/ asyncWaiter'[t] = None
        BY <1>1, <2>2 DEF CheckAsync, AwaitEnds, ResolveAsyncWaiter
      <3>3. QED
        BY <1>1, <1>2, <3>1, <3>2, ActorAssumption DEF AsyncKnown
    <2>3. QED
      BY <2>1, <2>2
  <1>9. ASSUME NEW d \in Client, d \in resolved'
        PROVE  /\ clientPc'[d] \in {"check", "await", "collect", "done"}
               /\ call[d].api = "async"
               /\ Accepted(call[d].task)
               /\ status[call[d].task] \notin Live
    <2>1. CASE d \in resolved
      BY <1>2, <2>1 DEF AsyncKnown
    <2>2. CASE d \notin resolved
      <3>1. CheckAsync(c) /\ status[t] \in Terminal /\ asyncWaiter[t] = d
        BY <1>1, <1>9, <2>2 DEF RegisterAsync, CheckAsync, AwaitEnds, ResolveAsyncWaiter, asyncVars
      <3>2. clientPc[d] \in {"check", "await"} /\ call[d].task = t
        BY <3>1 DEF AsyncKnown
      <3>3. call[d].api = "async" /\ Accepted(call[d].task)
        BY <1>3, <3>2 DEF CallPhase
      <3>4. QED
        BY <1>2, <3>1, <3>2, <3>3 DEF Terminal, Live
    <2>3. QED
      BY <2>1, <2>2
  <1>10. ASSUME NEW d \in Client, clientPc'[d] = "collect", call[d].api = "async"
         PROVE  status[call[d].task] \notin Live
    <2>1. CASE d = c
      BY <1>1, <1>2, <1>10, <2>1 DEF RegisterAsync, CheckAsync, AwaitEnds, AsyncKnown, Terminal, Live
    <2>2. CASE d # c
      BY <1>2, <1>10, <2>2 DEF AsyncKnown
    <2>3. QED
      BY <2>1, <2>2
  <1>11. AsyncKnown'
    BY <1>2, <1>5, <1>8, <1>9, <1>10 DEF AsyncKnown
  <1>12. QED
    BY <1>6, <1>7, <1>11

\* A call begins.
LEMMA CallMoves ==
    ASSUME TypeInv, CallerInv, RecordsAge,
           NEW c \in Client, NEW k \in Call, NEW t \in Task,
           CallQuery(c, k, t) \/ CallSubmit(c, k, t)
    PROVE  CallPhase' /\ OwnerAccepted' /\ OneOwnerCall' /\ AsyncKnown'
  <1> USE DEF TypeInv, TypeOK, CallerInv
  <1>1. /\ UNCHANGED <<status, exec, asyncWaiter, resolved, expired>>
        /\ clientPc[c] = "idle"
        /\ call' = [call EXCEPT ![c] = CallOn(k, t)]
        /\ \A d \in Client : d # c => clientPc'[d] = clientPc[d] /\ call'[d] = call[d]
        /\ \/ clientPc'[c] = "wait" /\ k.api = "query"
           \/ clientPc'[c] = "collect" /\ k.api = "look"
           \/ clientPc'[c] \in {"submit", "done"} /\ k.api \notin Reader
    BY DEF CallQuery, CallSubmit, taskVars, backendVars, asyncVars, Reader
  <1>2. call'[c].api = k.api
    BY <1>1 DEF CallOn
  <1>3. ~Owner(c)' /\ \A d \in Client : d # c => (Owner(d)' <=> Owner(d))
    BY <1>1, <1>2 DEF Owner, Reader
  <1>4. \A u : Accepted(u)' <=> Accepted(u)
    BY <1>1 DEF Accepted
  <1>5. c \notin expired /\ c \notin resolved /\ \A u \in Task : asyncWaiter[u] # c
    BY <1>1 DEF CallPhase, AsyncKnown
  <1>6. CallPhase'
    BY <1>1, <1>2, <1>5 DEF CallPhase
  <1>7. OwnerAccepted' /\ OneOwnerCall'
    BY <1>1, <1>3, <1>4 DEF OwnerAccepted, OneOwnerCall
  <1>8. AsyncKnown'
    BY <1>1, <1>2, <1>4, <1>5 DEF AsyncKnown
  <1>9. QED
    BY <1>6, <1>7, <1>8

\* The steps of the other threads.
LEMMA OthersMove ==
    ASSUME TypeInv, SlotInv, OwnInv, CallerInv, RecordsAge,
           \/ \E w \in Worker : WorkerStep(w)
           \/ \E r \in Run : FutureDone(r) \/ CompletionStep(r)
           \/ StopBegin \/ StopStep \/ FailStep
           \/ UNCHANGED vars
    PROVE  CallPhase' /\ OwnerAccepted' /\ OneOwnerCall' /\ AsyncKnown'
  <1> USE DEF TypeInv, TypeOK
  <1>1. CASE UNCHANGED clientVars /\ UNCHANGED asyncVars
    BY <1>1, CallerFrame DEF asyncVars
  <1>2. ASSUME NEW r \in Run, CompleteResolve(r)
        PROVE  CallPhase' /\ OwnerAccepted' /\ OneOwnerCall' /\ AsyncKnown'
    <2>1. PICK t \in Task : t = exec[r].task
      BY <1>2, RunNames DEF CompleteResolve
    <2>2. Accepted(t) /\ status[t] \notin Live
      BY <1>2, <2>1 DEF CompleteResolve, CallerInv, FinishedSettled, Accepted
    <2>3. UNCHANGED clientVars /\ ResolveAsyncWaiter(t)
      BY <1>2, <2>1 DEF CompleteResolve
    <2>4. QED
      BY <2>2, <2>3, CallerFrame DEF ResolveAsyncWaiter
  <1>3. CASE FailRelease
    <2>1. PICK t \in Task : t = failTask
      BY <1>3 DEF FailRelease, FailKnown
    <2>2. status[t] \notin Live /\ t \in outstanding
      <3>1. status[t] \notin Live
        BY <1>3, <2>1 DEF FailRelease, OwnInv, ReleaseInv, ReleaseKnown
      <3>2. t \in outstanding
        BY <1>3, <2>1 DEF FailRelease, OwnInv, ReleaseInv, OutstandingExact, AboutToRelease
      <3>3. QED
        BY <3>1, <3>2
    <2>3. Accepted(t)
      BY <2>2 DEF SlotInv, SlotHoldersAccepted
    <2>4. UNCHANGED clientVars /\ ResolveAsyncWaiter(t)
      BY <1>3, <2>1 DEF FailRelease
    <2>5. QED
      BY <2>2, <2>3, <2>4, CallerFrame DEF ResolveAsyncWaiter
  <1>4. QED
    BY <1>1, <1>2, <1>3
       DEF WorkerStep, PullTask, StartTask, ExecuteInline, ExecuteLater, WorkerExit,
           WorkerExited, FutureDone, CompletionStep, CompleteUpdate, CompleteRelease,
           CompleteNotify, StopBegin, StopStep, CloseStrategy, CloseRaises, StopNotify, JoinThreads,
           StopReturns, FailFuture, FailStep, FailUpdate, FailNotify, vars

\* A step is a call that begins, a step of a caller, or none of the callers'.
LEMMA WhoMoves ==
    ASSUME [Next]_vars
    PROVE  \/ \E c \in Client, k \in Call, t \in Task : CallQuery(c, k, t) \/ CallSubmit(c, k, t)
           \/ \E c \in Client : ClientStep(c)
           \/ UNCHANGED clientVars
  BY DEF Next, WorkerStep, PullTask, StartTask, ExecuteInline, ExecuteLater, WorkerExit,
         WorkerExited, FutureDone, CompletionStep, CompleteUpdate, CompleteRelease,
         CompleteNotify, CompleteResolve, StopBegin, StopStep, CloseStrategy, CloseRaises, StopNotify,
         JoinThreads, StopReturns, FailFuture, FailStep, FailUpdate, FailRelease, FailNotify,
         Rest, vars

\* No step takes a call back.
LEMMA CallsStay ==
    ASSUME TypeInv, [Next]_vars
    PROVE  CallsKept
  <1> USE DEF TypeInv, TypeOK, CallsKept, clientVars, Return, GoTo
  <1>1. ASSUME NEW c \in Client, NEW k \in Call, NEW t \in Task,
               CallQuery(c, k, t) \/ CallSubmit(c, k, t)
        PROVE  CallsKept
    BY <1>1 DEF CallQuery, CallSubmit
  <1>2. ASSUME NEW c \in Client, ClientStep(c)
        PROVE  CallsKept
    <2>1. /\ call' = call
          /\ clientPc'[c] # "idle"
          /\ \A d \in Client : d # c => clientPc'[d] = clientPc[d]
      BY <1>2 DEF ClientStep, SubmitTask, Refuse, Accept, RecordSubmission, NotifySubmission,
             WaitTerminal, ReadResponse, PollWake, DeadlinePasses, RegisterAsync, CheckAsync,
             AwaitEnds, Collect
    <2>2. QED
      BY <2>1
  <1>3. CASE UNCHANGED clientVars
    BY <1>3
  <1>4. QED
    BY <1>1, <1>2, <1>3, WhoMoves

\* Every step keeps the invariant.
LEMMA CallerStep ==
    ASSUME TypeInv, SlotInv, OwnInv, CallerInv, [Next]_vars
    PROVE  CallerInv'
  <1>1. RecordsAge
    BY RecordsMove
  <1>2. FinishedSettled' /\ LossExplained'
    BY SettledStep, LossStep, CallsStay DEF CallerInv
  <1>3. CallPhase' /\ OwnerAccepted' /\ OneOwnerCall' /\ AsyncKnown'
    BY <1>1, CallMoves, CallerMoves, AsyncMoves, OthersMove DEF Next, ClientStep, Rest
  <1>4. QED
    BY <1>2, <1>3 DEF CallerInv

\* Nobody calls at first.
LEMMA CallerStart == Init => CallerInv
  <1> SUFFICES ASSUME Init PROVE CallerInv
    OBVIOUS
  <1> USE DEF Init, BackendInit, NoRun
  <1>1. CallPhase /\ OwnerAccepted /\ OneOwnerCall
    BY DEF CallPhase, OwnerAccepted, OneOwnerCall, Owner
  <1>2. FinishedSettled /\ AsyncKnown
    BY ActorAssumption DEF FinishedSettled, AsyncKnown
  <1>3. LossExplained
    BY ActorAssumption DEF LossExplained, Accepted
  <1>4. QED
    BY <1>1, <1>2, <1>3 DEF CallerInv

-----------------------------------------------------------------------------
(* What a call returns.                                                    *)

\* How the call of c came to its end, or that it had ended.
LEMMA HowCallsEnd ==
    ASSUME TypeInv, CallerInv, [Next]_vars, NEW c \in Client, clientPc'[c] = "done"
    PROVE  \/ /\ clientPc[c] = "done"
              /\ outcome'[c] = outcome[c] /\ call'[c] = call[c]
           \/ outcome'[c] \in {"INVALID_STATE", "INVALID_REQUEST", "OVERLOADED"}
           \/ outcome'[c] = "SINK_ERROR" /\ SinkMayRaise
           \/ outcome'[c] = "SUBMITTED" /\ call'[c].api = "submit"
           \/ outcome'[c] = "TIMEOUT" /\ call'[c].timed
           \/ outcome'[c] \in Live /\ call'[c].api \notin {"wait", "async"}
           \/ /\ clientPc[c] \in {"wait", "collect"} /\ call'[c] = call[c]
              /\ \/ outcome'[c] = "NOT_FOUND" /\ status[call[c].task] = "absent"
                 \/ /\ status[call[c].task] \in Terminal
                    /\ outcome'[c] = status[call[c].task]
                    /\ Read(call[c].task, call[c].consume)
  <1> USE DEF TypeInv, TypeOK, clientVars, Return, GoTo
  <1>1. ASSUME NEW d \in Client, NEW k \in Call, NEW t \in Task,
               CallQuery(d, k, t) \/ CallSubmit(d, k, t)
        PROVE  \/ /\ clientPc[c] = "done"
                  /\ outcome'[c] = outcome[c] /\ call'[c] = call[c]
               \/ outcome'[c] = "INVALID_STATE"
    BY <1>1 DEF CallQuery, CallSubmit
  <1>2. ASSUME NEW d \in Client, ClientStep(d), d # c
        PROVE  clientPc[c] = "done" /\ outcome'[c] = outcome[c] /\ call'[c] = call[c]
    BY <1>2 DEF ClientStep, SubmitTask, Refuse, Accept, RecordSubmission, NotifySubmission,
           WaitTerminal, ReadResponse, PollWake, DeadlinePasses, RegisterAsync, CheckAsync,
           AwaitEnds, Collect
  <1>3. CASE SubmitTask(c) \/ RecordSubmission(c) \/ NotifySubmission(c)
    BY <1>3 DEF SubmitTask, Refuse, Accept, RecordSubmission, NotifySubmission
  <1>4. CASE WaitTerminal(c)
    BY <1>4 DEF WaitTerminal, ReadResponse, CallerInv, CallPhase, BackendTypeOK, Status, Live,
           Terminal, CallKnown, CallRecord
  <1>5. CASE Collect(c)
    BY <1>5 DEF Collect, ReadResponse, CallerInv, CallPhase, AsyncKnown, BackendTypeOK, Status,
           Live, Terminal, CallKnown, CallRecord
  <1>6. CASE PollWake(c) \/ DeadlinePasses(c) \/ RegisterAsync(c) \/ CheckAsync(c)
    BY <1>6 DEF PollWake, DeadlinePasses, RegisterAsync, CheckAsync
  <1>7. CASE AwaitEnds(c)
    BY <1>7 DEF AwaitEnds
  <1>8. CASE UNCHANGED clientVars
    BY <1>8
  <1>9. QED
    BY <1>1, <1>2, <1>3, <1>4, <1>5, <1>6, <1>7, <1>8, WhoMoves DEF ClientStep

\* The caller waits for its own task, which is found missing only where
\* records are lost.
LEMMA OutcomeStep ==
    ASSUME TypeInv, CallerInv, WaitersGetOutcome, [Next]_vars
    PROVE  WaitersGetOutcome'
  <1> SUFFICES ASSUME NEW c \in Client, clientPc'[c] = "done", call'[c].api \in {"wait", "async"}
               PROVE  \/ outcome'[c] \in Terminal \cup {"INVALID_STATE", "INVALID_REQUEST",
                                                        "OVERLOADED"}
                      \/ outcome'[c] = "TIMEOUT" /\ call'[c].timed
                      \/ outcome'[c] = "NOT_FOUND" /\ MayLose'
                      \/ outcome'[c] = "SINK_ERROR" /\ SinkMayRaise
    BY DEF WaitersGetOutcome
  <1>1. MayLose => MayLose'
    BY CallsStay DEF MayLose, CallsKept
  <1>2. CASE clientPc[c] = "done" /\ outcome'[c] = outcome[c] /\ call'[c] = call[c]
    BY <1>1, <1>2 DEF WaitersGetOutcome
  <1>3. CASE /\ clientPc[c] \in {"wait", "collect"} /\ call'[c] = call[c]
             /\ outcome'[c] = "NOT_FOUND" /\ status[call[c].task] = "absent"
    <2>1. Accepted(call[c].task) /\ call[c].task \in Task
      BY <1>3 DEF CallerInv, OwnerAccepted, Owner, Reader, TypeInv, CallKnown, CallRecord
    <2>2. MayLose
      BY <1>3, <2>1 DEF CallerInv, LossExplained
    <2>3. QED
      BY <1>1, <1>3, <2>2
  <1>4. QED
    BY <1>2, <1>3, HowCallsEnd

\* Whoever submits and waits is told how the task ended, that it was refused,
\* that its own deadline passed, or that a trace sink raised; a task is missing
\* only where records are consumed or evicted.
THEOREM WaitersAreAnswered ==
    ASSUME Resubmit = FALSE
    PROVE  Spec => []WaitersGetOutcome
  <1>1. Init => WaitersGetOutcome
    BY DEF Init, WaitersGetOutcome
  <1>2. /\ TypeInv /\ SlotInv /\ OwnInv /\ CallerInv /\ WaitersGetOutcome
        /\ [Next]_vars
        => (CallerInv /\ WaitersGetOutcome)'
    BY CallerStep, OutcomeStep
  <1>3. QED
    BY <1>1, <1>2, CallerStart, OwnAlways, PTL DEF Spec

\* One caller moves at a time.
LEMMA OneMoves ==
    ASSUME TypeInv, [Next]_vars, NEW c \in Client, NEW d \in Client,
           clientPc'[c] # clientPc[c], clientPc'[d] # clientPc[d]
    PROVE  c = d
  <1> USE DEF TypeInv, TypeOK, clientVars, Return, GoTo
  <1>1. ASSUME NEW e \in Client, NEW k \in Call, NEW t \in Task,
               CallQuery(e, k, t) \/ CallSubmit(e, k, t)
        PROVE  c = d
    BY <1>1 DEF CallQuery, CallSubmit
  <1>2. ASSUME NEW e \in Client, ClientStep(e)
        PROVE  c = d
    <2>1. \A f \in Client : f # e => clientPc'[f] = clientPc[f]
      BY <1>2 DEF ClientStep, SubmitTask, Refuse, Accept, RecordSubmission, NotifySubmission,
             WaitTerminal, ReadResponse, PollWake, DeadlinePasses, RegisterAsync, CheckAsync,
             AwaitEnds, Collect
    <2>2. QED
      BY <2>1
  <1>3. CASE UNCHANGED clientVars
    BY <1>3
  <1>4. QED
    BY <1>1, <1>2, <1>3, WhoMoves

\* What a consuming call returns is gone when it returns, and stays gone.
LEMMA ConsumedStep ==
    ASSUME TypeInv, SlotInv, OwnInv, RecordAccepted, CallerInv, ConsumedGone, ConsumedOnce,
           [Next]_vars
    PROVE  ConsumedGone' /\ ConsumedOnce'
  <1> DEFINE Consumer(c) == clientPc[c] = "done" /\ outcome[c] \in Terminal /\ call[c].consume
  <1>1. ASSUME NEW c \in Client, Consumer(c)'
        PROVE  \/ Consumer(c) /\ call'[c] = call[c]
               \/ /\ clientPc[c] \in {"wait", "collect"} /\ call'[c] = call[c]
                  /\ status[call[c].task] \in Terminal
                  /\ Read(call[c].task, call[c].consume)
    BY <1>1, HowCallsEnd DEF Terminal, Live
  <1>2. \A c \in Client : clientPc[c] \in {"wait", "collect", "done"} => call[c].task \in Task
    BY DEF TypeInv, CallKnown, CallRecord
  <1>3. ASSUME NEW c \in Client, Consumer(c)'
        PROVE  (status[call[c].task] = "absent" /\ Accepted(call[c].task))'
    <2>1. PICK t \in Task : t = call[c].task /\ t = call'[c].task
      BY <1>1, <1>2, <1>3
    <2>2. Accepted(t) /\ (status[t] # "absent" => ReadConsume(t))
      <3>1. CASE Consumer(c) /\ call'[c] = call[c]
        BY <2>1, <3>1 DEF ConsumedGone
      <3>2. CASE status[t] \in Terminal /\ Read(t, call[c].consume) /\ call'[c] = call[c]
        BY <1>3, <3>2 DEF RecordAccepted, Terminal, Read
      <3>3. QED
        BY <1>1, <1>3, <2>1, <3>1, <3>2
    <2>3. status'[t] = "absent"
      BY <2>2, RecordsMove DEF RecordsAge, ReadConsume, TypeInv, TypeOK, BackendTypeOK
    <2>4. Accepted(t)'
      BY <2>2, RecordsMove DEF RecordsAge
    <2>5. QED
      BY <2>1, <2>3, <2>4 DEF Accepted
  <1>4. ConsumedGone'
    <2>1. \A c \in Client :
              /\ clientPc'[c] = "done" /\ outcome'[c] \in Terminal /\ call'[c].consume
              => (status[call[c].task] = "absent" /\ Accepted(call[c].task))'
      BY <1>3
    <2>2. QED
      BY <2>1 DEF ConsumedGone
  <1>5. ASSUME NEW c \in Client, NEW d \in Client, Consumer(c)', Consumer(d)',
               call'[c].task = call'[d].task, c # d
        PROVE  FALSE
    <2>1. \A e \in Client : Consumer(e) => status[call[e].task] = "absent"
      BY DEF ConsumedGone
    <2>2. call'[c] = call[c] /\ call'[d] = call[d]
      BY <1>1, <1>5
    <2>3. CASE Consumer(c) /\ Consumer(d)
      BY <1>5, <2>2, <2>3 DEF ConsumedOnce
    <2>4. CASE ~Consumer(c) /\ ~Consumer(d)
      <3>1. clientPc[c] # "done" /\ clientPc[d] # "done"
        BY <1>1, <1>5, <2>4
      <3>2. \A e, f \in Client : clientPc'[e] # clientPc[e] /\ clientPc'[f] # clientPc[f] => e = f
        BY OneMoves
      <3>3. QED
        BY <1>5, <3>1, <3>2
    <2>5. QED
      BY <1>1, <1>5, <2>1, <2>2, <2>3, <2>4 DEF Terminal
  <1>6. ConsumedOnce'
    BY <1>5 DEF ConsumedOnce
  <1>7. QED
    BY <1>4, <1>6

\* The outcome of a task is handed to one consuming caller at most, however
\* the callers' reads interleave with completions, evictions and stop.
THEOREM OutcomeConsumedOnce ==
    ASSUME Resubmit = FALSE
    PROVE  Spec => []ConsumedOnce
  <1>1. Init => RecordAccepted /\ ConsumedGone /\ ConsumedOnce
    BY DEF Init, BackendInit, RecordAccepted, ConsumedGone, ConsumedOnce
  <1>2. /\ TypeInv /\ SlotInv /\ OwnInv /\ CallerInv
        /\ RecordAccepted /\ ConsumedGone /\ ConsumedOnce
        /\ [Next]_vars
        => (CallerInv /\ RecordAccepted /\ ConsumedGone /\ ConsumedOnce)'
    BY CallerStep, RecordStep, ConsumedStep
  <1>3. QED
    BY <1>1, <1>2, CallerStart, OwnAlways, PTL DEF Spec

-----------------------------------------------------------------------------
(* Coroutines.                                                             *)

\* A live record is settled by the execution that updates it, or by
\* _fail_pending_tasks.
LEMMA LiveEnds ==
    ASSUME TypeInv, OwnInv, [Next]_vars, NEW t \in Task,
           status[t] \in Live, status'[t] \notin Live
    PROVE  \/ \E r \in Run : exec[r].task = t /\ CompleteUpdate(r)
           \/ FailUpdate /\ failTask' = t
  <1> USE DEF TypeInv, TypeOK, BackendTypeOK
  <1>1. ASSUME NEW c \in Client, ClientStep(c) PROVE FALSE
    <2>1. CASE SubmitTask(c)
      BY <2>1 DEF SubmitTask, Refuse, Accept, Submit, Live, CallKnown, CallRecord, backendVars
    <2>2. CASE WaitTerminal(c) \/ Collect(c)
      <3>1. call[c].task \in Task
        BY <2>2 DEF WaitTerminal, Collect, CallKnown, CallRecord
      <3>2. StatusSettles \/ UNCHANGED backendVars
        BY <2>2, <3>1, ReadEffect DEF WaitTerminal, Collect
      <3>3. QED
        BY <3>2 DEF StatusSettles, backendVars
    <2>3. CASE UNCHANGED backendVars
      BY <2>3 DEF backendVars
    <2>4. QED
      BY <1>1, <2>1, <2>2, <2>3
         DEF ClientStep, RecordSubmission, NotifySubmission, PollWake, DeadlinePasses,
             RegisterAsync, CheckAsync, AwaitEnds, taskVars
  <1>2. ASSUME NEW w \in Worker, WorkerStep(w) PROVE FALSE
    <2>1. CASE PullTask(w)
      BY <2>1 DEF PullTask, Pull, backendVars
    <2>2. CASE StartTask(w)
      <3>1. workerEntry[w].id \in Task
        BY <2>2, EntryNames DEF StartTask, Held
      <3>2. CASE UpdateStatus(workerEntry[w].id, "RUNNING")
        BY <3>1, <3>2, RunEffect DEF Live
      <3>3. QED
        BY <2>2, <3>2 DEF StartTask, backendVars
    <2>3. CASE UNCHANGED backendVars
      BY <2>3 DEF backendVars
    <2>4. QED
      BY <1>2, <2>1, <2>2, <2>3
         DEF WorkerStep, ExecuteInline, ExecuteLater, WorkerExit, WorkerExited, taskVars
  <1>3. ASSUME NEW r \in Run, CompleteUpdate(r) PROVE exec[r].task = t
    <2>1. exec[r].task \in Task /\ exec[r].outcome \in Terminal
      BY <1>3, RunNames DEF CompleteUpdate, ExecKnown
    <2>2. OthersKept(exec[r].task)
      BY <1>3, <2>1, FinishEffect DEF CompleteUpdate
    <2>3. QED
      BY <2>2 DEF OthersKept, Live, Terminal
  <1>4. CASE FailUpdate
    <2>1. PICK u \in failTodo : UpdateStatus(u, "FAILED") /\ failTask' = u
      BY <1>4 DEF FailUpdate
    <2>2. OthersKept(u)
      BY <2>1, FinishEffect DEF Terminal
    <2>3. QED
      BY <1>4, <2>1, <2>2 DEF OthersKept, Live, Terminal
  <1>5. CASE UNCHANGED status
    BY <1>5
  <1>6. QED
    BY <1>1, <1>2, <1>3, <1>4, <1>5
       DEF Next, CallQuery, CallSubmit, FutureDone, CompletionStep, CompleteRelease,
           CompleteNotify, CompleteResolve, StopBegin, StopStep, CloseStrategy, CloseRaises, StopNotify,
           JoinThreads, StopReturns, FailFuture, FailStep, FailRelease, FailNotify, Rest, vars,
           taskVars, backendVars

\* The completion path is walked to its end.
Walking == {"record", "notify", "resolve"}

LEMMA PathGoesOn ==
    ASSUME TypeInv, OwnInv, [Next]_vars, NEW r \in Run, exec[r].pc \in Walking
    PROVE  CompleteResolve(r) \/ (exec'[r].pc \in Walking /\ exec'[r].task = exec[r].task)
  <1> USE DEF TypeInv, Walking
  <1>1. CASE exec'[r] = exec[r]
    BY <1>1
  <1>2. ASSUME NEW c \in Client, ClientStep(c), exec' # exec PROVE exec'[r] = exec[r]
    <2>1. exec' = [exec EXCEPT ![sequence] = Queued(call[c].task)] /\ sequence \in Nat
      BY <1>2 DEF ClientStep, SubmitTask, Refuse, Accept, RecordSubmission, NotifySubmission,
             WaitTerminal, PollWake, DeadlinePasses, RegisterAsync, CheckAsync, AwaitEnds,
             Collect, TypeOK, BackendTypeOK
    <2>2. r # sequence
      BY <2>1, RunNames DEF Run
    <2>3. QED
      BY <2>1, <2>2 DEF TypeOK
  <1>3. ASSUME NEW w \in Worker, WorkerStep(w), exec' # exec PROVE exec'[r] = exec[r]
    <2>1. Held(w)
      BY <1>3 DEF WorkerStep, PullTask, StartTask, ExecuteInline, ExecuteLater, WorkerExit,
             WorkerExited, Held
    <2>2. PICK q \in Run : q = workerEntry[w].seq
      BY <2>1, EntryNames
    <2>3. exec[q].pc = "queued"
      BY <2>1, <2>2 DEF OwnInv, CoreInv, HeldQueued
    <2>4. \/ \E o, by : exec' = Finishing(q, o, by)
          \/ exec' = [exec EXCEPT ![q].pc = "flying"]
      BY <1>3, <2>2 DEF WorkerStep, PullTask, StartTask, ExecuteInline, ExecuteLater, WorkerExit,
             WorkerExited
    <2>5. QED
      BY <2>3, <2>4, FinishingMoves, GoToMoves DEF RunMoves
  <1>4. ASSUME NEW q \in Run, FutureDone(q) \/ FailFuture(q) PROVE exec'[r] = exec[r]
    BY <1>4, FinishingMoves DEF FutureDone, FailFuture, RunMoves
  <1>5. ASSUME NEW q \in Run, CompletionStep(q)
        PROVE  CompleteResolve(r) \/ (exec'[r].pc \in Walking /\ exec'[r].task = exec[r].task)
    <2>1. CASE CompleteUpdate(q)
      BY <2>1, GoToMoves DEF CompleteUpdate, ExecGoTo, RunMoves
    <2>2. CASE CompleteRelease(q) \/ CompleteNotify(q)
      BY <2>2, GoToMoves DEF CompleteRelease, CompleteNotify, ExecGoTo, RunMoves
    <2>3. CASE CompleteResolve(q)
      BY <2>3, EndMoves DEF CompleteResolve, RunMoves
    <2>4. QED
      BY <1>5, <2>1, <2>2, <2>3 DEF CompletionStep
  <1>6. CASE \E c \in Client, k \in Call, t \in Task : CallQuery(c, k, t) \/ CallSubmit(c, k, t)
    BY <1>1, <1>6 DEF CallQuery, CallSubmit
  <1>7. CASE StopBegin \/ CloseStrategy \/ CloseRaises \/ StopNotify \/ JoinThreads
             \/ StopReturns \/ FailStep
    BY <1>1, <1>7 DEF StopBegin, CloseStrategy, CloseRaises, StopNotify, JoinThreads, StopReturns,
                      FailStep,
           FailUpdate, FailRelease, FailNotify
  <1>8. CASE UNCHANGED vars
    BY <1>1, <1>8 DEF vars
  <1>9. QED
    BY <1>1, <1>2, <1>3, <1>4, <1>5, <1>6, <1>7, <1>8 DEF Next, StopStep, Rest

\* So is that of _fail_pending_tasks.
LEMMA FailGoesOn ==
    ASSUME TypeInv, OwnInv, [Next]_vars, failPc = "release"
    PROVE  FailRelease \/ (failPc' = "release" /\ failTask' = failTask)
  <1>1. CASE UNCHANGED failVars
    BY <1>1 DEF failVars
  <1>2. \A w \in Worker : workerPc[w] \in {"none", "dead", "failing"}
    BY DEF OwnInv, CoreInv, FailQuiet
  <1>3. ASSUME NEW w \in Worker, WorkerStep(w) PROVE FALSE
    BY <1>2, <1>3
       DEF WorkerStep, PullTask, StartTask, ExecuteInline, ExecuteLater, WorkerExit, WorkerExited
  <1>4. CASE JoinThreads
    <2>1. PICK w \in Worker : workerPc[w] = "failing"
      BY <1>4 DEF JoinThreads, OwnInv, CoreInv, FailQuiet
    <2>2. w \in threads
      BY <2>1 DEF OwnInv, CoreInv, ThreadsKnown
    <2>3. threads' # {}
      BY <1>4, <2>1, <2>2 DEF JoinThreads
    <2>4. QED
      BY <1>1, <1>4, <2>3 DEF JoinThreads
  <1>5. CASE FailStep
    BY <1>5 DEF FailStep, FailUpdate, FailNotify
  <1>6. QED
    BY <1>1, <1>3, <1>4, <1>5
       DEF Next, CallQuery, CallSubmit, ClientStep, SubmitTask, RecordSubmission,
           NotifySubmission, WaitTerminal, PollWake, DeadlinePasses, RegisterAsync, CheckAsync,
           AwaitEnds, Collect, FutureDone, CompletionStep, CompleteUpdate, CompleteRelease,
           CompleteNotify, CompleteResolve, StopBegin, StopStep, CloseStrategy, CloseRaises, StopNotify,
           StopReturns, FailFuture, Rest, vars, shutdownVars

\* A coroutine's registration is its own: only its resolution takes it away.
LEMMA RegisteredStep ==
    ASSUME TypeInv, CallerInv, Registered, [Next]_vars
    PROVE  Registered'
  <1> USE DEF TypeInv, TypeOK, CallerInv, Return, GoTo
  <1>1. SUFFICES ASSUME NEW c \in Client, clientPc'[c] \in {"check", "await"}, c \notin resolved'
                 PROVE  asyncWaiter'[call'[c].task] = c
    BY DEF Registered
  <1>2. CASE UNCHANGED <<clientPc, call, asyncWaiter, resolved>>
    BY <1>1, <1>2 DEF Registered
  <1>3. ASSUME NEW d \in Client, NEW k \in Call, NEW t \in Task,
               CallQuery(d, k, t) \/ CallSubmit(d, k, t)
        PROVE  asyncWaiter'[call'[c].task] = c
    <2>1. /\ clientPc'[d] \in {"wait", "collect", "submit", "done"}
          /\ \A e \in Client : e # d => clientPc'[e] = clientPc[e] /\ call'[e] = call[e]
          /\ UNCHANGED <<asyncWaiter, resolved>>
      BY <1>3 DEF CallQuery, CallSubmit, asyncVars
    <2>2. QED
      BY <1>1, <2>1 DEF Registered
  <1>4. ASSUME NEW d \in Client, ClientStep(d)
        PROVE  asyncWaiter'[call'[c].task] = c
    <2>1. CASE RegisterAsync(d) \/ CheckAsync(d) \/ AwaitEnds(d)
      <3>1. /\ call' = call /\ resolved \subseteq resolved'
            /\ \A e \in Client : e # d => clientPc'[e] = clientPc[e]
            /\ clientPc[d] \in {"register", "check", "await"}
            /\ \A t \in Task : t # call[d].task => asyncWaiter'[t] = asyncWaiter[t]
        BY <2>1 DEF RegisterAsync, CheckAsync, AwaitEnds, ResolveAsyncWaiter, asyncVars
      <3>2. clientPc[c] # "idle" /\ clientPc[d] # "idle"
        BY <1>1, <3>1
      <3>3. call[c].task \in Task /\ call[d].task \in Task
        BY <3>2 DEF CallKnown, CallRecord
      <3>4. CASE c = d
        BY <1>1, <2>1, <3>1, <3>3, <3>4
           DEF RegisterAsync, CheckAsync, AwaitEnds, asyncVars, Registered
      <3>5. CASE c # d
        <4>1. clientPc[c] \in {"check", "await"} /\ Owner(c) /\ Owner(d)
          BY <1>1, <3>1, <3>5 DEF CallPhase, Owner, Reader
        <4>2. call[c].task # call[d].task
          BY <3>5, <4>1 DEF OneOwnerCall
        <4>3. QED
          BY <1>1, <3>1, <3>3, <4>1, <4>2 DEF Registered
      <3>6. QED
        BY <3>4, <3>5
    <2>2. CASE ~(RegisterAsync(d) \/ CheckAsync(d) \/ AwaitEnds(d))
      <3>1. /\ call' = call
            /\ UNCHANGED <<asyncWaiter, resolved>>
            /\ \A e \in Client : e # d => clientPc'[e] = clientPc[e]
            /\ clientPc'[d] \notin {"check", "await"}
        BY <1>4, <2>2 DEF ClientStep, SubmitTask, Refuse, Accept, RecordSubmission,
               NotifySubmission, WaitTerminal, ReadResponse, PollWake, DeadlinePasses, Collect,
               clientVars, asyncVars
      <3>2. QED
        BY <1>1, <3>1 DEF Registered
    <2>3. QED
      BY <2>1, <2>2
  <1>5. ASSUME NEW r \in Run, CompleteResolve(r)
        PROVE  asyncWaiter'[call'[c].task] = c
    BY <1>1, <1>5 DEF CompleteResolve, ResolveAsyncWaiter, clientVars, Registered, CallKnown,
           CallRecord
  <1>6. CASE FailRelease
    BY <1>1, <1>6 DEF FailRelease, ResolveAsyncWaiter, clientVars, Registered, CallKnown,
           CallRecord
  <1>7. QED
    BY <1>2, <1>3, <1>4, <1>5, <1>6
       DEF Next, WorkerStep, PullTask, StartTask, ExecuteInline, ExecuteLater, WorkerExit,
           WorkerExited, FutureDone, CompletionStep, CompleteUpdate, CompleteRelease,
           CompleteNotify, StopBegin, StopStep, CloseStrategy, CloseRaises, StopNotify, JoinThreads,
           StopReturns, FailFuture, FailStep, FailUpdate, FailNotify, Rest, vars, clientVars,
           asyncVars

\* The thread that settles the task of a coroutine goes on to resolve it.
LEMMA AwakeStep ==
    ASSUME TypeInv, SlotInv, OwnInv, CallerInv, Registered, AsyncWakeup, ~MayLose, [Next]_vars
    PROVE  AsyncWakeup'
  <1> USE DEF TypeInv, TypeOK, CallerInv, Return, GoTo
  <1>1. SUFFICES ASSUME NEW c \in Client, clientPc'[c] = "await", c \notin resolved'
                 PROVE  (\/ status[call[c].task] \in Live
                         \/ \E r \in Run : exec[r].task = call[c].task /\ exec[r].pc \in Walking
                         \/ failPc = "release" /\ failTask = call[c].task)'
    <2>1. Registered'
      BY RegisteredStep
    <2>2. QED
      BY <1>1, <2>1 DEF AsyncWakeup, Registered, Walking
  <1>2. CASE clientPc[c] # "await"
    <2>1. CheckAsync(c)
      <3>1. ASSUME NEW d \in Client, NEW k \in Call, NEW t \in Task,
                   CallQuery(d, k, t) \/ CallSubmit(d, k, t)
            PROVE  FALSE
        BY <1>1, <1>2, <3>1 DEF CallQuery, CallSubmit
      <3>2. ASSUME NEW d \in Client, ClientStep(d)
            PROVE  CheckAsync(c)
        BY <1>1, <1>2, <3>2
           DEF ClientStep, SubmitTask, Refuse, Accept, RecordSubmission, NotifySubmission,
               WaitTerminal, ReadResponse, PollWake, DeadlinePasses, RegisterAsync, CheckAsync,
               AwaitEnds, Collect, clientVars
      <3>3. ~UNCHANGED clientVars
        BY <1>1, <1>2 DEF clientVars
      <3>4. QED
        BY <3>1, <3>2, <3>3, WhoMoves
    <2>2. call[c].task \in Task /\ Accepted(call[c].task)
      BY <2>1 DEF CheckAsync, CallKnown, CallRecord, CallPhase, OwnerAccepted, Owner, Reader
    <2>3. status[call[c].task] # "absent" /\ status[call[c].task] \notin Terminal
      BY <1>1, <2>1, <2>2 DEF CheckAsync, LossExplained
    <2>4. status'[call'[c].task] \in Live
      BY <2>1, <2>2, <2>3 DEF CheckAsync, taskVars, backendVars, BackendTypeOK, Status
    <2>5. QED
      BY <2>4
  <1>3. CASE clientPc[c] = "await"
    <2>1. PICK t \in Task : t = call[c].task /\ t = call'[c].task
      BY <1>3, CallsStay DEF CallsKept, CallKnown, CallRecord
    <2>2. c \notin resolved /\ asyncWaiter[t] = c
      <3>1. resolved \subseteq resolved'
        BY DEF Next, CallQuery, CallSubmit, ClientStep, SubmitTask, RecordSubmission,
               NotifySubmission, WaitTerminal, PollWake, DeadlinePasses, RegisterAsync,
               CheckAsync, AwaitEnds, Collect, WorkerStep, PullTask, StartTask, ExecuteInline,
               ExecuteLater, WorkerExit, WorkerExited, FutureDone, CompletionStep,
               CompleteUpdate, CompleteRelease, CompleteNotify, CompleteResolve, StopBegin,
               StopStep, CloseStrategy, CloseRaises, StopNotify, JoinThreads, StopReturns, FailFuture,
               FailStep, FailUpdate, FailRelease, FailNotify, Rest, vars, asyncVars,
               ResolveAsyncWaiter
      <3>2. QED
        BY <1>1, <1>3, <2>1, <3>1 DEF Registered
    <2>3. c # None
      BY ActorAssumption
    <2>4. CASE status[t] \in Live
      <3>1. CASE status'[t] \in Live
        BY <2>1, <3>1
      <3>2. ASSUME NEW r \in Run, exec[r].task = t, CompleteUpdate(r)
            PROVE  exec'[r].task = t /\ exec'[r].pc \in Walking
        BY <3>2, GoToMoves DEF CompleteUpdate, ExecGoTo, RunMoves, Walking
      <3>3. CASE FailUpdate /\ failTask' = t
        BY <2>1, <3>3 DEF FailUpdate
      <3>4. QED
        BY <2>1, <2>4, <3>1, <3>2, <3>3, LiveEnds
    <2>5. ASSUME NEW r \in Run, exec[r].task = t, exec[r].pc \in Walking
          PROVE  exec'[r].task = t /\ exec'[r].pc \in Walking
      <3>1. ~CompleteResolve(r)
        BY <1>1, <2>2, <2>3, <2>5 DEF CompleteResolve, ResolveAsyncWaiter
      <3>2. QED
        BY <2>5, <3>1, PathGoesOn
    <2>6. CASE failPc = "release" /\ failTask = t
      <3>1. ~FailRelease
        BY <1>1, <2>2, <2>3, <2>6 DEF FailRelease, ResolveAsyncWaiter
      <3>2. QED
        BY <2>1, <2>6, <3>1, FailGoesOn
    <2>7. QED
      BY <1>3, <2>1, <2>2, <2>4, <2>5, <2>6 DEF AsyncWakeup, Walking
  <1>4. QED
    BY <1>2, <1>3

\* Without a retention limit and without consuming callers no coroutine waits
\* for a future that nobody will resolve: whichever thread finishes its task,
\* the strategy's, a worker, stop or the last worker to exit, goes on to it.
THEOREM NoCoroutineForgotten ==
    ASSUME Resubmit = FALSE, RetainLimit = 0, \A k \in Call : k.consume = FALSE
    PROVE  Spec => []AsyncWakeup
  <1> DEFINE Callers == \A c \in Client : clientPc[c] # "idle" => call[c].consume = FALSE
  <1>1. Init => Callers /\ Registered /\ AsyncWakeup
    BY DEF Init, Registered, AsyncWakeup
  <1>2. TypeInv /\ Callers /\ [Next]_vars => Callers'
    <2> SUFFICES ASSUME TypeInv, Callers, [Next]_vars, NEW c \in Client, clientPc'[c] # "idle"
                 PROVE  call'[c].consume = FALSE
      OBVIOUS
    <2>1. CASE clientPc[c] # "idle"
      BY <2>1, CallsStay DEF CallsKept
    <2>2. CASE clientPc[c] = "idle"
      <3>1. PICK k \in Call, t \in Task : CallQuery(c, k, t) \/ CallSubmit(c, k, t)
        <4>1. ASSUME NEW d \in Client, NEW k \in Call, NEW t \in Task,
                     CallQuery(d, k, t) \/ CallSubmit(d, k, t)
              PROVE  d = c
          BY <2>2, <4>1 DEF CallQuery, CallSubmit, TypeInv, TypeOK
        <4>2. ASSUME NEW d \in Client, ClientStep(d)
              PROVE  FALSE
          BY <2>2, <4>2
             DEF ClientStep, SubmitTask, Refuse, Accept, RecordSubmission, NotifySubmission,
                 WaitTerminal, ReadResponse, PollWake, DeadlinePasses, RegisterAsync,
                 CheckAsync, AwaitEnds, Collect, Return, GoTo, clientVars, TypeInv, TypeOK
        <4>3. ~UNCHANGED clientVars
          BY <2>2 DEF clientVars
        <4>4. QED
          BY <4>1, <4>2, <4>3, WhoMoves
      <3>2. QED
        BY <3>1 DEF CallQuery, CallSubmit, CallOn, TypeInv, TypeOK
    <2>3. QED
      BY <2>1, <2>2
  <1>3. Callers => ~MayLose
    BY DEF MayLose
  <1>4. /\ TypeInv /\ SlotInv /\ OwnInv /\ CallerInv /\ Callers /\ Registered /\ AsyncWakeup
        /\ [Next]_vars
        => (CallerInv /\ Callers /\ Registered /\ AsyncWakeup)'
    BY <1>2, <1>3, CallerStep, RegisteredStep, AwakeStep
  <1> HIDE DEF Callers
  <1>5. QED
    BY <1>1, <1>4, CallerStart, OwnAlways, PTL DEF Spec

=============================================================================
