----------------------------- MODULE LogProofs -----------------------------
(***************************************************************************)
(* Theorems about module LogManager, for any managers, records, keys and   *)
(* any capacity of the pipes: its state is well typed, stop loses nothing  *)
(* that was on the queue before the sentinel, leaves no file open, and the *)
(* logger comes back to whom it belongs as long as the managers nest.      *)
(***************************************************************************)
EXTENDS LogManager, SequenceTheorems, TLAPS

-----------------------------------------------------------------------------
(* Sequences: the item put last, the items left by Tail and Front.         *)
LEMMA FrontOf ==
    ASSUME NEW S, NEW s \in Seq(S)
    PROVE  /\ Front(s) \in Seq(S)
           /\ s # <<>> => /\ Len(Front(s)) = Len(s) - 1
                          /\ \A i \in 1 .. Len(s) - 1 : Front(s)[i] = s[i]
  <1>1. CASE s = <<>>
    <2>1. Front(s) = <<>>
      BY <1>1 DEF Front
    <2>2. QED
      BY <1>1, <2>1
  <1>2. CASE s # <<>>
    <2>1. Len(s) - 1 \in 0 .. Len(s)
      BY <1>2
    <2>2. QED
      BY <1>2, <2>1, SubSeqProperties DEF Front
  <1>3. QED
    BY <1>1, <1>2

LEMMA TailOf ==
    ASSUME NEW S, NEW s \in Seq(S), s # <<>>
    PROVE  /\ Tail(s) \in Seq(S)
           /\ Head(s) = s[1] /\ Head(s) \in S
           /\ Len(s) \in Nat \ {0} /\ Len(Tail(s)) = Len(s) - 1
           /\ \A i \in 1 .. Len(s) - 1 : Tail(s)[i] = s[i + 1]
  OBVIOUS

LEMMA AppendOf ==
    ASSUME NEW S, NEW s \in Seq(S), NEW x \in S
    PROVE  /\ Append(s, x) \in Seq(S)
           /\ Len(Append(s, x)) = Len(s) + 1
           /\ Append(s, x)[Len(s) + 1] = x
           /\ \A i \in 1 .. Len(s) : Append(s, x)[i] = s[i]
  OBVIOUS

-----------------------------------------------------------------------------
(* Type correctness.                                                       *)
\* Strengthening: a listener runs only for a manager that was started.
StartedOnly == \A m \in Manager : m \in started <=> listener[m] # "unstarted"

LogTyping == LogTypeOK /\ StartedOnly

LEMMA TypeInit == Init => LogTyping
  <1> SUFFICES ASSUME Init PROVE LogTyping
    OBVIOUS
  <1>1. <<>> \in Queued /\ <<>> \in Seq(WorkerRecord) /\ <<>> \in Seq(Manager) /\ Len(<<>>) = 0
    BY DEF Queued
  <1>2. InitialLogger \in [handlers : Seq(Manager), propagate : BOOLEAN]
    BY <1>1 DEF InitialLogger
  <1>3. QED
    BY <1>1, <1>2, LogAssumption DEF Init, LogTyping, StartedOnly, LogTypeOK, SomePhase

LEMMA TypeSetup ==
    ASSUME LogTyping, NEW m \in Manager,
           SaveLogger(m) \/ ClearLogger(m) \/ AddHandler(m) \/ StartListener(m)
    PROVE  LogTyping'
  <1> USE DEF LogTyping, StartedOnly, LogTypeOK, GoTo, SomePhase, loggerVars, listenerVars,
              queueVars, stopVars
  <1>1. CASE SaveLogger(m)
    BY <1>1 DEF SaveLogger
  <1>2. CASE ClearLogger(m)
    BY <1>2 DEF ClearLogger
  <1>3. CASE AddHandler(m)
    <2>1. logger' \in [handlers : Seq(Manager), propagate : BOOLEAN]
      <3>1. Append(logger.handlers, m) \in Seq(Manager)
        BY AppendOf
      <3>2. ASSUME NEW s \in Seq(Manager)
            PROVE  [logger EXCEPT !.handlers = s] \in [handlers : Seq(Manager), propagate : BOOLEAN]
        OBVIOUS
      <3>3. QED
        BY <1>3, <3>1, <3>2 DEF AddHandler
    <2>2. phase' \in [Manager -> SomePhase]
      BY <1>3 DEF AddHandler
    <2>3. QED
      BY <1>3, <2>1, <2>2 DEF AddHandler
  <1>4. CASE StartListener(m)
    BY <1>4 DEF StartListener
  <1>5. QED
    BY <1>1, <1>2, <1>3, <1>4

LEMMA TypeRecords ==
    ASSUME LogTyping,
           \/ \E m \in Manager : Feed(m) \/ FeedFromWorker(m) \/ WorkerKilled(m)
           \/ \E r \in MainRecord : MainLogs(r)
           \/ \E r \in WorkerRecord : WorkerLogs(r)
    PROVE  LogTyping'
  <1> USE DEF LogTyping, StartedOnly, LogTypeOK, Queued, Record, loggerVars, listenerVars,
              queueVars, stopVars
  <1>1. ASSUME NEW m \in Manager, Feed(m) PROVE LogTyping'
    <2>1. /\ Head(buffer[m]) \in Record \cup {Sentinel}
          /\ Tail(buffer[m]) \in Queued
      BY <1>1, TailOf DEF Feed
    <2>2. /\ Append(pipe[m], Head(buffer[m])) \in Queued
          /\ Len(Append(pipe[m], Head(buffer[m]))) = Len(pipe[m]) + 1
      BY <2>1, AppendOf
    <2>3. Len(pipe[m]) + 1 <= PipeCapacity
      BY <1>1, LogAssumption DEF Feed, Room
    <2>4. QED
      BY <1>1, <2>1, <2>2, <2>3 DEF Feed
  <1>2. ASSUME NEW m \in Manager, FeedFromWorker(m) PROVE LogTyping'
    <2>1. /\ Head(workerBuf[m]) \in WorkerRecord
          /\ Tail(workerBuf[m]) \in Seq(WorkerRecord)
      BY <1>2, TailOf DEF FeedFromWorker
    <2>2. /\ Append(pipe[m], Head(workerBuf[m])) \in Queued
          /\ Len(Append(pipe[m], Head(workerBuf[m]))) = Len(pipe[m]) + 1
      BY <2>1, AppendOf
    <2>3. Len(pipe[m]) + 1 <= PipeCapacity
      BY <1>2, LogAssumption DEF FeedFromWorker, Room
    <2>4. QED
      BY <1>2, <2>1, <2>2, <2>3 DEF FeedFromWorker
  <1>3. ASSUME NEW m \in Manager, WorkerKilled(m) PROVE LogTyping'
    BY <1>3 DEF WorkerKilled
  <1>4. ASSUME NEW r \in MainRecord, MainLogs(r) PROVE LogTyping'
    <2>1. \A k \in Manager : Append(buffer[k], r) \in Queued
      BY AppendOf
    <2>2. QED
      BY <1>4, <2>1 DEF MainLogs, Enqueue
  <1>5. ASSUME NEW r \in WorkerRecord, WorkerLogs(r) PROVE LogTyping'
    <2>1. QueueOf[r] \in Manager
      BY LogAssumption
    <2>2. Append(workerBuf[QueueOf[r]], r) \in Seq(WorkerRecord)
      BY <2>1, AppendOf
    <2>3. QED
      BY <1>5, <2>1, <2>2 DEF WorkerLogs, Enqueue
  <1>6. QED
    BY <1>1, <1>2, <1>3, <1>4, <1>5

LEMMA TypeListener ==
    ASSUME LogTyping, NEW m \in Manager, ListenerStep(m)
    PROVE  LogTyping'
  <1> USE LogAssumption DEF LogTyping, StartedOnly, LogTypeOK, loggerVars, listenerVars, queueVars,
                            stopVars
  <1>1. CASE Take(m)
    <2>1. /\ Head(pipe[m]) \in Record \cup {Sentinel}
          /\ Tail(pipe[m]) \in Queued
          /\ Len(Tail(pipe[m])) <= PipeCapacity
      BY <1>1, TailOf DEF Take, Queued
    <2>2. pipe' \in [Manager -> Queued] /\ \A k \in Manager : Len(pipe'[k]) <= PipeCapacity
      BY <1>1, <2>1 DEF Take
    <2>3. /\ listener' \in [Manager ->
                {"unstarted", "polling", "routing", "writing", "ended", "failed"}]
          /\ inHand' \in [Manager -> Record \cup {None}]
          /\ \A k \in Manager :
                /\ inHand'[k] = None <=> listener'[k] \notin {"routing", "writing"}
                /\ k \in started <=> listener'[k] # "unstarted"
      <3>1. CASE Head(pipe[m]) = Sentinel
        <4>1. listener' = [listener EXCEPT ![m] = "ended"] /\ inHand' = inHand
          BY <1>1, <3>1 DEF Take
        <4>2. QED
          BY <1>1, <4>1 DEF Take
      <3>2. CASE Head(pipe[m]) # Sentinel
        <4>1. /\ listener' = [listener EXCEPT ![m] = "routing"]
              /\ inHand' = [inHand EXCEPT ![m] = Head(pipe[m])]
          BY <1>1, <3>2 DEF Take
        <4>2. Head(pipe[m]) \in Record /\ Head(pipe[m]) # None
          BY <2>1, <3>2
        <4>3. QED
          BY <1>1, <4>1, <4>2 DEF Take
      <3>3. QED
        BY <3>1, <3>2
    <2>4. UNCHANGED <<table, open, buffer, workerBuf, logged, phase, started, due,
                      timedOut, logger, saved, stack, nested>>
      BY <1>1 DEF Take
    <2>5. QED
      BY <2>2, <2>3, <2>4
  <1>2. CASE PollClosedQueue(m)
    BY <1>2 DEF PollClosedQueue
  <1>3. CASE GetFileHandler(m)
    <2>1. /\ listener[m] = "routing" /\ inHand[m] \in Record
          /\ listener' = [listener EXCEPT ![m] = "writing"]
          /\ table' = [table EXCEPT ![m] = @ \cup {KeyOf[inHand[m]]}]
      BY <1>3 DEF GetFileHandler
    <2>2. KeyOf[inHand[m]] \in Key
      BY <2>1
    <2>3. table' \in [Manager -> SUBSET Key]
      BY <2>1, <2>2
    <2>4. UNCHANGED <<inHand, open, queueVars, stopVars, loggerVars>>
      BY <1>3 DEF GetFileHandler
    <2>5. QED
      BY <2>1, <2>3, <2>4
  <1>4. CASE FactoryFails(m)
    BY <1>4 DEF FactoryFails
  <1>5. CASE Write(m)
    BY <1>5 DEF Write, Record
  <1>6. QED
    BY <1>1, <1>2, <1>3, <1>4, <1>5 DEF ListenerStep

LEMMA TypeStop ==
    ASSUME LogTyping, NEW m \in Manager, StopBegin(m) \/ StopStep(m) \/ JoinTimesOut(m)
    PROVE  LogTyping'
  <1> USE DEF LogTyping, StartedOnly, LogTypeOK, GoTo, SomePhase, loggerVars, listenerVars,
              queueVars, stopVars
  <1>1. CASE StopBegin(m)
    <2>1. Append(buffer[m], Sentinel) \in Queued
      BY DEF Queued
    <2>2. OnQueue(m) \in SUBSET Record
      BY DEF OnQueue
    <2> HIDE DEF Queued
    <2>3. CASE ListenerAlive(m)
      <3>1. /\ phase' = [phase EXCEPT ![m] = "join"]
            /\ buffer' = [buffer EXCEPT ![m] = Append(@, Sentinel)]
            /\ due' = [due EXCEPT ![m] = OnQueue(m)]
        BY <1>1, <2>3, Zenon DEF StopBegin, Enqueue
      <3>2. /\ buffer' \in [Manager -> Queued] /\ due' \in [Manager -> SUBSET Record]
            /\ phase' \in [Manager -> SomePhase]
        BY <2>1, <2>2, <3>1
      <3>3. UNCHANGED <<workerBuf, pipe, logged, started, timedOut, loggerVars, listenerVars>>
        BY <1>1 DEF StopBegin
      <3>4. QED
        BY <3>2, <3>3
    <2>4. CASE ~ListenerAlive(m)
      BY <1>1, <2>4 DEF StopBegin
    <2>5. QED
      BY <2>3, <2>4
  <1>2. CASE JoinEnds(m)
    BY <1>2 DEF JoinEnds
  <1>3. CASE JoinTimesOut(m)
    BY <1>3 DEF JoinTimesOut
  <1>4. CASE CloseFiles(m)
    BY <1>4 DEF CloseFiles
  <1>5. CASE RestoreLogger(m)
    <2>1. Front(stack) \in Seq(Manager)
      BY FrontOf
    <2>2. (nested /\ Last(stack) = m) \in BOOLEAN
      OBVIOUS
    <2>3. QED
      BY <1>5, <2>1, <2>2 DEF RestoreLogger, Found
  <1>6. CASE JoinThread(m)
    BY <1>6 DEF JoinThread
  <1>7. QED
    BY <1>1, <1>2, <1>3, <1>4, <1>5, <1>6 DEF StopStep

LEMMA TypeStep == LogTyping /\ [Next]_vars => LogTyping'
  <1> SUFFICES ASSUME LogTyping, [Next]_vars PROVE LogTyping'
    OBVIOUS
  <1>1. CASE Next
    BY <1>1, TypeSetup, TypeRecords, TypeListener, TypeStop DEF Next, ManagerStep
  <1>2. CASE UNCHANGED vars
    BY <1>2 DEF LogTyping, StartedOnly, LogTypeOK, vars, loggerVars, listenerVars, queueVars, stopVars
  <1>3. QED
    BY <1>1, <1>2

\* The state is well typed in every behaviour: a listener has a record in its
\* hand exactly while it handles one (RoutingQueueListener._run), and no pipe
\* ever holds more than its capacity.
THEOREM LogTypeCorrect == Spec => []LogTypeOK
  <1>1. QED
    BY TypeInit, TypeStep, PTL DEF Spec, LogTyping
-----------------------------------------------------------------------------
(* Files.  A listener that lives outside the time of its manager is one    *)
(* whose stop timed out; every other one has each open file in its table,  *)
(* so that CloseFiles closes all of them.                                  *)
FilesInv ==
    \A m \in Manager :
       /\ listener[m] = "unstarted" => open[m] = {}
       /\ ListenerAlive(m) => phase[m] \in {"ready", "join"} \/ m \in timedOut
       /\ open[m] \subseteq table[m] \/ m \in timedOut
       /\ listener[m] = "writing" => KeyOf[inHand[m]] \in table[m] \/ m \in timedOut
       /\ phase[m] \in {"restore", "joinThread", "stopped"} =>
             m \in timedOut \/ open[m] = {}

LEMMA FilesManager ==
    ASSUME LogTyping, FilesInv, NEW m \in Manager, ManagerStep(m)
    PROVE  FilesInv'
  <1> USE DEF LogTyping, StartedOnly, LogTypeOK, FilesInv, GoTo, ListenerAlive,
              loggerVars, listenerVars, queueVars, stopVars
  <1>1. CASE SaveLogger(m) \/ ClearLogger(m) \/ AddHandler(m)
    BY <1>1 DEF SaveLogger, ClearLogger, AddHandler
  <1>2. CASE StartListener(m)
    BY <1>2 DEF StartListener
  <1>3. CASE StopBegin(m)
    <2>1. UNCHANGED <<listener, inHand, table, open, timedOut>>
      BY <1>3 DEF StopBegin
    <2>2. CASE ListenerAlive(m)
      <3>1. phase' = [phase EXCEPT ![m] = "join"]
        BY <1>3, <2>2, Zenon DEF StopBegin
      <3>2. QED
        BY <2>1, <3>1
    <2>3. CASE ~ListenerAlive(m)
      <3>1. phase' = [phase EXCEPT ![m] = IF m \in started THEN "close" ELSE "restore"]
        BY <1>3, <2>3, Zenon DEF StopBegin
      <3>2. m \notin started => open[m] = {}
        OBVIOUS
      <3>3. QED
        BY <2>1, <2>3, <3>1, <3>2
    <2>4. QED
      BY <2>2, <2>3
  <1>4. CASE JoinEnds(m)
    BY <1>4 DEF JoinEnds
  <1>5. CASE JoinTimesOut(m)
    BY <1>5 DEF JoinTimesOut
  <1>6. CASE CloseFiles(m)
    BY <1>6 DEF CloseFiles
  <1>7. CASE RestoreLogger(m)
    BY <1>7 DEF RestoreLogger
  <1>8. CASE JoinThread(m)
    BY <1>8 DEF JoinThread
  <1>9. QED
    BY <1>1, <1>2, <1>3, <1>4, <1>5, <1>6, <1>7, <1>8 DEF ManagerStep, StopStep

LEMMA FilesListener ==
    ASSUME LogTyping, FilesInv, NEW m \in Manager, ListenerStep(m)
    PROVE  FilesInv'
  <1> USE DEF LogTyping, LogTypeOK, FilesInv, ListenerAlive,
              loggerVars, listenerVars, queueVars, stopVars
  <1>1. CASE Take(m)
    BY <1>1 DEF Take
  <1>2. CASE PollClosedQueue(m)
    BY <1>2 DEF PollClosedQueue
  <1>3. CASE GetFileHandler(m)
    BY <1>3 DEF GetFileHandler
  <1>4. CASE FactoryFails(m)
    BY <1>4 DEF FactoryFails
  <1>5. CASE Write(m)
    BY <1>5 DEF Write
  <1>6. QED
    BY <1>1, <1>2, <1>3, <1>4, <1>5 DEF ListenerStep

LEMMA FilesRecords ==
    ASSUME FilesInv,
           \/ \E m \in Manager : Feed(m) \/ FeedFromWorker(m) \/ WorkerKilled(m)
           \/ \E r \in MainRecord : MainLogs(r)
           \/ \E r \in WorkerRecord : WorkerLogs(r)
           \/ UNCHANGED vars
    PROVE  FilesInv'
  <1>1. UNCHANGED <<stopVars, listenerVars>>
    BY Zenon DEF Feed, FeedFromWorker, WorkerKilled, MainLogs, WorkerLogs, vars
  <1>2. QED
    BY <1>1 DEF FilesInv, ListenerAlive, stopVars, listenerVars

\* MainLogManager.stop closes every handler of the listener: when it has, no
\* log file is open, unless it gave up waiting for the listener's thread.
THEOREM FilesAreClosed == Spec => []FilesClosed
  <1>1. Init => FilesInv
    BY DEF Init, FilesInv, ListenerAlive
  <1>2. LogTyping /\ FilesInv /\ [Next]_vars => FilesInv'
    BY FilesManager, FilesListener, FilesRecords DEF Next
  <1>3. FilesInv => FilesClosed
    BY DEF FilesInv, FilesClosed
  <1>4. QED
    BY <1>1, <1>2, <1>3, TypeInit, TypeStep, PTL DEF Spec

-----------------------------------------------------------------------------
(* Records that are due.  Each of them is ahead of every sentinel, so the  *)
(* listener takes it before it takes the sentinel and ends.                *)
Ahead(s, r) == \E i \in 1 .. Len(s) : s[i] = r /\ \A j \in 1 .. Len(s) : s[j] = Sentinel => i < j

NoSentinel(s) == \A i \in 1 .. Len(s) : s[i] # Sentinel

LEMMA AheadAppend ==
    ASSUME NEW s \in Queued, NEW x \in Record \cup {Sentinel}, NEW r
    PROVE  /\ Ahead(s, r) => Ahead(Append(s, x), r)
           /\ NoSentinel(s) /\ x # Sentinel => NoSentinel(Append(s, x))
           /\ NoSentinel(s) /\ x = r /\ x # Sentinel => Ahead(Append(s, x), r)
  <1> DEFINE t == Append(s, x)
  <1>1. /\ Len(t) = Len(s) + 1 /\ Len(s) \in Nat
        /\ t[Len(s) + 1] = x
        /\ \A i \in 1 .. Len(s) : t[i] = s[i]
    BY AppendOf DEF Queued
  <1>2. Ahead(s, r) => Ahead(t, r)
    <2> HIDE DEF t
    <2> SUFFICES ASSUME Ahead(s, r) PROVE Ahead(t, r)
      OBVIOUS
    <2>1. PICK i \in 1 .. Len(s) :
             s[i] = r /\ \A j \in 1 .. Len(s) : s[j] = Sentinel => i < j
      BY DEF Ahead
    <2>2. i \in 1 .. Len(t) /\ t[i] = r
      BY <1>1, <2>1
    <2>3. \A j \in 1 .. Len(t) : t[j] = Sentinel => i < j
      BY <1>1, <2>1
    <2>4. QED
      BY <2>2, <2>3 DEF Ahead
  <1>3. NoSentinel(s) /\ x # Sentinel => NoSentinel(t)
    <2> HIDE DEF t
    <2>1. QED
      BY <1>1 DEF NoSentinel
  <1>4. NoSentinel(s) /\ x = r /\ x # Sentinel => Ahead(t, r)
    <2> HIDE DEF t
    <2> SUFFICES ASSUME NoSentinel(s), x = r, x # Sentinel PROVE Ahead(t, r)
      OBVIOUS
    <2>1. Len(t) \in 1 .. Len(t) /\ t[Len(t)] = r
      BY <1>1
    <2>2. \A j \in 1 .. Len(t) : t[j] # Sentinel
      BY <1>1 DEF NoSentinel
    <2>3. QED
      BY <2>1, <2>2 DEF Ahead
  <1>5. QED
    BY <1>2, <1>3, <1>4

LEMMA AheadTail ==
    ASSUME NEW s \in Queued, s # <<>>, NEW r
    PROVE  /\ Ahead(s, r) => Head(s) # Sentinel \/ r = Sentinel
           /\ Ahead(s, r) /\ Head(s) # r => Head(s) # Sentinel /\ Ahead(Tail(s), r)
           /\ NoSentinel(s) => Head(s) # Sentinel /\ NoSentinel(Tail(s))
  <1> DEFINE t == Tail(s)
  <1>1. /\ Head(s) = s[1] /\ Len(s) \in Nat \ {0} /\ Len(t) = Len(s) - 1
        /\ \A i \in 1 .. Len(s) - 1 : t[i] = s[i + 1]
    BY TailOf DEF Queued
  <1> HIDE DEF t
  <1>2. Ahead(s, r) => Head(s) # Sentinel \/ r = Sentinel
    BY <1>1 DEF Ahead
  <1>3. ASSUME Ahead(s, r), Head(s) # r PROVE Head(s) # Sentinel /\ Ahead(t, r)
    <2>1. PICK i \in 1 .. Len(s) :
             s[i] = r /\ \A j \in 1 .. Len(s) : s[j] = Sentinel => i < j
      BY <1>3 DEF Ahead
    <2>2. i - 1 \in 1 .. Len(t) /\ t[i - 1] = r
      BY <1>1, <1>3, <2>1
    <2>3. \A j \in 1 .. Len(t) : t[j] = Sentinel => i - 1 < j
      <3> SUFFICES ASSUME NEW j \in 1 .. Len(t), t[j] = Sentinel PROVE i - 1 < j
        OBVIOUS
      <3>1. j + 1 \in 1 .. Len(s) /\ s[j + 1] = Sentinel
        BY <1>1
      <3>2. QED
        BY <2>1, <3>1
    <2>4. s[1] # Sentinel
      BY <1>1, <2>1
    <2>5. QED
      BY <1>1, <2>2, <2>3, <2>4 DEF Ahead
  <1>4. NoSentinel(s) => Head(s) # Sentinel /\ NoSentinel(t)
    BY <1>1 DEF NoSentinel
  <1>5. QED
    BY <1>2, <1>3, <1>4 DEF t

LEMMA AheadIn ==
    ASSUME NEW s \in Queued, NEW r
    PROVE  r \in Range(s) /\ NoSentinel(s) => Ahead(s, r)
  <1>1. DOMAIN s = 1 .. Len(s)
    BY DEF Queued
  <1>2. QED
    BY <1>1 DEF Range, NoSentinel, Ahead

\* Where a record that is due can be while the listener lives.
Reachable(hand, ahead, behind, r) ==
    r = hand \/ Ahead(ahead, r) \/ (NoSentinel(ahead) /\ Ahead(behind, r))

DueInv ==
    \A m \in Manager :
       /\ phase[m] \in {"new", "saved", "cleared", "ready"} =>
             due[m] = {} /\ NoSentinel(buffer[m]) /\ NoSentinel(pipe[m])
       /\ listener[m] = "ended" => due[m] = {}
       /\ ListenerAlive(m) =>
             \A r \in due[m] : Reachable(inHand[m], pipe[m], buffer[m], r)

\* What the feeder thread does to a queue.
LEMMA FeederKeeps ==
    ASSUME NEW p \in Queued, NEW b \in Queued, b # <<>>
    PROVE  /\ NoSentinel(b) /\ NoSentinel(p) =>
                 NoSentinel(Tail(b)) /\ NoSentinel(Append(p, Head(b)))
           /\ \A h, r : r # Sentinel /\ Reachable(h, p, b, r) =>
                           Reachable(h, Append(p, Head(b)), Tail(b), r)
  <1>1. Head(b) \in Record \cup {Sentinel}
    BY TailOf DEF Queued
  <1>2. NoSentinel(b) /\ NoSentinel(p) =>
           NoSentinel(Tail(b)) /\ NoSentinel(Append(p, Head(b)))
    BY <1>1, AheadTail, AheadAppend
  <1>3. ASSUME NEW h, NEW r, r # Sentinel, Reachable(h, p, b, r)
        PROVE  Reachable(h, Append(p, Head(b)), Tail(b), r)
    <2>1. CASE r = h \/ Ahead(p, r)
      BY <1>1, <2>1, AheadAppend DEF Reachable
    <2>2. CASE NoSentinel(p) /\ Ahead(b, r)
      <3>1. Head(b) # Sentinel
        BY <1>3, <2>2, AheadTail
      <3>2. Head(b) = r => Ahead(Append(p, Head(b)), r)
        BY <1>1, <2>2, <3>1, AheadAppend
      <3>3. Head(b) # r => NoSentinel(Append(p, Head(b))) /\ Ahead(Tail(b), r)
        BY <1>1, <2>2, <3>1, AheadAppend, AheadTail
      <3>4. QED
        BY <3>2, <3>3 DEF Reachable
    <2>3. QED
      BY <1>3, <2>1, <2>2 DEF Reachable
  <1>4. QED
    BY <1>2, <1>3

\* What a record does that is put behind the others, on either side.
LEMMA RecordKeeps ==
    ASSUME NEW p \in Queued, NEW b \in Queued, NEW x \in Record
    PROVE  /\ NoSentinel(b) => NoSentinel(Append(b, x))
           /\ NoSentinel(p) => NoSentinel(Append(p, x))
           /\ \A h, r : Reachable(h, p, b, r) =>
                 Reachable(h, p, Append(b, x), r) /\ Reachable(h, Append(p, x), b, r)
  <1>1. x # Sentinel
    BY LogAssumption
  <1>2. QED
    BY <1>1, AheadAppend DEF Reachable

\* Taking the first item off the pipe.
LEMMA TakeKeeps ==
    ASSUME NEW p \in Queued, NEW b \in Queued, p # <<>>
    PROVE  /\ NoSentinel(p) => NoSentinel(Tail(p))
           /\ \A r \in Record : Reachable(None, p, b, r) =>
                 Head(p) # Sentinel /\ Reachable(Head(p), Tail(p), b, r)
  <1>1. NoSentinel(p) => Head(p) # Sentinel /\ NoSentinel(Tail(p))
    BY AheadTail
  <1>2. ASSUME NEW r \in Record, Reachable(None, p, b, r)
        PROVE  Head(p) # Sentinel /\ Reachable(Head(p), Tail(p), b, r)
    <2>1. r # None /\ r # Sentinel
      BY LogAssumption
    <2>2. CASE Ahead(p, r)
      BY <2>1, <2>2, AheadTail DEF Reachable
    <2>3. CASE NoSentinel(p) /\ Ahead(b, r)
      BY <1>1, <2>3 DEF Reachable
    <2>4. QED
      BY <1>2, <2>1, <2>2, <2>3 DEF Reachable
  <1>3. QED
    BY <1>1, <1>2

\* The sentinel is put behind everything that is due.
LEMMA SentinelBehind ==
    ASSUME LogTyping, NEW m \in Manager, NoSentinel(buffer[m]), NoSentinel(pipe[m]),
           NEW r \in OnQueue(m)
    PROVE  Reachable(inHand[m], pipe[m], Append(buffer[m], Sentinel), r)
  <1>1. buffer[m] \in Queued /\ pipe[m] \in Queued
    BY DEF LogTyping, LogTypeOK
  <1>2. CASE r = inHand[m]
    BY <1>2 DEF Reachable
  <1>3. CASE r \in Range(pipe[m])
    BY <1>1, <1>3, AheadIn DEF Reachable
  <1>4. CASE r \in Range(buffer[m])
    <2>1. Ahead(buffer[m], r)
      BY <1>1, <1>4, AheadIn
    <2>2. Ahead(Append(buffer[m], Sentinel), r)
      BY <1>1, <2>1, AheadAppend
    <2>3. QED
      BY <2>2 DEF Reachable
  <1>5. QED
    BY <1>2, <1>3, <1>4 DEF OnQueue

LEMMA DueManager ==
    ASSUME LogTyping, DueInv, NEW m \in Manager, ManagerStep(m)
    PROVE  DueInv'
  <1> USE DEF LogTyping, LogTypeOK, StartedOnly, DueInv, GoTo, ListenerAlive,
              loggerVars, listenerVars, queueVars, stopVars
  <1>1. CASE SaveLogger(m) \/ ClearLogger(m) \/ AddHandler(m)
    BY <1>1 DEF SaveLogger, ClearLogger, AddHandler
  <1>2. CASE StartListener(m)
    BY <1>2 DEF StartListener
  <1>3. CASE StopBegin(m)
    <2>1. CASE ListenerAlive(m)
      <3>1. /\ phase' = [phase EXCEPT ![m] = "join"]
            /\ buffer' = [buffer EXCEPT ![m] = Append(@, Sentinel)]
            /\ due' = [due EXCEPT ![m] = OnQueue(m)]
            /\ UNCHANGED <<pipe, inHand, listener>>
            /\ phase[m] = "ready"
        BY <1>3, <2>1, Zenon DEF StopBegin, Enqueue
      <3>2. \A r \in OnQueue(m) : Reachable(inHand[m], pipe[m], Append(buffer[m], Sentinel), r)
        BY <3>1, SentinelBehind
      <3>3. QED
        BY <2>1, <3>1, <3>2
    <2>2. CASE ~ListenerAlive(m)
      BY <1>3, <2>2 DEF StopBegin
    <2>3. QED
      BY <2>1, <2>2
  <1>4. CASE JoinEnds(m)
    BY <1>4 DEF JoinEnds
  <1>5. CASE JoinTimesOut(m)
    BY <1>5 DEF JoinTimesOut
  <1>6. CASE CloseFiles(m)
    BY <1>6 DEF CloseFiles
  <1>7. CASE RestoreLogger(m)
    BY <1>7 DEF RestoreLogger
  <1>8. CASE JoinThread(m)
    BY <1>8 DEF JoinThread
  <1>9. QED
    BY <1>1, <1>2, <1>3, <1>4, <1>5, <1>6, <1>7, <1>8 DEF ManagerStep, StopStep

LEMMA DueListener ==
    ASSUME LogTyping, DueInv, NEW m \in Manager, ListenerStep(m)
    PROVE  DueInv'
  <1> USE DEF LogTyping, LogTypeOK, DueInv, ListenerAlive,
              loggerVars, listenerVars, queueVars, stopVars
  <1>1. CASE Take(m)
    <2>1. /\ listener[m] = "polling" /\ pipe[m] # <<>> /\ inHand[m] = None
          /\ pipe' = [pipe EXCEPT ![m] = Tail(@)]
          /\ UNCHANGED <<buffer, due, phase>>
      BY <1>1 DEF Take
    <2>2. /\ NoSentinel(pipe[m]) => NoSentinel(Tail(pipe[m]))
          /\ \A r \in due[m] : /\ Head(pipe[m]) # Sentinel
                               /\ Reachable(Head(pipe[m]), Tail(pipe[m]), buffer[m], r)
      BY <2>1, TakeKeeps
    <2>3. CASE Head(pipe[m]) = Sentinel
      <3>1. listener' = [listener EXCEPT ![m] = "ended"] /\ inHand' = inHand
        BY <1>1, <2>3 DEF Take
      <3>2. due[m] = {}
        BY <2>2, <2>3
      <3>3. QED
        BY <2>1, <2>2, <3>1, <3>2
    <2>4. CASE Head(pipe[m]) # Sentinel
      <3>1. /\ listener' = [listener EXCEPT ![m] = "routing"]
            /\ inHand' = [inHand EXCEPT ![m] = Head(pipe[m])]
        BY <1>1, <2>4 DEF Take
      <3>2. QED
        BY <2>1, <2>2, <3>1
    <2>5. QED
      BY <2>3, <2>4
  <1>2. CASE PollClosedQueue(m)
    BY <1>2 DEF PollClosedQueue
  <1>3. CASE GetFileHandler(m)
    BY <1>3 DEF GetFileHandler
  <1>4. CASE FactoryFails(m)
    BY <1>4 DEF FactoryFails
  <1>5. CASE Write(m)
    <2>1. \A r \in due[m] \ {inHand[m]} : Reachable(None, pipe[m], buffer[m], r)
      BY <1>5 DEF Reachable, Write
    <2>2. QED
      BY <1>5, <2>1 DEF Write
  <1>6. QED
    BY <1>1, <1>2, <1>3, <1>4, <1>5 DEF ListenerStep

LEMMA DueRecords ==
    ASSUME LogTyping, DueInv,
           \/ \E m \in Manager : Feed(m) \/ FeedFromWorker(m) \/ WorkerKilled(m)
           \/ \E r \in MainRecord : MainLogs(r)
           \/ \E r \in WorkerRecord : WorkerLogs(r)
    PROVE  DueInv'
  <1> USE DEF LogTyping, LogTypeOK, DueInv, ListenerAlive,
              loggerVars, listenerVars, queueVars, stopVars
  <1>1. ASSUME NEW m \in Manager, Feed(m) PROVE DueInv'
    <2>1. /\ buffer[m] \in Queued /\ pipe[m] \in Queued /\ buffer[m] # <<>>
          /\ \A r \in due[m] : r # Sentinel
      BY <1>1, LogAssumption DEF Feed
    <2>2. /\ NoSentinel(buffer[m]) /\ NoSentinel(pipe[m]) =>
                NoSentinel(Tail(buffer[m])) /\ NoSentinel(Append(pipe[m], Head(buffer[m])))
          /\ \A r \in due[m] : Reachable(inHand[m], pipe[m], buffer[m], r) =>
                Reachable(inHand[m], Append(pipe[m], Head(buffer[m])), Tail(buffer[m]), r)
      BY <2>1, FeederKeeps
    <2>3. QED
      BY <1>1, <2>2 DEF Feed
  <1>2. ASSUME NEW m \in Manager, FeedFromWorker(m) PROVE DueInv'
    <2>1. /\ buffer[m] \in Queued /\ pipe[m] \in Queued
          /\ Head(workerBuf[m]) \in Record
      BY <1>2, TailOf DEF FeedFromWorker, Record
    <2>2. /\ NoSentinel(pipe[m]) => NoSentinel(Append(pipe[m], Head(workerBuf[m])))
          /\ \A r \in due[m] : Reachable(inHand[m], pipe[m], buffer[m], r) =>
                Reachable(inHand[m], Append(pipe[m], Head(workerBuf[m])), buffer[m], r)
      BY <2>1, RecordKeeps
    <2>3. QED
      BY <1>2, <2>2 DEF FeedFromWorker
  <1>3. ASSUME NEW m \in Manager, WorkerKilled(m) PROVE DueInv'
    BY <1>3 DEF WorkerKilled
  <1>4. ASSUME NEW x \in MainRecord, MainLogs(x) PROVE DueInv'
    <2>1. /\ UNCHANGED <<pipe, inHand, listener, due, phase>>
          /\ \A k \in Manager : buffer'[k] = buffer[k] \/ buffer'[k] = Append(buffer[k], x)
      BY <1>4 DEF MainLogs, Enqueue
    <2>2. ASSUME NEW k \in Manager
          PROVE  /\ NoSentinel(buffer[k]) => NoSentinel(buffer'[k])
                 /\ \A r : Reachable(inHand[k], pipe[k], buffer[k], r) =>
                       Reachable(inHand[k], pipe[k], buffer'[k], r)
      <3>1. CASE buffer'[k] = buffer[k]
        BY <3>1
      <3>2. CASE buffer'[k] = Append(buffer[k], x)
        <4>1. buffer[k] \in Queued /\ pipe[k] \in Queued /\ x \in Record
          BY DEF Record
        <4>2. QED
          BY <3>2, <4>1, RecordKeeps
      <3>3. QED
        BY <2>1, <3>1, <3>2
    <2>3. QED
      BY <2>1, <2>2
  <1>5. ASSUME NEW r \in WorkerRecord, WorkerLogs(r) PROVE DueInv'
    BY <1>5 DEF WorkerLogs
  <1>6. QED
    BY <1>1, <1>2, <1>3, <1>4, <1>5

\* MainLogManager.stop loses nothing: when the listener has found the sentinel
\* and ended, every record that was on the queue before the sentinel is
\* written -- in whatever order the feeders of the processes filled the pipe.
THEOREM StopLosesNothing == Spec => []DueHandled
  <1>1. Init => DueInv
    <2>1. NoSentinel(<<>>)
      BY DEF NoSentinel
    <2>2. QED
      BY <2>1 DEF Init, DueInv, ListenerAlive
  <1>2. LogTyping /\ DueInv /\ [Next]_vars => DueInv'
    <2> SUFFICES ASSUME LogTyping, DueInv, [Next]_vars PROVE DueInv'
      OBVIOUS
    <2>1. CASE UNCHANGED vars
      BY <2>1 DEF DueInv, ListenerAlive, vars, loggerVars, listenerVars, queueVars, stopVars
    <2>2. QED
      BY <2>1, DueManager, DueListener, DueRecords DEF Next
  <1>3. DueInv => DueHandled
    BY DEF DueInv, DueHandled
  <1>4. QED
    BY <1>1, <1>2, <1>3, TypeInit, TypeStep, PTL DEF Spec

-----------------------------------------------------------------------------
(* The logger.  While the managers nest, those that are set up and not yet *)
(* stopped are on the stack, each has saved what its predecessor made of   *)
(* the logger, and only the youngest can be in the middle of its setup.    *)
Belongs(m) == [handlers |-> <<m>>, propagate |-> FALSE]

Bare == [handlers |-> <<>>, propagate |-> FALSE]

\* A manager that is set up and not yet stopped is on the stack.
OnStack ==
    \A m \in Manager : phase[m] \notin {"new", "joinThread", "stopped"} =>
       \E i \in 1 .. Len(stack) : stack[i] = m

StackAt(i) ==
    /\ phase[stack[i]] # "new"
    /\ phase[stack[i]] \in {"saved", "cleared"} => i = Len(stack)
    /\ saved[stack[i]] = IF i = 1 THEN InitialLogger ELSE Belongs(stack[i - 1])

\* What the youngest manager, as far as it is set up, made of the logger.
LoggerOf(m) ==
    /\ phase[m] = "saved" => logger = saved[m]
    /\ phase[m] = "cleared" => logger = Bare
    /\ phase[m] \notin {"saved", "cleared"} => logger = Belongs(m)

NestInv ==
    nested =>
       /\ OnStack
       /\ \A i \in 1 .. Len(stack) : StackAt(i)
       /\ stack = <<>> => logger = InitialLogger
       /\ stack # <<>> => LoggerOf(stack[Len(stack)])

LEMMA StackType ==
    ASSUME LogTyping
    PROVE  /\ Len(stack) \in Nat /\ (stack = <<>> <=> Len(stack) = 0)
           /\ \A i \in 1 .. Len(stack) : stack[i] \in Manager
           /\ phase \in [Manager -> SomePhase]
           /\ saved \in [Manager -> [handlers : Seq(Manager), propagate : BOOLEAN]]
  BY DEF LogTyping, LogTypeOK

LEMMA NestSave ==
    ASSUME LogTyping, NestInv, NEW m \in Manager, SaveLogger(m)
    PROVE  NestInv'
  <1> DEFINE n == Len(stack)
  <1>1. /\ phase[m] = "new" /\ phase' = [phase EXCEPT ![m] = "saved"]
        /\ saved' = [saved EXCEPT ![m] = logger]
        /\ stack' = Append(stack, m) /\ nested' = (nested /\ SettingUp = {})
        /\ logger' = logger
    BY DEF SaveLogger, GoTo
  <1>2. /\ n \in Nat /\ Len(stack') = n + 1 /\ stack'[n + 1] = m
        /\ \A i \in 1 .. n : stack'[i] = stack[i] /\ stack[i] \in Manager
        /\ stack = <<>> <=> n = 0
        /\ stack' # <<>>
    <2>1. stack \in Seq(Manager)
      BY DEF LogTyping, LogTypeOK
    <2>2. \A i \in 1 .. n : stack[i] \in Manager
      BY StackType
    <2>3. n \in Nat /\ (stack = <<>> <=> n = 0)
      BY StackType
    <2>4. /\ Len(Append(stack, m)) = n + 1 /\ Append(stack, m)[n + 1] = m
          /\ \A i \in 1 .. n : Append(stack, m)[i] = stack[i]
      BY <2>1, AppendOf
    <2>5. Append(stack, m) # <<>>
      BY <2>3, <2>4
    <2>6. QED
      BY <1>1, <2>2, <2>3, <2>4, <2>5
  <1> SUFFICES ASSUME nested, SettingUp = {} PROVE NestInv'
    BY <1>1 DEF NestInv
  <1> HIDE DEF n
  <1>3. \A i \in 1 .. n : /\ StackAt(i)
                          /\ stack[i] # m /\ phase[stack[i]] \notin {"saved", "cleared"}
    BY <1>1, <1>2 DEF NestInv, StackAt, SettingUp, n
  <1>4. logger = IF n = 0 THEN InitialLogger ELSE Belongs(stack[n])
    <2>1. CASE n = 0
      BY <1>2, <2>1 DEF NestInv
    <2>2. CASE n # 0
      <3>1. LoggerOf(stack[n]) /\ n \in 1 .. n
        BY <1>2, <2>2 DEF NestInv, n
      <3>2. QED
        BY <1>3, <2>2, <3>1 DEF LoggerOf
    <2>3. QED
      BY <2>1, <2>2
  <1>5. ASSUME NEW k \in Manager, phase'[k] \notin {"new", "joinThread", "stopped"}
        PROVE  \E i \in 1 .. n + 1 : stack'[i] = k
    <2>1. CASE k = m
      BY <1>2, <2>1
    <2>2. CASE k # m
      <3>1. phase'[k] = phase[k]
        BY <1>1, <2>2, StackType
      <3>2. PICK i \in 1 .. n : stack[i] = k
        BY <1>5, <3>1 DEF NestInv, OnStack, n
      <3>3. i \in 1 .. n + 1 /\ stack'[i] = k
        BY <1>2, <3>2
      <3>4. QED
        BY <3>3
    <2>3. QED
      BY <2>1, <2>2
  <1>6. ASSUME NEW i \in 1 .. n + 1
        PROVE  /\ phase'[stack'[i]] # "new"
               /\ phase'[stack'[i]] \in {"saved", "cleared"} => i = n + 1
               /\ saved'[stack'[i]] = IF i = 1 THEN InitialLogger ELSE Belongs(stack'[i - 1])
    <2>1. CASE i = n + 1
      <3>1. stack'[i] = m /\ phase'[m] = "saved" /\ saved'[m] = logger
        BY <1>1, <1>2, <2>1, StackType
      <3>2. n # 0 => stack'[i - 1] = stack[n]
        BY <1>2, <2>1
      <3>3. i = 1 <=> n = 0
        BY <1>2, <2>1
      <3>4. QED
        BY <1>4, <2>1, <3>1, <3>2, <3>3
    <2>2. CASE i # n + 1
      <3>1. i \in 1 .. n /\ (i # 1 => i - 1 \in 1 .. n)
        BY <1>2, <2>2
      <3>2. /\ stack'[i] = stack[i] /\ (i # 1 => stack'[i - 1] = stack[i - 1])
            /\ phase'[stack[i]] = phase[stack[i]] /\ saved'[stack[i]] = saved[stack[i]]
        BY <1>1, <1>2, <1>3, <3>1, StackType
      <3>3. QED
        BY <1>3, <3>1, <3>2 DEF StackAt
    <2>3. QED
      BY <2>1, <2>2
  <1>7. phase'[m] = "saved" /\ logger' = saved'[m]
    BY <1>1, StackType
  <1>8. OnStack'
    BY <1>2, <1>5 DEF OnStack
  <1>9. \A i \in 1 .. Len(stack') : StackAt(i)'
    BY <1>2, <1>6 DEF StackAt
  <1>10. LoggerOf(stack[Len(stack)])'
    BY <1>2, <1>7 DEF LoggerOf
  <1>11. QED
    BY <1>2, <1>8, <1>9, <1>10 DEF NestInv

\* A manager that goes from one phase of its life on the stack to another.
LEMMA NestPhase ==
    ASSUME LogTyping, NestInv, NEW m \in Manager,
           phase[m] \notin {"new", "saved", "cleared", "joinThread", "stopped"},
           phase'[m] \notin {"new", "saved", "cleared", "joinThread", "stopped"},
           \A k \in Manager \ {m} : phase'[k] = phase[k],
           UNCHANGED loggerVars
    PROVE  NestInv'
  <1>1. /\ logger' = logger /\ saved' = saved /\ stack' = stack /\ nested' = nested
    BY DEF loggerVars
  <1>2. OnStack => OnStack'
    BY <1>1 DEF OnStack
  <1>3. ASSUME NEW i \in 1 .. Len(stack), StackAt(i) PROVE StackAt(i)'
    <2>1. stack[i] \in Manager
      BY StackType
    <2>2. QED
      BY <1>1, <1>3, <2>1 DEF StackAt
  <1>4. ASSUME NEW k \in Manager, LoggerOf(k) PROVE LoggerOf(k)'
    BY <1>1, <1>4 DEF LoggerOf
  <1>5. stack # <<>> => stack[Len(stack)] \in Manager
    BY StackType
  <1>6. (stack # <<>> => LoggerOf(stack[Len(stack)])) => (stack # <<>> => LoggerOf(stack[Len(stack)]))'
    BY <1>1, <1>4, <1>5 DEF LoggerOf
  <1>7. QED
    BY <1>1, <1>2, <1>3, <1>6 DEF NestInv

LEMMA NestSetup ==
    ASSUME LogTyping, NestInv, NEW m \in Manager,
           ClearLogger(m) \/ AddHandler(m) \/ StartListener(m)
    PROVE  NestInv'
  <1>1. CASE StartListener(m)
    <2>1. UNCHANGED <<logger, saved, stack, nested, phase>>
      BY <1>1 DEF StartListener, loggerVars
    <2>2. QED
      BY <2>1 DEF NestInv, OnStack, StackAt, LoggerOf
  <1>2. CASE ClearLogger(m) \/ AddHandler(m)
    <2>1. /\ UNCHANGED <<saved, stack, nested>>
          /\ phase[m] \in {"saved", "cleared"}
          /\ phase'[m] \in {"cleared", "ready"}
          /\ \A k \in Manager \ {m} : phase'[k] = phase[k]
          /\ phase[m] = "saved" => phase'[m] = "cleared" /\ logger' = Bare
          /\ phase[m] = "cleared" => /\ phase'[m] = "ready"
                                     /\ logger' = [logger EXCEPT !.handlers = Append(@, m)]
      BY <1>2, StackType DEF ClearLogger, AddHandler, GoTo, Bare
    <2> SUFFICES ASSUME nested PROVE NestInv'
      BY <2>1 DEF NestInv
    <2>2. PICK i \in 1 .. Len(stack) : stack[i] = m
      BY <2>1 DEF NestInv, OnStack
    <2>3. i = Len(stack) /\ stack # <<>>
      BY <2>1, <2>2, StackType DEF NestInv, StackAt
    <2>4. LoggerOf(m)
      BY <2>2, <2>3 DEF NestInv
    <2>5. LoggerOf(m)'
      <3>1. CASE phase[m] = "saved"
        BY <2>1, <3>1 DEF LoggerOf
      <3>2. CASE phase[m] = "cleared"
        <4>1. logger = Bare
          BY <2>4, <3>2 DEF LoggerOf
        <4>2. logger' = [handlers |-> <<m>>, propagate |-> FALSE]
          BY <2>1, <3>2, <4>1 DEF Bare
        <4>3. QED
          BY <2>1, <3>2, <4>2 DEF LoggerOf, Belongs
      <3>3. QED
        BY <2>1, <3>1, <3>2
    <2>6. OnStack'
      BY <2>1 DEF NestInv, OnStack
    <2>7. \A j \in 1 .. Len(stack) : StackAt(j)'
      <3> SUFFICES ASSUME NEW j \in 1 .. Len(stack) PROVE StackAt(j)'
        OBVIOUS
      <3>1. StackAt(j) /\ stack[j] \in Manager
        BY StackType DEF NestInv
      <3>2. QED
        BY <2>1, <3>1 DEF StackAt
    <2>8. QED
      BY <2>1, <2>2, <2>3, <2>5, <2>6, <2>7 DEF NestInv, LoggerOf
  <1>3. QED
    BY <1>1, <1>2

LEMMA NestRestore ==
    ASSUME LogTyping, NestInv, NEW m \in Manager, RestoreLogger(m)
    PROVE  NestInv'
  <1> DEFINE n == Len(stack)
  <1>1. /\ phase[m] = "restore" /\ phase' = [phase EXCEPT ![m] = "joinThread"]
        /\ logger' = saved[m] /\ saved' = saved
        /\ nested' = (nested /\ stack[n] = m)
        /\ stack[n] = m => stack' = Front(stack)
    BY DEF RestoreLogger, GoTo, Found, Last
  <1> SUFFICES ASSUME nested, stack[n] = m PROVE NestInv'
    BY <1>1 DEF NestInv
  <1>2. n \in Nat \ {0} /\ stack # <<>>
    <2>1. \E i \in 1 .. n : stack[i] = m
      BY <1>1 DEF NestInv, OnStack
    <2>2. QED
      BY <2>1, StackType
  <1>3. /\ Len(stack') = n - 1
        /\ \A i \in 1 .. n - 1 : stack'[i] = stack[i] /\ stack[i] \in Manager
        /\ stack' \in Seq(Manager)
    <2>1. stack \in Seq(Manager)
      BY DEF LogTyping, LogTypeOK
    <2>2. \A i \in 1 .. n - 1 : stack[i] \in Manager
      BY <1>2, StackType
    <2>3. stack' = Front(stack)
      BY <1>1
    <2>4. QED
      BY <1>2, <2>1, <2>2, <2>3, FrontOf
  <1>4. \A i \in 1 .. n : StackAt(i)
    BY DEF NestInv
  <1>5. OnStack
    BY DEF NestInv
  <1> HIDE DEF n
  <1>6. ASSUME NEW k \in Manager, phase'[k] \notin {"new", "joinThread", "stopped"}
        PROVE  \E i \in 1 .. n - 1 : stack'[i] = k
    <2>1. k # m /\ phase'[k] = phase[k]
      BY <1>1, <1>6, StackType
    <2>2. PICK i \in 1 .. n : stack[i] = k
      BY <1>5, <1>6, <2>1 DEF OnStack, n
    <2>3. i \in 1 .. n - 1
      BY <1>2, <2>1, <2>2
    <2>4. stack'[i] = k
      BY <1>3, <2>2, <2>3
    <2>5. QED
      BY <2>3, <2>4
  <1>7. ASSUME NEW i \in 1 .. n - 1
        PROVE  /\ phase'[stack'[i]] \notin {"new", "saved", "cleared"}
               /\ saved'[stack'[i]] = IF i = 1 THEN InitialLogger ELSE Belongs(stack'[i - 1])
    <2>1. i \in 1 .. n /\ i # n /\ (i # 1 => i - 1 \in 1 .. n - 1)
      BY <1>2
    <2>2. /\ StackAt(i) /\ stack'[i] = stack[i] /\ (i # 1 => stack'[i - 1] = stack[i - 1])
          /\ stack[i] \in Manager
      BY <1>3, <1>4, <2>1
    <2>3. phase[stack[i]] \notin {"new", "saved", "cleared"}
      BY <2>1, <2>2 DEF StackAt, n
    <2>4. phase'[stack[i]] \notin {"new", "saved", "cleared"}
      BY <1>1, <2>2, <2>3, StackType
    <2>5. QED
      BY <1>1, <2>1, <2>2, <2>4 DEF StackAt
  <1>8. logger' = IF n = 1 THEN InitialLogger ELSE Belongs(stack[n - 1])
    <2>1. StackAt(n)
      BY <1>2, <1>4
    <2>2. QED
      BY <1>1, <2>1 DEF StackAt
  <1>9. OnStack'
    BY <1>3, <1>6 DEF OnStack
  <1>10. \A i \in 1 .. Len(stack') : StackAt(i)'
    BY <1>3, <1>7 DEF StackAt
  <1>11. stack' = <<>> <=> n = 1
    BY <1>2, <1>3
  <1>12. stack' # <<>> => LoggerOf(stack[Len(stack)])'
    <2> SUFFICES ASSUME n # 1 PROVE LoggerOf(stack[Len(stack)])'
      BY <1>11
    <2>1. n - 1 \in 1 .. n - 1 /\ Len(stack') = n - 1
      BY <1>2, <1>3
    <2>2. /\ stack'[n - 1] = stack[n - 1]
          /\ phase'[stack'[n - 1]] \notin {"new", "saved", "cleared"}
      BY <1>3, <1>7, <2>1
    <2>3. QED
      BY <1>8, <2>1, <2>2 DEF LoggerOf
  <1>13. QED
    BY <1>8, <1>9, <1>10, <1>11, <1>12 DEF NestInv

LEMMA NestStop ==
    ASSUME LogTyping, NestInv, NEW m \in Manager,
           StopBegin(m) \/ StopStep(m) \/ JoinTimesOut(m)
    PROVE  NestInv'
  <1>1. CASE StopBegin(m)
    <2>1. /\ phase[m] = "ready" /\ phase'[m] \in {"join", "close", "restore"}
          /\ \A k \in Manager \ {m} : phase'[k] = phase[k]
          /\ UNCHANGED loggerVars
      BY <1>1, StackType DEF StopBegin, GoTo
    <2>2. QED
      BY <2>1, NestPhase
  <1>2. CASE JoinEnds(m) \/ JoinTimesOut(m) \/ CloseFiles(m)
    <2>1. /\ phase[m] \in {"join", "close"} /\ phase'[m] \in {"close", "restore"}
          /\ \A k \in Manager \ {m} : phase'[k] = phase[k]
          /\ UNCHANGED loggerVars
      BY <1>2, StackType DEF JoinEnds, JoinTimesOut, CloseFiles, GoTo
    <2>2. QED
      BY <2>1, NestPhase
  <1>3. CASE RestoreLogger(m)
    BY <1>3, NestRestore
  <1>4. CASE JoinThread(m)
    <2>1. /\ phase[m] = "joinThread" /\ phase' = [phase EXCEPT ![m] = "stopped"]
          /\ UNCHANGED <<logger, saved, stack, nested>>
      BY <1>4 DEF JoinThread, GoTo, loggerVars
    <2>2. OnStack => OnStack'
      BY <2>1, StackType DEF OnStack
    <2>3. \A i \in 1 .. Len(stack) : StackAt(i) => StackAt(i)'
      BY <2>1, StackType DEF StackAt
    <2>4. ASSUME NEW k \in Manager, LoggerOf(k) PROVE LoggerOf(k)'
      BY <2>1, <2>4, StackType DEF LoggerOf
    <2>5. stack # <<>> => stack[Len(stack)] \in Manager
      BY StackType
    <2>6. QED
      BY <2>1, <2>2, <2>3, <2>4, <2>5 DEF NestInv, LoggerOf
  <1>5. QED
    BY <1>1, <1>2, <1>3, <1>4 DEF StopStep

LEMMA NestOthers ==
    ASSUME NestInv,
           \/ \E m \in Manager : \/ ListenerStep(m)
                                 \/ Feed(m) \/ FeedFromWorker(m) \/ WorkerKilled(m)
           \/ \E r \in MainRecord : MainLogs(r)
           \/ \E r \in WorkerRecord : WorkerLogs(r)
           \/ UNCHANGED vars
    PROVE  NestInv'
  <1>1. UNCHANGED <<phase, loggerVars>>
    BY Zenon DEF ListenerStep, Take, PollClosedQueue, GetFileHandler, FactoryFails, Write,
                 Feed, FeedFromWorker, WorkerKilled, MainLogs, WorkerLogs, vars, stopVars
  <1>2. QED
    BY <1>1 DEF NestInv, OnStack, StackAt, LoggerOf, loggerVars

\* setup_main_logging saves the logger and stop puts it back: while managers
\* are set up one at a time and stopped in the reverse order, the logger always
\* belongs to the youngest one left, and to the process when there is none.
THEOREM LoggerComesBack == Spec => []LoggerRestored
  <1>1. Init => NestInv
    <2> SUFFICES ASSUME Init PROVE NestInv
      OBVIOUS
    <2>1. stack = <<>> /\ Len(stack) = 0 /\ logger = InitialLogger
      BY DEF Init
    <2>2. OnStack
      BY DEF Init, OnStack
    <2>3. QED
      BY <2>1, <2>2 DEF NestInv
  <1>2. LogTyping /\ NestInv /\ [Next]_vars => NestInv'
    <2>1. ASSUME LogTyping, NestInv, NEW m \in Manager, ManagerStep(m) PROVE NestInv'
      BY <2>1, NestSave, NestSetup, NestStop DEF ManagerStep
    <2>2. QED
      BY <2>1, NestOthers DEF Next
  <1>3. LogTyping /\ NestInv => LoggerRestored
    <2> SUFFICES ASSUME LogTyping, NestInv, nested, SettingUp = {}
                 PROVE  logger = IF stack = <<>> THEN InitialLogger ELSE Belongs(Last(stack))
      BY DEF LoggerRestored, Belongs
    <2>1. stack # <<>> => Last(stack) = stack[Len(stack)] /\ Last(stack) \in Manager
      BY StackType DEF Last
    <2>2. QED
      BY <2>1 DEF NestInv, LoggerOf, SettingUp
  <1>4. QED
    BY <1>1, <1>2, <1>3, TypeInit, TypeStep, PTL DEF Spec
=============================================================================
