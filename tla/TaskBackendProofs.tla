------------------------- MODULE TaskBackendProofs -------------------------
(***************************************************************************)
(* Proofs about the task backend, for every set of ids and priorities and  *)
(* every retention limit.  The lemmas say what one method does to the two  *)
(* invariants and serve the proofs about the scheduler as well, which      *)
(* calls the same methods; the theorems close them over BackendSpec.       *)
(***************************************************************************)
EXTENDS TaskBackend, FiniteSetTheorems, TLAPS

-----------------------------------------------------------------------------
(* Type correctness, method by method.                                     *)

\* submit stores a well-formed record and a well-formed heap entry.
LEMMA SubmitType ==
    ASSUME BackendTypeOK, NEW t \in Task, NEW p \in Priority, Submit(t, p)
    PROVE  BackendTypeOK'
  <1>1. [prio |-> p, seq |-> sequence, id |-> t] \in HeapEntry
    BY DEF BackendTypeOK, HeapEntry
  <1>2. QED
    BY <1>1 DEF BackendTypeOK, Submit, Status, Live

\* pull only takes an entry out of the heap.
LEMMA PullType ==
    ASSUME BackendTypeOK, NEW e \in pending, Pull(e)
    PROVE  BackendTypeOK'
  BY DEF BackendTypeOK, Pull

\* read, consuming or not, keeps the indexes well formed.
LEMMA ReadType ==
    ASSUME BackendTypeOK, NEW t \in Task, NEW consume \in BOOLEAN, Read(t, consume)
    PROVE  BackendTypeOK'
  <1>1. CASE consume
    BY <1>1 DEF BackendTypeOK, Read, ReadConsume, Unset
  <1>2. CASE ~consume
    BY <1>2 DEF BackendTypeOK, Read, ReadKeep
  <1>3. QED
    BY <1>1, <1>2

\* update_status keeps the indexes well formed, the prune included.
LEMMA UpdateStatusType ==
    ASSUME BackendTypeOK, NEW t \in Task, NEW s \in Status, UpdateStatus(t, s)
    PROVE  BackendTypeOK'
  <1>1. CASE s \in Terminal
    <2> DEFINE fresh   == finishedAt[t] = Unset
               fin     == IF fresh THEN [finishedAt EXCEPT ![t] = terminalSequence]
                                   ELSE finishedAt
               evicted == Evicted(TerminalTasks \cup {t}, fin, readTasks)
    <2>1. fin \in [Task -> Nat \cup {Unset}]
      BY DEF BackendTypeOK
    <2>2. UpdateTerminal(t, s)
      BY <1>1 DEF UpdateStatus
    <2>3. status' \in [Task -> Status \cup {"absent"}]
      BY <2>2 DEF UpdateTerminal, BackendTypeOK
    <2>4. finishedAt' \in [Task -> Nat \cup {Unset}]
      BY <2>1, <2>2 DEF UpdateTerminal
    <2>5. terminalSequence' \in Nat /\ readTasks' \in SUBSET Task
      BY <2>2 DEF UpdateTerminal, BackendTypeOK
    <2>6. QED
      BY <2>2, <2>3, <2>4, <2>5 DEF UpdateTerminal, BackendTypeOK
  <1>2. CASE s \notin Terminal
    BY <1>2 DEF BackendTypeOK, UpdateStatus, UpdateLive, Unset
  <1>3. QED
    BY <1>1, <1>2

\* Every reachable state of the backend is well typed, whatever the calls.
THEOREM BackendTypeCorrect == BackendSpec => []BackendTypeOK
  <1>1. BackendInit => BackendTypeOK
    BY DEF BackendInit, BackendTypeOK, Unset
  <1>2. BackendTypeOK /\ [BackendNext]_backendVars => BackendTypeOK'
    <2> SUFFICES ASSUME BackendTypeOK, [BackendNext]_backendVars
                 PROVE  BackendTypeOK'
      OBVIOUS
    <2>1. CASE \E t \in Task, p \in Priority : sequence < MaxSequence /\ Submit(t, p)
      BY <2>1, SubmitType
    <2>2. CASE \E e \in pending : Pull(e)
      BY <2>2, PullType
    <2>3. CASE \E t \in Task, consume \in BOOLEAN : Read(t, consume)
      BY <2>3, ReadType
    <2>4. CASE \E t \in Task, s \in Terminal :
                  terminalSequence < MaxSequence /\ UpdateStatus(t, s)
      BY <2>4, UpdateStatusType DEF Status
    <2>5. CASE \E t \in Task, s \in Live : UpdateStatus(t, s)
      BY <2>5, UpdateStatusType DEF Status
    <2>6. CASE UNCHANGED backendVars
      BY <2>6 DEF backendVars, BackendTypeOK
    <2>7. QED
      BY <2>1, <2>2, <2>3, <2>4, <2>5, <2>6 DEF BackendNext
  <1>3. QED
    BY <1>1, <1>2, PTL DEF BackendSpec
-----------------------------------------------------------------------------
(* The terminal index agrees with the records, method by method.           *)
BackendInv == BackendTypeOK /\ IndexConsistent

\* submit creates a record that is not finished.
LEMMA SubmitIndex ==
    ASSUME BackendInv, NEW t \in Task, NEW p \in Priority, Submit(t, p)
    PROVE  IndexConsistent'
  BY DEF BackendInv, BackendTypeOK, IndexConsistent, Submit, TerminalTasks, Terminal

\* pull leaves the records and the index alone.
LEMMA PullIndex ==
    ASSUME BackendInv, NEW e \in pending, Pull(e)
    PROVE  IndexConsistent'
  BY DEF BackendInv, BackendTypeOK, IndexConsistent, Pull, TerminalTasks

\* A consuming read drops the record together with its index entries.
LEMMA ReadIndex ==
    ASSUME BackendInv, NEW t \in Task, NEW consume \in BOOLEAN, Read(t, consume)
    PROVE  IndexConsistent'
  <1>1. CASE consume
    BY <1>1 DEF BackendInv, BackendTypeOK, IndexConsistent, Read, ReadConsume,
                TerminalTasks, Terminal, Unset
  <1>2. CASE ~consume
    BY <1>2 DEF BackendInv, BackendTypeOK, IndexConsistent, Read, ReadKeep,
                TerminalTasks
  <1>3. QED
    BY <1>1, <1>2

\* update_status stamps a record when it finishes, keeps the stamp of one that
\* had finished, and takes the stamp back when the record becomes live again.
LEMMA UpdateStatusIndex ==
    ASSUME BackendInv, NEW t \in Task, NEW s \in Status, UpdateStatus(t, s)
    PROVE  IndexConsistent'
  <1> USE DEF BackendInv, BackendTypeOK
  <1>1. CASE s \in Terminal
    <2> DEFINE fresh   == finishedAt[t] = Unset
               fin     == IF fresh THEN [finishedAt EXCEPT ![t] = terminalSequence]
                                   ELSE finishedAt
               evicted == Evicted(TerminalTasks \cup {t}, fin, readTasks)
               next    == IF fresh THEN terminalSequence + 1 ELSE terminalSequence
    <2> HIDE DEF evicted
    <2>1. /\ status' = [u \in Task |-> IF u \in evicted THEN "absent"
                                       ELSE IF u = t THEN s ELSE status[u]]
          /\ finishedAt' = [u \in Task |-> IF u \in evicted THEN Unset ELSE fin[u]]
          /\ readTasks' = readTasks \ evicted
          /\ terminalSequence' = next
      BY <1>1 DEF UpdateStatus, UpdateTerminal, evicted
    <2>2. /\ \A u \in Task : fin[u] # Unset <=> u = t \/ status[u] \in Terminal
          /\ \A u \in Task : fin[u] < next
          /\ \A u, v \in Task : fin[u] = fin[v] /\ fin[u] # Unset => u = v
      BY DEF IndexConsistent, TerminalTasks, Unset
    <2> HIDE DEF fin, next
    <2>3. \A u \in Task : status'[u] \in Terminal
                             <=> u \notin evicted /\ (u = t \/ status[u] \in Terminal)
      BY <1>1, <2>1 DEF Terminal
    <2>4. \A u \in Task : finishedAt'[u] # Unset <=> status'[u] \in Terminal
      BY <2>1, <2>2, <2>3
    <2>5. readTasks' \subseteq TerminalTasks'
      BY <2>1, <2>3 DEF IndexConsistent, TerminalTasks
    <2>6. next \in Nat /\ fin \in [Task -> Int]
      BY DEF fin, next, Unset
    <2>7. \A u \in Task : finishedAt'[u] < terminalSequence'
      BY <2>1, <2>2, <2>6 DEF Unset
    <2>8. \A u, v \in TerminalTasks' : finishedAt'[u] = finishedAt'[v] => u = v
      BY <2>1, <2>2, <2>4 DEF TerminalTasks
    <2>9. QED
      BY <2>4, <2>5, <2>7, <2>8 DEF IndexConsistent
  <1>2. CASE s \notin Terminal
    BY <1>2 DEF IndexConsistent, UpdateStatus, UpdateLive, TerminalTasks, Unset
  <1>3. QED
    BY <1>1, <1>2

\* What one step of the backend preserves.
LEMMA BackendStep ==
    ASSUME BackendInv, [BackendNext]_backendVars
    PROVE  BackendInv'
  <1>1. CASE \E t \in Task, p \in Priority : sequence < MaxSequence /\ Submit(t, p)
    BY <1>1, SubmitType, SubmitIndex DEF BackendInv
  <1>2. CASE \E e \in pending : Pull(e)
    BY <1>2, PullType, PullIndex DEF BackendInv
  <1>3. CASE \E t \in Task, consume \in BOOLEAN : Read(t, consume)
    BY <1>3, ReadType, ReadIndex DEF BackendInv
  <1>4. CASE \E t \in Task, s \in Terminal :
                terminalSequence < MaxSequence /\ UpdateStatus(t, s)
    BY <1>4, UpdateStatusType, UpdateStatusIndex DEF BackendInv, Status
  <1>5. CASE \E t \in Task, s \in Live : UpdateStatus(t, s)
    BY <1>5, UpdateStatusType, UpdateStatusIndex DEF BackendInv, Status
  <1>6. CASE UNCHANGED backendVars
    BY <1>6 DEF backendVars, BackendInv, BackendTypeOK, IndexConsistent, TerminalTasks
  <1>7. QED
    BY <1>1, <1>2, <1>3, <1>4, <1>5, <1>6 DEF BackendNext

\* A fresh backend satisfies the invariant.
LEMMA BackendStart == BackendInit => BackendInv
  BY DEF BackendInit, BackendInv, BackendTypeOK, IndexConsistent, TerminalTasks,
         Terminal, Unset

\* The records, the finish stamps and the read marks always agree: no sort in
\* the prune ever meets an id without a stamp, and no two stamps are equal.
THEOREM IndexAlwaysConsistent == BackendSpec => []IndexConsistent
  <1>1. BackendInv => IndexConsistent
    BY DEF BackendInv
  <1>2. QED
    BY <1>1, BackendStart, BackendStep, PTL DEF BackendSpec
-----------------------------------------------------------------------------
(* What the prune drops.  T stands for the finished records it looks at.   *)

\* Only finished records are dropped.
LEMMA EvictedAreFinished ==
    ASSUME NEW T, NEW fin, NEW read
    PROVE  Evicted(T, fin, read) \subseteq T
  BY DEF Evicted

\* A record that nobody has read and that finished last survives the prune it
\* triggers, however small the limit.
LEMMA NewestSurvives ==
    ASSUME NEW T, NEW fin, NEW read, NEW t \in T,
           t \notin read,
           \A u \in T : fin[u] \in Int,
           \A u \in T : u # t => fin[u] < fin[t]
    PROVE  t \notin Evicted(T, fin, read)
  <1>1. {u \in T : EvictedBefore(t, u, fin, read)} = {}
    BY DEF EvictedBefore
  <1>2. Cardinality({u \in T : EvictedBefore(t, u, fin, read)}) = 0
    BY <1>1, FS_EmptySet
  <1>3. QED
    BY <1>2, LimitAssumption DEF Evicted

\* With a record go all records before it in the eviction order.
LEMMA EvictedDownward ==
    ASSUME NEW T, IsFiniteSet(T), NEW fin, NEW read,
           \A u \in T : fin[u] \in Int,
           NEW t \in Evicted(T, fin, read), NEW u \in T,
           EvictedBefore(u, t, fin, read)
    PROVE  u \in Evicted(T, fin, read)
  <1> DEFINE After(x) == {v \in T : EvictedBefore(x, v, fin, read)}
  <1>1. t \in T /\ RetainLimit # 0 /\ Cardinality(After(t)) >= RetainLimit
    BY DEF Evicted
  <1>2. After(t) \subseteq After(u)
    BY <1>1 DEF EvictedBefore
  <1>3. IsFiniteSet(After(u))
    BY FS_Subset
  <1> HIDE DEF After
  <1>4. Cardinality(After(t)) <= Cardinality(After(u))
    BY <1>2, <1>3, FS_Subset
  <1>5. Cardinality(After(t)) \in Int /\ Cardinality(After(u)) \in Int
    BY <1>2, <1>3, FS_Subset, FS_CardinalityType
  <1>6. Cardinality(After(u)) >= RetainLimit
    BY <1>1, <1>4, <1>5, LimitAssumption
  <1>7. QED
    BY <1>1, <1>6 DEF Evicted, After

\* No more than RetainLimit records survive a prune: each survivor has fewer
\* than RetainLimit records after it, and no two of them have equally many.
LEMMA SurvivorsBounded ==
    ASSUME RetainLimit > 0,
           NEW T, IsFiniteSet(T), NEW fin, NEW read,
           \A u \in T : fin[u] \in Nat,
           \A u, v \in T : fin[u] = fin[v] => u = v
    PROVE  Cardinality(T \ Evicted(T, fin, read)) <= RetainLimit
  <1> DEFINE kept     == T \ Evicted(T, fin, read)
             After(x) == {v \in T : EvictedBefore(x, v, fin, read)}
             rank     == [x \in kept |-> Cardinality(After(x))]
             Ranks    == 0 .. RetainLimit - 1
  <1>1. IsFiniteSet(kept) /\ Cardinality(kept) \in Nat
    BY FS_Subset, FS_CardinalityType
  <1>2. SUFFICES ASSUME Cardinality(kept) > RetainLimit PROVE FALSE
    BY <1>1, LimitAssumption
  <1>3. \A x \in T : IsFiniteSet(After(x)) /\ Cardinality(After(x)) \in Nat
    <2>1. SUFFICES ASSUME NEW x \in T
                   PROVE  IsFiniteSet(After(x)) /\ Cardinality(After(x)) \in Nat
      OBVIOUS
    <2>2. QED
      BY FS_Subset, FS_CardinalityType
  <1>4. \A x \in kept : Cardinality(After(x)) < RetainLimit
    <2>1. SUFFICES ASSUME NEW x \in kept PROVE Cardinality(After(x)) < RetainLimit
      OBVIOUS
    <2>2. ~(Cardinality(After(x)) >= RetainLimit)
      BY DEF Evicted
    <2> HIDE DEF After
    <2>3. QED
      BY <1>3, <2>2, LimitAssumption
  <1>5. IsFiniteSet(Ranks) /\ Cardinality(Ranks) = RetainLimit
    BY FS_Interval, LimitAssumption
  <1>6. rank \in [kept -> Ranks]
    <2> HIDE DEF After
    <2>1. QED
      BY <1>3, <1>4, LimitAssumption
  <1>7. PICK x \in kept, y \in kept : x # y /\ rank[x] = rank[y]
    <2> HIDE DEF kept, rank, Ranks
    <2>1. Cardinality(Ranks) < Cardinality(kept)
      BY <1>1, <1>2, <1>5, LimitAssumption
    <2>2. QED
      BY <1>1, <1>5, <1>6, <2>1, FS_PigeonHole
  <1>8. ASSUME NEW a \in kept, NEW b \in kept, EvictedBefore(a, b, fin, read)
        PROVE  rank[a] # rank[b]
    <2>1. After(b) \subseteq After(a) /\ b \in After(a) /\ b \notin After(b)
      BY <1>8 DEF EvictedBefore
    <2> HIDE DEF After
    <2>2. Cardinality(After(b)) # Cardinality(After(a))
      BY <1>3, <2>1, FS_Subset
    <2>3. QED
      BY <2>2
  <1>9. EvictedBefore(x, y, fin, read) \/ EvictedBefore(y, x, fin, read)
    BY <1>7 DEF EvictedBefore
  <1>10. QED
    BY <1>7, <1>8, <1>9

\* What update_status asks of the prune: the records it looks at have stamps
\* of their own, and the one it finishes for the first time has the last.
LEMMA PruneInput ==
    ASSUME BackendInv, NEW t \in Task, status[t] # "absent"
    PROVE  LET fresh == finishedAt[t] = Unset
               fin   == IF fresh THEN [finishedAt EXCEPT ![t] = terminalSequence]
                                 ELSE finishedAt
               T     == TerminalTasks \cup {t}
           IN  /\ IsFiniteSet(T)
               /\ \A u \in T : fin[u] \in Nat
               /\ \A u, v \in T : fin[u] = fin[v] => u = v
               /\ fresh => /\ t \notin readTasks
                           /\ \A u \in T : u # t => fin[u] < fin[t]
  <1> DEFINE fresh == finishedAt[t] = Unset
             fin   == IF fresh THEN [finishedAt EXCEPT ![t] = terminalSequence]
                               ELSE finishedAt
             T     == TerminalTasks \cup {t}
  <1> USE DEF BackendInv, BackendTypeOK, IndexConsistent
  <1>1. IsFiniteSet(T)
    BY TaskAssumption, FS_Subset DEF TerminalTasks
  <1>2. \A u \in T : u # t => finishedAt[u] \in Nat /\ fin[u] = finishedAt[u]
    BY DEF TerminalTasks, Unset
  <1>3. fin[t] \in Nat
    BY DEF Unset
  <1>4. ~fresh => t \in TerminalTasks
    BY DEF TerminalTasks
  <1>5. fresh => t \notin TerminalTasks /\ fin[t] = terminalSequence
    BY DEF TerminalTasks
  <1>6. \A u \in TerminalTasks : finishedAt[u] < terminalSequence
    BY DEF TerminalTasks
  <1>7. \A u, v \in T : fin[u] = fin[v] => u = v
    BY <1>2, <1>3, <1>4, <1>5, <1>6
  <1>8. QED
    BY <1>1, <1>2, <1>3, <1>5, <1>6, <1>7

\* The limit holds after every method.
LEMMA RetentionStep ==
    ASSUME BackendInv, RetentionBound, [BackendNext]_backendVars
    PROVE  RetentionBound'
  <1> SUFFICES ASSUME RetainLimit > 0
               PROVE  Cardinality(TerminalTasks') <= RetainLimit
    BY DEF RetentionBound
  <1> USE DEF BackendInv, BackendTypeOK
  <1>1. IsFiniteSet(TerminalTasks) /\ Cardinality(TerminalTasks) \in Nat
    BY TaskAssumption, FS_Subset, FS_CardinalityType DEF TerminalTasks
  <1>2. Cardinality(TerminalTasks) <= RetainLimit
    BY DEF RetentionBound
  <1>3. CASE TerminalTasks' \subseteq TerminalTasks
    <2>1. /\ Cardinality(TerminalTasks') <= Cardinality(TerminalTasks)
          /\ Cardinality(TerminalTasks') \in Nat
      BY <1>1, <1>3, FS_Subset, FS_CardinalityType
    <2>2. QED
      BY <1>1, <1>2, <2>1, LimitAssumption
  <1>4. ASSUME NEW t \in Task, NEW s \in Terminal, UpdateStatus(t, s)
        PROVE  Cardinality(TerminalTasks') <= RetainLimit
    <2> DEFINE fresh   == finishedAt[t] = Unset
               fin     == IF fresh THEN [finishedAt EXCEPT ![t] = terminalSequence]
                                   ELSE finishedAt
               T       == TerminalTasks \cup {t}
               evicted == Evicted(T, fin, readTasks)
    <2>1. status[t] # "absent"
      BY <1>4 DEF UpdateStatus, UpdateTerminal
    <2>2. status' = [u \in Task |-> IF u \in evicted THEN "absent"
                                    ELSE IF u = t THEN s ELSE status[u]]
      BY <1>4 DEF UpdateStatus, UpdateTerminal
    <2> HIDE DEF evicted
    <2>3. TerminalTasks' = T \ evicted
      BY <1>4, <2>2 DEF TerminalTasks, Terminal
    <2>4. /\ IsFiniteSet(T)
          /\ \A u \in T : fin[u] \in Nat
          /\ \A u, v \in T : fin[u] = fin[v] => u = v
      BY <2>1, PruneInput
    <2> HIDE DEF T, fin
    <2>5. QED
      BY <2>3, <2>4, SurvivorsBounded DEF evicted
  <1>5. CASE \E t \in Task, p \in Priority : sequence < MaxSequence /\ Submit(t, p)
    BY <1>3, <1>5 DEF Submit, TerminalTasks, Terminal
  <1>6. CASE \E e \in pending : Pull(e)
    BY <1>3, <1>6 DEF Pull, TerminalTasks
  <1>7. CASE \E t \in Task, consume \in BOOLEAN : Read(t, consume)
    BY <1>3, <1>7 DEF Read, ReadConsume, ReadKeep, TerminalTasks, Terminal
  <1>8. CASE \E t \in Task, s \in Live : UpdateStatus(t, s)
    BY <1>3, <1>8 DEF UpdateStatus, UpdateLive, TerminalTasks, Terminal, Live
  <1>9. CASE UNCHANGED backendVars
    BY <1>3, <1>9 DEF backendVars, TerminalTasks
  <1>10. QED
    BY <1>4, <1>5, <1>6, <1>7, <1>8, <1>9 DEF BackendNext

\* A positive limit bounds the finished records in memory at every moment.
THEOREM RetentionBounded == BackendSpec => []RetentionBound
  <1>1. BackendInit => RetentionBound
    <2>1. BackendInit => TerminalTasks = {}
      BY DEF BackendInit, TerminalTasks, Terminal
    <2>2. QED
      BY <2>1, FS_EmptySet, LimitAssumption DEF RetentionBound
  <1>2. QED
    BY <1>1, BackendStart, BackendStep, RetentionStep, PTL DEF BackendSpec

-----------------------------------------------------------------------------
(* What a step may never drop.                                             *)

\* A live record outlives every step, the one that finishes it included: it is
\* the last to have finished and unread, so the prune keeps it.
LEMMA LiveKeptByUpdate ==
    ASSUME BackendInv, NEW t \in Task, NEW s \in Terminal, UpdateStatus(t, s),
           NEW u \in Task, status[u] \in Live
    PROVE  status'[u] # "absent"
  <1> DEFINE fresh   == finishedAt[t] = Unset
             fin     == IF fresh THEN [finishedAt EXCEPT ![t] = terminalSequence]
                                 ELSE finishedAt
             T       == TerminalTasks \cup {t}
             evicted == Evicted(T, fin, readTasks)
  <1>1. /\ status[t] # "absent"
        /\ status' = [v \in Task |-> IF v \in evicted THEN "absent"
                                     ELSE IF v = t THEN s ELSE status[v]]
    BY DEF UpdateStatus, UpdateTerminal
  <1>2. u \notin TerminalTasks
    BY DEF TerminalTasks, Live, Terminal
  <1>3. /\ \A v \in T : fin[v] \in Nat
        /\ fresh => /\ t \notin readTasks
                    /\ \A v \in T : v # t => fin[v] < fin[t]
    BY <1>1, PruneInput
  <1>4. u \notin evicted
    <2>1. CASE u # t
      BY <1>2, <2>1, EvictedAreFinished
    <2>2. CASE u = t
      <3>1. fresh
        BY <1>2, <2>2 DEF BackendInv, IndexConsistent, TerminalTasks
      <3> HIDE DEF T, fin, fresh
      <3>2. t \in T
        BY DEF T
      <3>3. QED
        BY <1>3, <2>2, <3>1, <3>2, NewestSurvives
    <2>3. QED
      BY <2>1, <2>2
  <1> HIDE DEF evicted
  <1>5. QED
    BY <1>1, <1>4 DEF Live, Terminal

\* No record that still has work to do is ever dropped.
THEOREM LiveIsNeverDropped == BackendSpec => LiveNeverDropped
  <1>1. ASSUME BackendInv, [BackendNext]_backendVars, NEW u \in Task, status[u] \in Live
        PROVE  status'[u] # "absent"
    <2> USE DEF BackendInv, BackendTypeOK
    <2>1. CASE \E t \in Task, p \in Priority : sequence < MaxSequence /\ Submit(t, p)
      BY <1>1, <2>1 DEF Submit, Live
    <2>2. CASE \E e \in pending : Pull(e)
      BY <1>1, <2>2 DEF Pull, Live
    <2>3. CASE \E t \in Task, consume \in BOOLEAN : Read(t, consume)
      BY <1>1, <2>3 DEF Read, ReadConsume, ReadKeep, Terminal, Live
    <2>4. CASE \E t \in Task, s \in Terminal :
                  terminalSequence < MaxSequence /\ UpdateStatus(t, s)
      BY <1>1, <2>4, LiveKeptByUpdate
    <2>5. CASE \E t \in Task, s \in Live : UpdateStatus(t, s)
      BY <1>1, <2>5 DEF UpdateStatus, UpdateLive, Terminal, Live
    <2>6. CASE UNCHANGED backendVars
      BY <1>1, <2>6 DEF backendVars, Live
    <2>7. QED
      BY <1>1, <2>1, <2>2, <2>3, <2>4, <2>5, <2>6 DEF BackendNext
  <1>2. BackendInv /\ [BackendNext]_backendVars
            => [\A t \in Task : status[t] \in Live => status'[t] # "absent"]_backendVars
    BY <1>1
  <1>3. QED
    BY <1>2, BackendStart, BackendStep, PTL DEF BackendSpec, LiveNeverDropped

\* A prune that drops an unread record drops all records that were read and all
\* that finished earlier with it.
LEMMA PruneOrder ==
    ASSUME BackendInv, NEW r \in Task, NEW s \in Terminal, UpdateStatus(r, s),
           terminalSequence' # terminalSequence,
           NEW t \in Task, status[t] \in Terminal, t \notin readTasks,
           status'[t] = "absent",
           NEW u \in Task, status[u] \in Terminal,
           u \in readTasks \/ finishedAt[u] < finishedAt[t]
    PROVE  status'[u] = "absent"
  <1> DEFINE fresh   == finishedAt[r] = Unset
             fin     == IF fresh THEN [finishedAt EXCEPT ![r] = terminalSequence]
                                 ELSE finishedAt
             T       == TerminalTasks \cup {r}
             evicted == Evicted(T, fin, readTasks)
  <1>1. /\ status[r] # "absent"
        /\ fresh
        /\ status' = [v \in Task |-> IF v \in evicted THEN "absent"
                                     ELSE IF v = r THEN s ELSE status[v]]
    BY DEF UpdateStatus, UpdateTerminal
  <1>2. r \notin TerminalTasks /\ t \in TerminalTasks /\ u \in TerminalTasks
    BY <1>1 DEF BackendInv, IndexConsistent, TerminalTasks
  <1>3. fin[t] = finishedAt[t] /\ fin[u] = finishedAt[u]
    BY <1>2 DEF BackendInv, BackendTypeOK
  <1>4. IsFiniteSet(T) /\ \A v \in T : fin[v] \in Int
    BY <1>1, PruneInput
  <1>5. t \in evicted
    <2> HIDE DEF evicted
    <2>1. QED
      BY <1>1, <1>2 DEF TerminalTasks, Terminal
  <1> HIDE DEF fin
  <1>6. EvictedBefore(u, t, fin, readTasks)
    BY <1>3 DEF EvictedBefore
  <1>7. u \in T
    BY <1>2
  <1> HIDE DEF T
  <1>8. u \in evicted
    BY <1>4, <1>5, <1>6, <1>7, EvictedDownward
  <1> HIDE DEF evicted
  <1>9. QED
    BY <1>1, <1>8

\* What a client has not read outlives what was read and what is older.
THEOREM UnreadIsEvictedLast == BackendSpec => UnreadEvictedLast
  <1> DEFINE Ordered ==
          \A t, u \in Task :
              /\ status[t] \in Terminal
              /\ t \notin readTasks
              /\ status'[t] = "absent"
              /\ terminalSequence' # terminalSequence
              /\ status[u] \in Terminal
              /\ u \in readTasks \/ finishedAt[u] < finishedAt[t]
              => status'[u] = "absent"
  <1>1. ASSUME BackendInv, [BackendNext]_backendVars PROVE Ordered
    <2>1. CASE \E r \in Task, s \in Terminal :
                  terminalSequence < MaxSequence /\ UpdateStatus(r, s)
      BY <1>1, <2>1, PruneOrder
    <2>2. CASE ~\E r \in Task, s \in Terminal :
                  terminalSequence < MaxSequence /\ UpdateStatus(r, s)
      <3>1. terminalSequence' = terminalSequence
        BY <1>1, <2>2 DEF BackendNext, Submit, Pull, Read, ReadKeep, ReadConsume,
                          UpdateStatus, UpdateLive, Live, Terminal, backendVars
      <3>2. QED
        BY <3>1
    <2>3. QED
      BY <2>1, <2>2
  <1>2. BackendInv /\ [BackendNext]_backendVars => [Ordered]_backendVars
    BY <1>1
  <1>3. QED
    BY <1>2, BackendStart, BackendStep, PTL DEF BackendSpec, UnreadEvictedLast
=============================================================================
