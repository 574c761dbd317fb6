--------------------------- MODULE RoutingProofs ---------------------------
(***************************************************************************)
(* Theorems about module WorkerRouting, for any groups, processes and      *)
(* handlers: its state is well typed, a request is refused only after all  *)
(* workers that lived throughout the call were offered it, no worker idles *)
(* beside busy ones of its group, the credits of the groups stay bounded,  *)
(* and no group starves.                                                   *)
(***************************************************************************)
EXTENDS WorkerRouting, FiniteSetTheorems, SequenceTheorems, TLAPS

-----------------------------------------------------------------------------
(* Workers and their indices.                                              *)
LEMMA WorkerIs ==
    \A w \in Worker : /\ GroupOf(w) \in Group
                      /\ ProcessCount[GroupOf(w)] \in Nat \ {0}
                      /\ Index(w) \in 0 .. ProcessCount[GroupOf(w)] - 1
                      /\ w = <<GroupOf(w), Index(w)>>
  BY RoutingAssumption DEF Worker, GroupOf, Index

LEMMA WorkerFinite == IsFiniteSet(Worker)
  <1> DEFINE f == [g \in Group |-> {g} \X (0 .. ProcessCount[g] - 1)]
             T == {{g} \X (0 .. ProcessCount[g] - 1) : g \in Group}
  <1>1. f \in Surjection(Group, T)
    BY DEF Surjection
  <1>2. IsFiniteSet(T)
    <2> HIDE DEF f, T
    <2>1. QED
      BY <1>1, FS_Surjection, RoutingAssumption
  <1>3. \A S \in T : IsFiniteSet(S)
    <2> SUFFICES ASSUME NEW g \in Group
                 PROVE  IsFiniteSet({g} \X (0 .. ProcessCount[g] - 1))
      OBVIOUS
    <2>1. IsFiniteSet({g})
      BY FS_Singleton
    <2>2. IsFiniteSet(0 .. ProcessCount[g] - 1)
      BY RoutingAssumption, FS_Interval
    <2>3. QED
      BY <2>1, <2>2, FS_Product
  <1>4. IsFiniteSet(UNION T)
    <2> HIDE DEF T
    <2>1. QED
      BY <1>2, <1>3, FS_UNION
  <1>5. QED
    BY <1>4 DEF Worker

\* How far an index is behind a cursor, without division; and what the move of
\* the cursor behind the first worker does to another one.
LEMMA DistanceOf ==
    ASSUME NEW P \in Nat \ {0}, NEW i \in 0 .. P - 1, NEW c \in 0 .. P - 1
    PROVE  (i - c) % P = IF c <= i THEN i - c ELSE i - c + P
  BY SMT

LEMMA NextOf ==
    ASSUME NEW P \in Nat \ {0}, NEW i \in 0 .. P - 1
    PROVE  /\ (i + 1) % P = IF i = P - 1 THEN 0 ELSE i + 1
           /\ (i + 1) % P \in 0 .. P - 1
  BY SMT

LEMMA CursorMoves ==
    ASSUME NEW P \in Nat \ {0}, NEW i \in 0 .. P - 1, NEW j \in 0 .. P - 1,
           NEW c \in 0 .. P - 1, i # j
    PROVE  LET d == (i + 1) % P
           IN  /\ (j - d) % P \in 0 .. P - 2
               /\ (i - c) % P <= (j - c) % P => (j - d) % P < (j - c) % P
  <1> DEFINE d == (i + 1) % P
  <1>1. d = (IF i = P - 1 THEN 0 ELSE i + 1) /\ d \in 0 .. P - 1
    BY NextOf
  <1> HIDE DEF d
  <1>2. (j - d) % P = IF d <= j THEN j - d ELSE j - d + P
    BY <1>1, DistanceOf
  <1>3. (j - c) % P = IF c <= j THEN j - c ELSE j - c + P
    BY DistanceOf
  <1>4. (i - c) % P = IF c <= i THEN i - c ELSE i - c + P
    BY DistanceOf
  <1>5. (j - d) % P \in 0 .. P - 2
    BY <1>1, <1>2
  <1>6. (i - c) % P <= (j - c) % P => (j - d) % P < (j - c) % P
    BY <1>1, <1>2, <1>3, <1>4
  <1>7. QED
    BY <1>5, <1>6 DEF d

-----------------------------------------------------------------------------
(* Typing.                                                                 *)
CursorsTyped ==
    /\ cursor \in [Group -> Int]
    /\ \A g \in Group : cursor[g] \in 0 .. ProcessCount[g] - 1

PoolTyped ==
    /\ order \in Seq(Group) /\ alive \in SUBSET Worker /\ up \in SUBSET Worker
    /\ outstanding \in [Worker -> Nat] /\ restarted \in Worker \cup {None}

CallTyped ==
    /\ pc \in {"idle", "select", "order", "offer", "refused"}
    /\ remaining \in SUBSET Group /\ chosen \in Group \cup {None}
    /\ queue \in SUBSET Worker /\ steady \in SUBSET Worker /\ offered \in SUBSET Worker
    /\ pc \in {"order", "offer"} => chosen \in remaining
    /\ pc = "offer" => queue \subseteq Workers(chosen)

FairTyped == passed \in [Group -> Nat] /\ idle \in [Worker -> Nat]

TypeInv ==
    /\ smooth \in [Group -> Int]
    /\ CursorsTyped /\ PoolTyped /\ CallTyped /\ FairTyped

LEMMA TypeMeans == TypeInv => RoutingTypeOK
  BY DEF TypeInv, CursorsTyped, PoolTyped, CallTyped, FairTyped, RoutingTypeOK

LEMMA TypeStart == Init => TypeInv
  BY RoutingAssumption
     DEF Init, TypeInv, CursorsTyped, PoolTyped, CallTyped, FairTyped

LEMMA LiveAreWorkers == \A g : LiveWorkers(g) \subseteq Workers(g) /\ Workers(g) \subseteq Worker
  BY DEF LiveWorkers, Workers

LEMMA RecountTyped ==
    ASSUME FairTyped, NEW g, NEW W, Recount(g, W)
    PROVE  FairTyped'
  BY DEF FairTyped, Recount

LEMMA EarnedTyped ==
    ASSUME TypeInv
    PROVE  \A g \in Group : Earned(g) \in Int
  <1> SUFFICES ASSUME NEW g \in Group PROVE Earned(g) \in Int
    OBVIOUS
  <1>1. LiveWorkers(g) \in SUBSET Worker
    BY LiveAreWorkers
  <1>2. Cardinality(LiveWorkers(g)) \in Nat
    BY <1>1, WorkerFinite, FS_Subset, FS_CardinalityType
  <1>3. QED
    BY <1>2 DEF Earned, TypeInv

LEMMA TypeSelect ==
    ASSUME TypeInv, Select
    PROVE  TypeInv'
  <1> DEFINE total == Cardinality(UNION {LiveWorkers(g) : g \in remaining})
  <1>1. total \in Nat
    <2>1. UNION {LiveWorkers(g) : g \in remaining} \in SUBSET Worker
      BY LiveAreWorkers
    <2>2. QED
      BY <2>1, WorkerFinite, FS_Subset, FS_CardinalityType
  <1> HIDE DEF total
  <1>2. PICK g \in remaining :
           /\ chosen' = g
           /\ smooth' = [f \in Group |->
                 IF f = g THEN Earned(f) - Charge(f, total) ELSE Earned(f)]
           /\ passed' = [f \in Group |-> IF f = g THEN 0
                                         ELSE IF f \in remaining THEN passed[f] + 1
                                         ELSE passed[f]]
    BY DEF Select, total
  <1>3. smooth' \in [Group -> Int]
    BY <1>1, <1>2, EarnedTyped DEF Charge
  <1>4. CallTyped' /\ FairTyped'
    BY <1>2 DEF Select, TypeInv, CallTyped, FairTyped
  <1>5. UNCHANGED <<poolVars, cursor>>
    BY DEF Select
  <1>6. PoolTyped' /\ CursorsTyped'
    BY <1>5 DEF TypeInv, PoolTyped, CursorsTyped, poolVars
  <1>7. QED
    BY <1>3, <1>4, <1>6 DEF TypeInv

LEMMA FirstIsWorker ==
    ASSUME TypeInv, pc = "offer", NEW w, First(w)
    PROVE  w \in queue /\ w \in Worker /\ chosen \in Group /\ GroupOf(w) = chosen
  BY DEF First, TypeInv, CallTyped, Workers

LEMMA TypeAssign ==
    ASSUME TypeInv, NEW w \in Worker, Assign(w)
    PROVE  TypeInv'
  <1>1. w \in Worker /\ chosen \in Group /\ GroupOf(w) = chosen
    BY FirstIsWorker DEF Assign
  <1>2. NextCursor(w) \in 0 .. ProcessCount[chosen] - 1
    BY <1>1, WorkerIs, NextOf DEF NextCursor
  <1>3. CursorsTyped'
    BY <1>1, <1>2, RoutingAssumption DEF Assign, TypeInv, CursorsTyped
  <1>4. PoolTyped'
    BY DEF Assign, TypeInv, PoolTyped
  <1>5. CallTyped'
    BY DEF Assign, TypeInv, CallTyped
  <1>6. idle' \in [Worker -> Nat]
    BY DEF Assign, TypeInv, FairTyped
  <1>7. QED
    BY <1>3, <1>4, <1>5, <1>6 DEF Assign, TypeInv, FairTyped

LEMMA TypeCall ==
    ASSUME TypeInv, Call
    PROVE  TypeInv'
  <1>1. ASSUME \/ \E h \in Handler : Begin(h)
               \/ Order \/ GroupExhausted \/ Refused \/ \E w \in Worker : PutFails(w)
        PROVE  TypeInv'
    <2>1. UNCHANGED <<order, alive, up, outstanding, restarted, smooth, cursor, passed, idle>>
      BY <1>1 DEF Begin, Order, GroupExhausted, Refused, PutFails, poolVars, routeVars, fairVars
    <2>2. ASSUME NEW h \in Handler, Begin(h) PROVE CallTyped'
      <3>1. /\ pc' \in {"refused", "select"} /\ remaining' \subseteq Group
            /\ steady' \subseteq Worker /\ offered' = {} /\ UNCHANGED <<chosen, queue>>
        BY <2>2, LiveAreWorkers, RoutingAssumption DEF Begin
      <3>2. QED
        BY <3>1 DEF TypeInv, CallTyped
    <2>3. ASSUME Order PROVE CallTyped'
      <3>1. /\ pc = "order" /\ pc' = "offer" /\ queue' = LiveWorkers(chosen)
            /\ UNCHANGED <<remaining, chosen, steady, offered>>
        BY <2>3 DEF Order
      <3>2. LiveWorkers(chosen) \subseteq Workers(chosen) /\ Workers(chosen)' = Workers(chosen)
        BY <3>1, LiveAreWorkers DEF Workers
      <3>3. LiveWorkers(chosen) \subseteq Worker
        BY <3>2, LiveAreWorkers
      <3>4. QED
        BY <3>1, <3>2, <3>3 DEF TypeInv, CallTyped
    <2>4. ASSUME NEW w \in Worker, PutFails(w) PROVE CallTyped'
      <3>1. /\ pc = "offer" /\ queue' = queue \ {w} /\ offered' = offered \cup {w}
            /\ UNCHANGED <<pc, remaining, chosen, steady>>
        BY <2>4 DEF PutFails
      <3>2. Workers(chosen)' = Workers(chosen)
        BY <3>1 DEF Workers
      <3>3. QED
        BY <3>1, <3>2 DEF TypeInv, CallTyped
    <2>5. ASSUME GroupExhausted \/ Refused PROVE CallTyped'
      <3>1. /\ pc' \notin {"order", "offer"} /\ pc' \in {"idle", "select", "refused"}
            /\ remaining' \subseteq remaining /\ chosen' \in {chosen, None} /\ queue' = queue
            /\ steady' \in {steady, {}} /\ offered' \in {offered, {}}
        BY <2>5 DEF GroupExhausted, Refused
      <3>2. QED
        BY <3>1 DEF TypeInv, CallTyped
    <2>6. CallTyped'
      BY <1>1, <2>2, <2>3, <2>4, <2>5
    <2>7. QED
      BY <2>1, <2>6 DEF TypeInv, CursorsTyped, PoolTyped, FairTyped
  <1>2. QED
    BY <1>1, TypeSelect, TypeAssign DEF Call

\* Removing a group from the order, and adding one.
LEMMA OrderTyped ==
    ASSUME order \in Seq(Group)
    PROVE  /\ \A g \in Groups : RemoveAt(order, Position(g)) \in Seq(Group)
           /\ \A g \in Group : Append(order, g) \in Seq(Group)
  <1>1. ASSUME NEW g \in Groups PROVE RemoveAt(order, Position(g)) \in Seq(Group)
    <2>1. Position(g) \in 1 .. Len(order)
      BY <1>1 DEF Position, Groups, Range
    <2> DEFINE n == Position(g)
    <2> HIDE DEF n
    <2>2. SubSeq(order, 1, n - 1) \in Seq(Group)
      BY <2>1, SubSeqProperties DEF n
    <2>3. SubSeq(order, n + 1, Len(order)) \in Seq(Group)
      BY <2>1, SubSeqProperties DEF n
    <2>4. QED
      BY <2>2, <2>3, ConcatProperties DEF RemoveAt, n
  <1>2. QED
    BY <1>1

\* A change of the workers starts or continues no call.
LEMMA ChangeKeepsCall ==
    ASSUME Change
    PROVE  /\ UNCHANGED <<pc, remaining, chosen, queue, offered>>
           /\ steady' \subseteq steady
  BY DEF Change, ProcessDies, WorkerExit, Restart, Answer, RestartReady, RestartDone, Unload,
     Load, callVars

LEMMA TypeChange ==
    ASSUME TypeInv, Change
    PROVE  TypeInv'
  <1>1. CallTyped'
    <2>1. Workers(chosen)' = Workers(chosen)
      BY ChangeKeepsCall DEF Workers
    <2>2. QED
      BY <2>1, ChangeKeepsCall DEF TypeInv, CallTyped
  <1>2. FairTyped'
    <2>1. (\E g, W : Recount(g, W)) \/ UNCHANGED fairVars
      BY DEF Change, ProcessDies, WorkerExit, Restart, Answer, RestartReady, RestartDone, Unload,
         Load
    <2>2. QED
      BY <2>1, RecountTyped DEF TypeInv, fairVars, FairTyped
  <1>3. PoolTyped'
    <2> USE DEF TypeInv, PoolTyped
    <2>1. ASSUME NEW w \in Worker,
                 ProcessDies(w) \/ WorkerExit(w) \/ Restart(w) \/ Answer(w)
          PROVE  PoolTyped'
      BY <2>1 DEF ProcessDies, WorkerExit, Restart, Answer
    <2>2. ASSUME RestartReady \/ RestartDone PROVE PoolTyped'
      BY <2>2 DEF RestartReady, RestartDone
    <2>3. ASSUME NEW g \in Group, Unload(g) PROVE PoolTyped'
      <3>1. order' \in Seq(Group)
        BY <2>3, OrderTyped DEF Unload
      <3>2. QED
        BY <2>3, <3>1 DEF Unload, callVars
    <2>4. ASSUME NEW g \in Group, Load(g) PROVE PoolTyped'
      <3>1. order' \in Seq(Group)
        BY <2>4, OrderTyped DEF Load
      <3>2. QED
        BY <2>4, <3>1, LiveAreWorkers DEF Load
    <2>5. QED
      BY <2>1, <2>2, <2>3, <2>4 DEF Change
  <1>4. smooth' \in [Group -> Int]
    <2> USE DEF TypeInv, routeVars
    <2>1. ASSUME NEW w \in Worker, ProcessDies(w) \/ WorkerExit(w) \/ Restart(w) \/ Answer(w)
          PROVE  smooth' \in [Group -> Int]
      BY <2>1 DEF ProcessDies, WorkerExit, Restart, Answer
    <2>2. ASSUME RestartReady PROVE smooth' \in [Group -> Int]
      BY <2>2 DEF RestartReady
    <2>3. ASSUME RestartDone PROVE smooth' \in [Group -> Int]
      BY <2>3 DEF RestartDone
    <2>4. ASSUME NEW g \in Group, Unload(g) \/ Load(g) PROVE smooth' \in [Group -> Int]
      BY <2>4 DEF Unload, Load
    <2>5. QED
      BY <2>1, <2>2, <2>3, <2>4 DEF Change
  <1>5. CursorsTyped'
    <2>1. cursor' = cursor \/ \E g \in Group : cursor' = [cursor EXCEPT ![g] = 0]
      <3>1. ASSUME NEW g \in Group, Unload(g)
            PROVE  cursor' = [cursor EXCEPT ![g] = 0]
        BY <3>1 DEF Unload
      <3>2. ASSUME \/ \E w \in Worker :
                         ProcessDies(w) \/ WorkerExit(w) \/ Restart(w) \/ Answer(w)
                   \/ RestartReady \/ RestartDone \/ \E g \in Group : Load(g)
            PROVE  cursor' = cursor
        BY <3>2 DEF ProcessDies, WorkerExit, Restart, Answer, RestartReady, RestartDone, Load,
           routeVars
      <3>3. QED
        BY <3>1, <3>2 DEF Change
    <2>2. \A g \in Group : 0 \in 0 .. ProcessCount[g] - 1
      BY RoutingAssumption
    <2>3. ASSUME NEW g \in Group, cursor' = [cursor EXCEPT ![g] = 0] PROVE CursorsTyped'
      BY <2>2, <2>3 DEF TypeInv, CursorsTyped
    <2>4. ASSUME cursor' = cursor PROVE CursorsTyped'
      BY <2>4 DEF TypeInv, CursorsTyped
    <2>5. QED
      BY <2>1, <2>3, <2>4
  <1>6. QED
    BY <1>1, <1>2, <1>3, <1>4, <1>5 DEF TypeInv

LEMMA TypeStep ==
    ASSUME TypeInv, [Next]_vars
    PROVE  TypeInv'
  <1>1. CASE UNCHANGED vars
    <2>1. Workers(chosen)' = Workers(chosen)
      BY <1>1 DEF vars, callVars, Workers
    <2>2. QED
      BY <1>1, <2>1 DEF vars, poolVars, routeVars, callVars, fairVars, TypeInv, CursorsTyped,
         PoolTyped, CallTyped, FairTyped
  <1>2. QED
    BY <1>1, TypeCall, TypeChange DEF Next

LEMMA TypeAlways == Spec => []TypeInv
  BY TypeStart, TypeStep, PTL DEF Spec

\* The routing state is well typed for any pool: a cursor stays the index of
\* a worker of its group and no counter falls below zero, whatever dies, is
\* restarted, loaded or unloaded between two requests or during one.
THEOREM RoutingTypeCorrect == Spec => []RoutingTypeOK
  BY TypeAlways, TypeMeans, PTL

-----------------------------------------------------------------------------
(* Refusals.  A worker that lived ever since the call began and was not     *)
(* offered the request is in the queue, or in a group still to be selected. *)
SteadyLive ==
    /\ steady \subseteq alive \cap up
    /\ pc = "idle" => steady = {}

StillToAsk ==
    /\ pc \in {"select", "order"} => \A w \in steady \ offered : GroupOf(w) \in remaining
    /\ pc = "offer" =>
          \A w \in steady \ offered :
             w \in queue \/ (GroupOf(w) \in remaining /\ GroupOf(w) # chosen)
    /\ pc = "refused" => steady \subseteq offered

AskInv == SteadyLive /\ StillToAsk

LEMMA AskCall ==
    ASSUME TypeInv, AskInv, Call
    PROVE  AskInv'
  <1>1. ASSUME NEW h \in Handler, Begin(h) PROVE AskInv'
    <2> DEFINE candidates == {g \in Serves[h] \cap Groups : LiveWorkers(g) # {}}
    <2>1. /\ pc' = IF candidates = {} THEN "refused" ELSE "select"
          /\ remaining' = candidates /\ offered' = {}
          /\ steady' = UNION {LiveWorkers(g) : g \in Serves[h] \cap Groups}
          /\ UNCHANGED <<alive, up>>
      BY <1>1 DEF Begin, poolVars
    <2>2. \A w \in steady' : w \in alive \cap up /\ GroupOf(w) \in candidates
      BY <2>1 DEF LiveWorkers, Workers
    <2>3. QED
      BY <2>1, <2>2 DEF AskInv, SteadyLive, StillToAsk
  <1>2. CASE Select
    <2>1. /\ pc = "select" /\ pc' = "order"
          /\ UNCHANGED <<alive, up, remaining, steady, offered>>
      BY <1>2 DEF Select, poolVars
    <2>2. QED
      BY <2>1 DEF AskInv, SteadyLive, StillToAsk
  <1>3. CASE Order
    <2>1. /\ pc = "order" /\ pc' = "offer" /\ queue' = LiveWorkers(chosen)
          /\ UNCHANGED <<alive, up, remaining, chosen, steady, offered>>
      BY <1>3 DEF Order, poolVars
    <2>2. \A w \in steady : GroupOf(w) = chosen => w \in LiveWorkers(chosen)
      BY DEF AskInv, SteadyLive, LiveWorkers, Workers, TypeInv, CallTyped
    <2>3. QED
      BY <2>1, <2>2 DEF AskInv, SteadyLive, StillToAsk
  <1>4. ASSUME NEW w \in Worker, Assign(w) PROVE AskInv'
    BY <1>4 DEF Assign, AskInv, SteadyLive, StillToAsk
  <1>5. ASSUME NEW w \in Worker, PutFails(w) PROVE AskInv'
    BY <1>5 DEF PutFails, AskInv, SteadyLive, StillToAsk, poolVars
  <1>6. CASE GroupExhausted
    <2>1. /\ pc = "offer" /\ queue = {} /\ remaining' = remaining \ {chosen}
          /\ pc' = IF remaining' = {} THEN "refused" ELSE "select"
          /\ UNCHANGED <<alive, up, steady, offered>>
      BY <1>6 DEF GroupExhausted, poolVars
    <2>2. QED
      BY <2>1 DEF AskInv, SteadyLive, StillToAsk
  <1>7. CASE Refused
    BY <1>7 DEF Refused, AskInv, SteadyLive, StillToAsk
  <1>8. QED
    BY <1>1, <1>2, <1>3, <1>4, <1>5, <1>6, <1>7 DEF Call

LEMMA AskChange ==
    ASSUME TypeInv, AskInv, Change
    PROVE  AskInv'
  <1>1. StillToAsk'
    BY ChangeKeepsCall DEF AskInv, StillToAsk
  <1>2. CASE \E w \in Worker : ProcessDies(w)
    BY <1>1, <1>2 DEF ProcessDies, AskInv, SteadyLive
  <1>3. CASE (\E w \in Worker : Restart(w) \/ Answer(w)) \/ RestartReady \/ RestartDone
             \/ \E g \in Group : Load(g)
    BY <1>1, <1>3, ChangeKeepsCall DEF Restart, Answer, RestartReady, RestartDone, Load, AskInv,
                                       SteadyLive
  <1>4. CASE (\E w \in Worker : WorkerExit(w)) \/ \E g \in Group : Unload(g)
    <2>1. pc = "idle"
      BY <1>4 DEF WorkerExit, Unload
    <2>2. QED
      BY <1>1, <2>1, ChangeKeepsCall DEF AskInv, SteadyLive
  <1>5. QED
    BY <1>2, <1>3, <1>4 DEF Change

\* execute refuses a request for want of a worker only after each worker of
\* the handler that lived from the beginning of the call to its end raised at
\* put_nowait, whatever died or came up meanwhile.
THEOREM RefusalIsJustified == Spec => []RefusedByAll
  <1>1. Init => AskInv
    BY DEF Init, AskInv, SteadyLive, StillToAsk
  <1>2. TypeInv /\ AskInv /\ [Next]_vars => AskInv'
    <2> SUFFICES ASSUME TypeInv, AskInv, [Next]_vars PROVE AskInv'
      OBVIOUS
    <2>1. CASE UNCHANGED vars
      BY <2>1 DEF vars, poolVars, callVars, AskInv, SteadyLive, StillToAsk
    <2>2. QED
      BY <2>1, AskCall, AskChange DEF Next
  <1>3. AskInv => RefusedByAll
    BY DEF AskInv, StillToAsk, RefusedByAll
  <1>4. QED
    BY <1>1, <1>2, <1>3, TypeAlways, PTL DEF Spec

-----------------------------------------------------------------------------
(* Idle workers.  With each request that passes a live worker without one,  *)
(* the cursor comes nearer to it.  A worker missing from the queue came to  *)
(* life after the queue was made, and has been passed by none.             *)
IdleAreLive == \A w \in Worker : idle[w] # 0 => w \in alive \cap up /\ outstanding[w] = 0

CursorNears == \A w \in Worker : idle[w] + Distance(w) < ProcessCount[GroupOf(w)]

NewcomersIdle ==
    pc = "offer" => \A w \in LiveWorkers(chosen) \ (queue \cup offered) : idle[w] = 0

IdleInv == IdleAreLive /\ CursorNears /\ NewcomersIdle

LEMMA DistanceTyped ==
    ASSUME CursorsTyped
    PROVE  \A w \in Worker : Distance(w) \in 0 .. ProcessCount[GroupOf(w)] - 1
  <1> SUFFICES ASSUME NEW w \in Worker
               PROVE  Distance(w) \in 0 .. ProcessCount[GroupOf(w)] - 1
    OBVIOUS
  <1> DEFINE P == ProcessCount[GroupOf(w)]
             c == cursor[GroupOf(w)]
  <1>1. P \in Nat \ {0} /\ Index(w) \in 0 .. P - 1 /\ c \in 0 .. P - 1
    BY WorkerIs DEF CursorsTyped
  <1> HIDE DEF P, c
  <1>2. (Index(w) - c) % P = IF c <= Index(w) THEN Index(w) - c ELSE Index(w) - c + P
    BY <1>1, DistanceOf
  <1>3. (Index(w) - c) % P \in 0 .. P - 1
    BY <1>1, <1>2
  <1>4. QED
    BY <1>3 DEF Distance, P, c

LEMMA IdleAssign ==
    ASSUME TypeInv, IdleInv, NEW w \in Worker, Assign(w)
    PROVE  IdleInv'
  <1>1. pc' = "idle" /\ UNCHANGED <<alive, up>> /\ pc = "offer"
    BY DEF Assign
  <1>2. w \in queue /\ chosen \in Group /\ GroupOf(w) = chosen
    BY FirstIsWorker DEF Assign
  <1>3. outstanding' = [outstanding EXCEPT ![w] = @ + 1]
    BY DEF Assign
  <1>4. cursor' = [cursor EXCEPT ![chosen] = (Index(w) + 1) % ProcessCount[chosen]]
    BY <1>2 DEF Assign, NextCursor
  <1>5. idle' = [v \in Worker |->
           IF v \in offered \cup {w} THEN 0
           ELSE IF v \in LiveWorkers(chosen) /\ outstanding[v] = 0 THEN idle[v] + 1
           ELSE idle[v]]
    BY DEF Assign
  <1>6. IdleAreLive'
    BY <1>1, <1>3, <1>5
       DEF IdleInv, IdleAreLive, LiveWorkers, TypeInv, PoolTyped, FairTyped
  <1>7. ASSUME NEW v \in Worker
        PROVE  idle'[v] + Distance(v)' < ProcessCount[GroupOf(v)]
    <2> DEFINE P == ProcessCount[GroupOf(v)]
    <2>1. P \in Nat \ {0} /\ Distance(v)' \in 0 .. P - 1 /\ idle[v] \in Nat
      <3>1. TypeInv'
        BY TypeAssign
      <3>2. Distance(v)' = (Index(v) - cursor'[GroupOf(v)]) % P
        BY DEF Distance, Index, GroupOf
      <3>3. cursor'[GroupOf(v)] \in 0 .. P - 1 /\ P \in Nat \ {0} /\ Index(v) \in 0 .. P - 1
        BY <3>1, WorkerIs DEF TypeInv, CursorsTyped
      <3>4. (Index(v) - cursor'[GroupOf(v)]) % P \in 0 .. P - 1
        <4> DEFINE j == Index(v)
                   c == cursor'[GroupOf(v)]
        <4>1. j \in 0 .. P - 1 /\ c \in 0 .. P - 1 /\ P \in Nat \ {0}
          BY <3>3
        <4> HIDE DEF j, c, P
        <4>2. (j - c) % P = IF c <= j THEN j - c ELSE j - c + P
          BY <4>1, DistanceOf
        <4>3. (j - c) % P \in 0 .. P - 1
          BY <4>1, <4>2
        <4>4. QED
          BY <4>3 DEF j, c
      <3>5. QED
        BY <3>2, <3>3, <3>4 DEF TypeInv, FairTyped
    <2>2. CASE idle'[v] = 0
      BY <2>1, <2>2
    <2>3. CASE GroupOf(v) # chosen
      <3>1. cursor'[GroupOf(v)] = cursor[GroupOf(v)]
        BY <1>4, <2>3, WorkerIs DEF TypeInv, CursorsTyped
      <3>2. Distance(v)' = Distance(v)
        BY <3>1 DEF Distance, Index, GroupOf
      <3>3. v \notin LiveWorkers(chosen)
        BY <2>3 DEF LiveWorkers, Workers
      <3>4. idle'[v] \in {0, idle[v]}
        BY <1>5, <3>3
      <3>5. idle[v] + Distance(v) < P
        BY DEF IdleInv, CursorNears
      <3>6. QED
        BY <2>1, <3>2, <3>4, <3>5
    <2>4. CASE GroupOf(v) = chosen /\ idle'[v] # 0
      <3>1. v # w /\ v \notin offered /\ v \in LiveWorkers(chosen) /\ outstanding[v] = 0
            /\ idle'[v] = idle[v] + 1
        <4>1. v # w /\ v \notin offered
          BY <1>5, <2>4
        <4>2. v \in LiveWorkers(chosen) /\ outstanding[v] = 0
          <5>1. CASE idle[v] # 0
            BY <2>4, <5>1 DEF IdleInv, IdleAreLive, LiveWorkers, Workers
          <5>2. CASE idle[v] = 0
            BY <1>5, <2>4, <5>2
          <5>3. QED
            BY <5>1, <5>2
        <4>3. QED
          BY <1>5, <4>1, <4>2
      <3>2. /\ Index(v) \in 0 .. P - 1 /\ Index(w) \in 0 .. P - 1 /\ Index(w) # Index(v)
            /\ cursor[chosen] \in 0 .. P - 1
        BY <1>2, <2>4, <3>1, WorkerIs DEF TypeInv, CursorsTyped
      <3> DEFINE i == Index(w)
                 j == Index(v)
                 c == cursor[chosen]
                 d == (i + 1) % P
      <3>3. cursor'[chosen] = d
        BY <1>2, <1>4, <2>4 DEF TypeInv, CursorsTyped
      <3>4. Distance(v)' = (j - d) % P
        BY <2>4, <3>3 DEF Distance, Index, GroupOf
      <3>5. Distance(v) = (j - c) % P /\ Distance(w) = (i - c) % P
        BY <1>2, <2>4 DEF Distance
      <3>6. /\ (j - d) % P \in 0 .. P - 2
            /\ (i - c) % P <= (j - c) % P => (j - d) % P < (j - c) % P
        <4> HIDE DEF P
        <4>1. P \in Nat \ {0} /\ i \in 0 .. P - 1 /\ j \in 0 .. P - 1 /\ c \in 0 .. P - 1 /\ i # j
          BY <2>1, <3>2
        <4> HIDE DEF i, j, c
        <4>2. QED
          BY <4>1, CursorMoves
      <3> HIDE DEF P, i, j, c, d
      <3>7. CASE v \in queue
        <4>1. OfferedBefore(w, v)
          BY <3>7 DEF Assign, First
        <4>2. outstanding[w] \in Nat
          BY DEF TypeInv, PoolTyped
        <4>3. Distance(w) <= Distance(v)
          BY <3>1, <4>1, <4>2 DEF OfferedBefore
        <4>4. Distance(v)' < Distance(v)
          BY <3>4, <3>5, <3>6, <4>3
        <4>5. idle[v] + Distance(v) < P
          BY DEF IdleInv, CursorNears, P
        <4>6. Distance(v) \in 0 .. P - 1
          BY DistanceTyped DEF TypeInv, P
        <4>7. QED
          BY <2>1, <3>1, <4>4, <4>5, <4>6 DEF P
      <3>8. CASE v \notin queue
        <4>1. idle[v] = 0
          BY <1>1, <3>1, <3>8 DEF IdleInv, NewcomersIdle
        <4>2. QED
          BY <2>1, <3>1, <3>4, <3>6, <4>1 DEF P
      <3>9. QED
        BY <3>7, <3>8
    <2>5. QED
      BY <2>2, <2>3, <2>4
  <1>8. CursorNears'
    BY <1>7 DEF CursorNears, GroupOf
  <1>9. NewcomersIdle'
    BY <1>1 DEF NewcomersIdle
  <1>10. QED
    BY <1>6, <1>8, <1>9 DEF IdleInv

LEMMA IdleCall ==
    ASSUME TypeInv, IdleInv, Call
    PROVE  IdleInv'
  <1>1. ASSUME \/ \E h \in Handler : Begin(h)
               \/ Select \/ Order \/ GroupExhausted \/ Refused \/ \E w \in Worker : PutFails(w)
        PROVE  IdleInv'
    <2>1. UNCHANGED <<alive, up, outstanding, cursor, idle>>
      BY <1>1 DEF Begin, Select, Order, GroupExhausted, Refused, PutFails, poolVars, routeVars,
         fairVars
    <2>2. IdleAreLive'
      BY <2>1 DEF IdleInv, IdleAreLive
    <2>3. CursorNears'
      BY <2>1 DEF IdleInv, CursorNears, Distance, Index, GroupOf
    <2>4. NewcomersIdle'
      <3>1. CASE Order
        <4>1. LiveWorkers(chosen)' \subseteq queue'
          BY <3>1 DEF Order, LiveWorkers, Workers, poolVars
        <4>2. QED
          BY <4>1 DEF NewcomersIdle
      <3>2. CASE \E w \in Worker : PutFails(w)
        <4>1. /\ pc = "offer" /\ chosen' = chosen
              /\ queue \cup offered \subseteq queue' \cup offered'
          BY <3>2 DEF PutFails
        <4>2. LiveWorkers(chosen)' = LiveWorkers(chosen)
          BY <2>1, <4>1 DEF LiveWorkers, Workers
        <4>3. QED
          BY <2>1, <4>1, <4>2 DEF IdleInv, NewcomersIdle
      <3>3. ASSUME (\E h \in Handler : Begin(h)) \/ Select \/ GroupExhausted \/ Refused
            PROVE  NewcomersIdle'
        <4>1. pc' # "offer"
          BY <3>3 DEF Begin, Select, GroupExhausted, Refused
        <4>2. QED
          BY <4>1 DEF NewcomersIdle
      <3>4. QED
        BY <1>1, <3>1, <3>2, <3>3
    <2>5. QED
      BY <2>2, <2>3, <2>4 DEF IdleInv
  <1>2. QED
    BY <1>1, IdleAssign DEF Call

\* Counting starts anew for the workers that change.
LEMMA RecountIdle ==
    ASSUME TypeInv, NEW g, NEW W, Recount(g, W)
    PROVE  \A w \in Worker : IF w \in W THEN idle'[w] = 0 ELSE idle'[w] = idle[w]
  BY DEF Recount

\* A worker keeps its count only if it is as live and as busy as before; its
\* distance changes only with the cursor of its group.
LEMMA IdleFrame ==
    ASSUME TypeInv, TypeInv', IdleInv, UNCHANGED <<pc, chosen, queue, offered>>,
           \A w \in Worker :
              \/ idle'[w] = 0
              \/ /\ idle'[w] = idle[w]
                 /\ w \in alive \cap up /\ outstanding[w] = 0
                       => w \in alive' \cap up' /\ outstanding'[w] = 0
                 /\ w \in alive' \cap up' => w \in alive \cap up \/ pc # "offer"
                 /\ cursor'[GroupOf(w)] = cursor[GroupOf(w)]
    PROVE  IdleInv'
  <1>1. IdleAreLive'
    BY DEF IdleInv, IdleAreLive
  <1>2. CursorNears'
    <2> SUFFICES ASSUME NEW w \in Worker
                 PROVE  idle'[w] + Distance(w)' < ProcessCount[GroupOf(w)]
      BY DEF CursorNears, GroupOf
    <2>1. Distance(w)' = (Index(w) - cursor'[GroupOf(w)]) % ProcessCount[GroupOf(w)]
      BY DEF Distance, Index, GroupOf
    <2>2. CASE idle'[w] = 0
      <3> DEFINE P == ProcessCount[GroupOf(w)]
                 j == Index(w)
                 c == cursor'[GroupOf(w)]
      <3>1. j \in 0 .. P - 1 /\ c \in 0 .. P - 1 /\ P \in Nat \ {0}
        BY WorkerIs DEF TypeInv, CursorsTyped
      <3> HIDE DEF j, c, P
      <3>2. (j - c) % P = IF c <= j THEN j - c ELSE j - c + P
        BY <3>1, DistanceOf
      <3>3. (j - c) % P \in 0 .. P - 1
        BY <3>1, <3>2
      <3>4. QED
        BY <2>1, <2>2, <3>1, <3>3 DEF P, j, c
    <2>3. CASE idle'[w] # 0
      <3>1. idle'[w] = idle[w] /\ cursor'[GroupOf(w)] = cursor[GroupOf(w)]
        BY <2>3
      <3>2. Distance(w)' = Distance(w)
        BY <2>1, <3>1 DEF Distance
      <3>3. QED
        BY <3>1, <3>2 DEF IdleInv, CursorNears
    <2>4. QED
      BY <2>2, <2>3
  <1>3. NewcomersIdle'
    <2> SUFFICES ASSUME pc = "offer", NEW w \in Workers(chosen), w \in alive' \cap up',
                        w \notin queue \cup offered
                 PROVE  idle'[w] = 0
      BY DEF NewcomersIdle, LiveWorkers, Workers
    <2>1. w \in Worker
      BY DEF Workers
    <2>2. CASE idle'[w] # 0
      BY <2>1, <2>2 DEF IdleInv, NewcomersIdle, LiveWorkers
    <2>3. QED
      BY <2>2
  <1>4. QED
    BY <1>1, <1>2, <1>3 DEF IdleInv

LEMMA IdleChange ==
    ASSUME TypeInv, IdleInv, Change
    PROVE  IdleInv'
  <1> DEFINE Kept(w) ==
        \/ idle'[w] = 0
        \/ /\ idle'[w] = idle[w]
           /\ w \in alive \cap up /\ outstanding[w] = 0
                 => w \in alive' \cap up' /\ outstanding'[w] = 0
           /\ w \in alive' \cap up' => w \in alive \cap up \/ pc # "offer"
           /\ cursor'[GroupOf(w)] = cursor[GroupOf(w)]
  <1>1. TypeInv' /\ UNCHANGED <<pc, chosen, queue, offered>>
    BY TypeChange, ChangeKeepsCall
  <1>2. ASSUME NEW v \in Worker, ProcessDies(v), NEW w \in Worker PROVE Kept(w)
    BY <1>2, RecountIdle DEF ProcessDies, routeVars
  <1>3. ASSUME NEW v \in Worker, WorkerExit(v), NEW w \in Worker PROVE Kept(w)
    BY <1>3, RecountIdle DEF WorkerExit, TypeInv, PoolTyped
  <1>4. ASSUME NEW v \in Worker, Restart(v), NEW w \in Worker PROVE Kept(w)
    BY <1>4 DEF Restart, routeVars, fairVars
  <1>5. ASSUME NEW v \in Worker, Answer(v), NEW w \in Worker PROVE Kept(w)
    BY <1>5 DEF Answer, routeVars, fairVars, TypeInv, PoolTyped
  <1>6. ASSUME RestartReady, NEW w \in Worker PROVE Kept(w)
    BY <1>6, RecountIdle DEF RestartReady, routeVars
  <1>7. ASSUME RestartDone, NEW w \in Worker PROVE Kept(w)
    <2>1. UNCHANGED <<alive, up, outstanding, cursor>>
      BY <1>7 DEF RestartDone
    <2>2. Recount(GroupOf(restarted), {restarted}) \/ idle' = idle
      BY <1>7 DEF RestartDone, fairVars
    <2>3. QED
      BY <2>1, <2>2, RecountIdle
  <1>8. ASSUME NEW g \in Group, Unload(g), NEW w \in Worker PROVE Kept(w)
    <2>1. CASE GroupOf(w) = g
      BY <1>8, <2>1, RecountIdle DEF Unload, Workers
    <2>2. CASE GroupOf(w) # g
      <3>1. idle'[w] = idle[w] /\ w \notin Workers(g)
        BY <1>8, <2>2, RecountIdle DEF Unload, Workers
      <3>2. cursor'[GroupOf(w)] = cursor[GroupOf(w)]
        BY <1>8, <2>2, WorkerIs DEF Unload, TypeInv, CursorsTyped
      <3>3. QED
        BY <1>8, <3>1, <3>2 DEF Unload
    <2>3. QED
      BY <2>1, <2>2
  <1>9. ASSUME NEW g \in Group, Load(g), NEW w \in Worker PROVE Kept(w)
    BY <1>9 DEF Load, routeVars, fairVars
  <1>10. \A w \in Worker : Kept(w)
    BY <1>2, <1>3, <1>4, <1>5, <1>6, <1>7, <1>8, <1>9 DEF Change
  <1>11. QED
    BY <1>1, <1>10, IdleFrame

\* Before a live worker without requests is offered one, each other process of
\* its group takes at most one: the cursor always moves towards it, although
\* others die, come back and answer, and put_nowait fails.
THEOREM CursorReachesEveryone == Spec => []NoWorkerIdles
  <1>1. Init => IdleInv
    <2> SUFFICES ASSUME Init PROVE IdleInv
      OBVIOUS
    <2>1. \A w \in Worker : Distance(w) \in 0 .. ProcessCount[GroupOf(w)] - 1
      BY TypeStart, DistanceTyped DEF TypeInv
    <2>2. CursorNears
      BY <2>1, WorkerIs DEF Init, CursorNears
    <2>3. QED
      BY <2>2 DEF Init, IdleInv, IdleAreLive, NewcomersIdle
  <1>2. TypeInv /\ IdleInv /\ [Next]_vars => IdleInv'
    <2> SUFFICES ASSUME TypeInv, IdleInv, [Next]_vars PROVE IdleInv'
      OBVIOUS
    <2>1. CASE UNCHANGED vars
      BY <2>1, TypeStep, IdleFrame DEF vars, poolVars, routeVars, callVars, fairVars
    <2>2. QED
      BY <2>1, IdleCall, IdleChange DEF Next
  <1>3. TypeInv /\ IdleInv => NoWorkerIdles
    <2> SUFFICES ASSUME TypeInv, IdleInv, NEW w \in Worker
                 PROVE  idle[w] < ProcessCount[GroupOf(w)]
      BY DEF NoWorkerIdles
    <2>1. Distance(w) \in 0 .. ProcessCount[GroupOf(w)] - 1 /\ idle[w] \in Nat
      BY DistanceTyped DEF TypeInv, FairTyped
    <2>2. QED
      BY <2>1, WorkerIs DEF IdleInv, CursorNears
  <1>4. QED
    BY <1>1, <1>2, <1>3, TypeAlways, PTL DEF Spec

-----------------------------------------------------------------------------
(* Finite sets: induction by a smallest counterexample, and its uses.      *)
\* Any set of subsets of a finite set has a smallest member.
LEMMA MinimalSubset ==
    ASSUME NEW S, IsFiniteSet(S), NEW T, T \subseteq SUBSET S, T # {}
    PROVE  \E A \in T : \A B \in T : B \subseteq A => B = A
  <1>1. FiniteSubsetsOf(S) = SUBSET S
    BY FS_FiniteSubsetsOfFinite
  <1>2. IsWellFoundedOn(StrictSubsetOrdering(S), SUBSET S)
    BY <1>1, FS_StrictSubsetOrderingWellFounded
  <1>3. \E A \in T : \A B \in T : ~ (<<B, A>> \in StrictSubsetOrdering(S))
    BY <1>2, WFMin
  <1>4. QED
    BY <1>3 DEF StrictSubsetOrdering

\* A finite set of numbers has a largest one.
LEMMA MaxExists ==
    ASSUME NEW S, IsFiniteSet(S), S \subseteq Int, S # {}
    PROVE  Max(S) \in S /\ \A x \in S : x <= Max(S)
  <1> DEFINE T == {A \in SUBSET S : A # {} /\ \A x \in A : \E y \in A : y > x}
  <1>1. ASSUME T # {} PROVE FALSE
    <2>1. T \subseteq SUBSET S
      OBVIOUS
    <2>2. PICK A \in T : \A B \in T : B \subseteq A => B = A
      <3> HIDE DEF T
      <3>1. IsFiniteSet(S) /\ T \subseteq SUBSET S /\ T # {}
        BY <1>1, <2>1
      <3>2. QED
        BY ONLY <3>1, MinimalSubset
    <2>3. PICK x \in A : TRUE
      BY <2>2
    <2>4. A \in SUBSET S /\ A \ {x} \in SUBSET S /\ A \ {x} # A /\ x \in Int
      BY <2>1, <2>2, <2>3
    <2>5. \E y \in A : y > x
      BY <2>2, <2>3
    <2>6. A \ {x} \notin T /\ A \ {x} # {}
      <3>1. A \ {x} \notin T
        <4> HIDE DEF T
        <4>1. A \ {x} \subseteq A
          OBVIOUS
        <4>2. QED
          BY <2>2, <2>4, <4>1
      <3>2. ~(x > x)
        BY <2>4
      <3>3. QED
        BY <2>5, <3>1, <3>2
    <2>7. PICK m \in A \ {x} : \A y \in A \ {x} : ~(y > m)
      BY <2>4, <2>6
    <2>8. \E y \in A : y > m
      BY <2>2, <2>7
    <2>9. QED
      BY <2>4, <2>5, <2>7, <2>8
  <1>2. \E m \in S : \A x \in S : m >= x
    BY <1>1
  <1>3. Max(S) \in S /\ \A x \in S : Max(S) >= x
    BY <1>2 DEF Max
  <1>4. QED
    BY <1>3

-----------------------------------------------------------------------------
(* Adding up the groups of a set.  A sum over a set is a recursive function; *)
(* what the proofs need of it is that F[A] is v[g] for A = {g} and additive. *)
Measure(F, v) ==
    /\ F \in [SUBSET Group -> Int]
    /\ \A g \in Group : F[{g}] = v[g]
    /\ \A A, B \in SUBSET Group : A \cap B = {} => F[A \cup B] = F[A] + F[B]

LEMMA GroupFinite ==
    /\ Cardinality(Group) \in Nat
    /\ \A A \in SUBSET Group : IsFiniteSet(A) /\ Cardinality(A) \in Nat
                               /\ Cardinality(A) <= Cardinality(Group)
  BY RoutingAssumption, FS_Subset, FS_CardinalityType

LEMMA MeasureEmpty ==
    ASSUME NEW F, NEW v, Measure(F, v)
    PROVE  F[{}] = 0
  <1>1. {} \in SUBSET Group /\ {} \cap {} = {} /\ {} \cup {} = {}
    OBVIOUS
  <1>2. F[{} \cup {}] = F[{}] + F[{}] /\ F[{}] \in Int
    BY <1>1 DEF Measure
  <1>3. F[{} \cup {}] = F[{}]
    BY <1>1, Zenon
  <1> DEFINE x == F[{}]
  <1>4. x = x + x /\ x \in Int
    BY <1>2, <1>3
  <1> HIDE DEF x
  <1>5. x = 0
    BY <1>4
  <1>6. QED
    BY <1>5 DEF x

LEMMA MeasureSplit ==
    ASSUME NEW F, NEW v, Measure(F, v), NEW A \in SUBSET Group, NEW g \in A
    PROVE  F[A] = F[A \ {g}] + v[g]
  <1>1. (A \ {g}) \cup {g} = A /\ (A \ {g}) \cap {g} = {} /\ g \in Group
        /\ A \ {g} \in SUBSET Group /\ {g} \in SUBSET Group
    OBVIOUS
  <1>2. F[(A \ {g}) \cup {g}] = F[A \ {g}] + F[{g}] /\ F[{g}] = v[g]
    BY <1>1 DEF Measure
  <1>3. QED
    BY <1>1, <1>2

LEMMA CountSplit ==
    ASSUME NEW A \in SUBSET Group, NEW g \in A
    PROVE  Cardinality(A \ {g}) = Cardinality(A) - 1 /\ Cardinality(A) >= 1
  <1>1. IsFiniteSet(A) /\ Cardinality(A) \in Nat /\ Cardinality(A \ {g}) \in Nat
    <2>1. A \ {g} \in SUBSET Group
      OBVIOUS
    <2>2. QED
      BY <2>1, GroupFinite
  <1>2. Cardinality(A \ {g}) = Cardinality(A) - 1
    BY <1>1, FS_RemoveElement
  <1>3. QED
    BY <1>1, <1>2

\* A sum is at most as many times x as there are members, none above x.
LEMMA MeasureAtMost ==
    ASSUME NEW F, NEW v, Measure(F, v), NEW M \in SUBSET Group, NEW x \in Int,
           \A g \in M : v[g] <= x
    PROVE  F[M] <= Cardinality(M) * x
  <1> DEFINE T == {A \in SUBSET M : F[A] > Cardinality(A) * x}
  <1>1. ASSUME T # {} PROVE FALSE
    <2>1. PICK A \in T : \A B \in T : B \subseteq A => B = A
      <3>1. T \subseteq SUBSET M
        OBVIOUS
      <3> HIDE DEF T
      <3>2. QED
        BY <1>1, <3>1, GroupFinite, MinimalSubset
    <2>2. A \in SUBSET Group /\ A \subseteq M /\ F[A] > Cardinality(A) * x
      OBVIOUS
    <2>3. A # {}
      <3>1. F[{}] = 0 /\ Cardinality({}) = 0 /\ ~(0 > 0 * x)
        BY MeasureEmpty, FS_EmptySet
      <3>2. QED
        BY <2>2, <3>1
    <2>4. PICK g : g \in A
      BY <2>3
    <2> DEFINE B == A \ {g}
    <2>5. B \in SUBSET M /\ ~(F[B] > Cardinality(B) * x)
      <3>1. B \in SUBSET M /\ B \subseteq A /\ B # A
        BY <2>2, <2>4
      <3>2. QED
        BY <2>1, <3>1
    <2>6. F[A] = F[B] + v[g] /\ Cardinality(B) = Cardinality(A) - 1
      BY <2>2, <2>4, MeasureSplit, CountSplit
    <2>7. v[g] <= x /\ v[g] \in Int /\ F[B] \in Int /\ Cardinality(A) \in Nat
          /\ Cardinality(B) \in Nat
      <3>1. {g} \in SUBSET Group /\ g \in Group /\ B \in SUBSET Group
        BY <2>2, <2>4
      <3>2. QED
        BY <2>2, <2>4, <3>1, GroupFinite DEF Measure
    <2> HIDE DEF T, B
    <2>8. F[B] <= Cardinality(B) * x
      BY <2>5, <2>7
    <2>9. Cardinality(A) * x = Cardinality(B) * x + x
      BY <2>6, <2>7
    <2>10. QED
      BY <2>2, <2>6, <2>7, <2>8, <2>9
  <1>2. F[M] \in Int /\ Cardinality(M) * x \in Int
    BY GroupFinite DEF Measure
  <1>3. QED
    BY <1>1, <1>2

\* A number above x - p and above -m * x - q is above their weighted mean.
LEMMA Average ==
    ASSUME NEW m \in Nat, NEW y \in Int, NEW x \in Int, NEW p \in Int, NEW q \in Int,
           NEW r \in Int, y >= x - p, y >= -(m * x) - q, (m + 1) * r = m * p + q
    PROVE  y >= -r
  <1>1. m * (y - x + p) >= 0
    <2>1. \A a, b \in Nat : a * b >= 0
      OBVIOUS
    <2>2. y - x + p \in Nat
      OBVIOUS
    <2>3. QED
      BY <2>1, <2>2
  <1>2. m * (y - x + p) = m * y - m * x + m * p
    OBVIOUS
  <1> DEFINE my == m * y  mx == m * x  mp == m * p
  <1>3. my \in Int /\ mx \in Int /\ mp \in Int
    OBVIOUS
  <1>4. (m + 1) * (y + r) = my + y + (m + 1) * r
    OBVIOUS
  <1>5. (m + 1) * (y + r) >= 0
    <2> HIDE DEF my, mx, mp
    <2> DEFINE mr == (m + 1) * r  s == (m + 1) * (y + r)
    <2>1. mr \in Int /\ s = my + y + mr /\ mr = mp + q
      BY <1>4 DEF mp
    <2>2. my - mx + mp >= 0 /\ y >= -mx - q
      BY <1>1, <1>2 DEF my, mx, mp
    <2> HIDE DEF mr, s
    <2>3. s >= 0
      BY <2>1, <2>2, <1>3
    <2>4. QED
      BY <2>3 DEF s
  <1>6. y + r >= 0
    <2>1. SUFFICES ASSUME y + r <= -1 PROVE FALSE
      OBVIOUS
    <2>2. (m + 1) * (-(y + r) - 1) >= 0
      <3>1. \A a, b \in Nat : a * b >= 0
        OBVIOUS
      <3>2. -(y + r) - 1 \in Nat /\ m + 1 \in Nat
        BY <2>1
      <3>3. QED
        BY <3>1, <3>2
    <2>3. (m + 1) * (-(y + r) - 1) = -((m + 1) * (y + r)) - (m + 1)
      OBVIOUS
    <2>4. QED
      BY <1>5, <2>2, <2>3
  <1>7. QED
    BY <1>6

(* The credits of any k groups, added up and doubled, stay within Room(k) on *)
(* both sides.  The bounds of all sets are kept together: the credits of one *)
(* group alone have no inductive bound, since clearing one group's debt      *)
(* leaves the others with theirs.                                            *)
Room(k) == TwoLargest * k * (2 * Cardinality(Group) - k - 1)

LEMMA RoomMeets ==
    ASSUME NEW P \in Nat, NEW n \in Nat, NEW k \in Int, NEW m \in Nat
    PROVE  /\ (m + 1) * (P * k * (2 * n - k - 1)) =
                 m * (P * (k - 1) * (2 * n - (k - 1) - 1) + (m + 1) * P)
                 + P * (k + m) * (2 * n - (k + m) - 1)
           /\ (m + 1) * (P * k * (2 * n - k - 1)) =
                 m * (P * (k + 1) * (2 * n - (k + 1) - 1) + (m + 1) * P)
                 + P * (k - m) * (2 * n - (k - m) - 1)
  BY Z3

\* If no two groups earn more than P, k of them earn at most P * k / 2.
LEMMA EarnAtMost ==
    ASSUME NEW E, NEW e, Measure(E, e), NEW P \in Nat, NEW M \in SUBSET Group,
           \A g \in Group : e[g] \in Nat,
           \A f, g \in Group : f # g => e[f] + e[g] <= P,
           Cardinality(M) >= 2
    PROVE  2 * E[M] <= Cardinality(M) * P
  <1> DEFINE T == {A \in SUBSET M : Cardinality(A) >= 2 /\ 2 * E[A] > Cardinality(A) * P}
  <1>1. ASSUME T # {} PROVE FALSE
    <2>1. PICK A \in T : \A B \in T : B \subseteq A => B = A
      <3>1. T \subseteq SUBSET M
        OBVIOUS
      <3> HIDE DEF T
      <3>2. QED
        BY <1>1, <3>1, GroupFinite, MinimalSubset
    <2>2. /\ A \in SUBSET Group /\ A \subseteq M /\ Cardinality(A) \in Nat
          /\ Cardinality(A) >= 2 /\ 2 * E[A] > Cardinality(A) * P
      BY GroupFinite
    <2> HIDE DEF T
    <2>3. Cardinality({}) = 0 /\ \A x : Cardinality({x}) = 1
      BY FS_EmptySet, FS_Singleton
    <2>4. PICK f \in A : TRUE
      <3>1. Cardinality(A) # 0
        BY <2>2
      <3>2. A # {}
        BY <2>3, <3>1
      <3>3. QED
        BY <3>2
    <2>5. Cardinality(A \ {f}) = Cardinality(A) - 1 /\ E[A] = E[A \ {f}] + e[f]
      <3>1. A \in SUBSET Group
        BY <2>2
      <3>2. Cardinality(A \ {f}) = Cardinality(A) - 1
        BY <3>1, <2>4, CountSplit
      <3>3. E[A] = E[A \ {f}] + e[f]
        BY <3>1, <2>4, MeasureSplit
      <3>4. QED
        BY <3>2, <3>3
    <2>6. PICK h \in A : h # f
      <3>1. Cardinality(A \ {f}) # 0
        BY <2>2, <2>5
      <3>2. A \ {f} # {}
        BY <2>3, <3>1
      <3>3. QED
        BY <3>2
    <2>7. Cardinality(A \ {h}) = Cardinality(A) - 1 /\ E[A] = E[A \ {h}] + e[h]
      <3>1. A \in SUBSET Group
        BY <2>2
      <3>2. Cardinality(A \ {h}) = Cardinality(A) - 1
        BY <3>1, <2>6, CountSplit
      <3>3. E[A] = E[A \ {h}] + e[h]
        BY <3>1, <2>6, MeasureSplit
      <3>4. QED
        BY <3>2, <3>3
    <2>8. /\ e[f] \in Nat /\ e[h] \in Nat /\ e[f] + e[h] <= P
          /\ E[A \ {f}] \in Int /\ E[A \ {h}] \in Int
      <3>1. A \ {f} \in SUBSET Group /\ A \ {h} \in SUBSET Group
            /\ f \in Group /\ h \in Group /\ f # h
        BY <2>2, <2>4, <2>6
      <3>2. QED
        BY <3>1 DEF Measure
    <2>9. \A b \in A : Cardinality(A \ {b}) >= 2
                       => 2 * E[A \ {b}] <= (Cardinality(A) - 1) * P
      <3> SUFFICES ASSUME NEW b \in A, Cardinality(A \ {b}) >= 2
                   PROVE  2 * E[A \ {b}] <= (Cardinality(A) - 1) * P
        OBVIOUS
      <3>1. A \ {b} \in SUBSET M /\ A \ {b} \subseteq A /\ A \ {b} # A
        BY <2>2
      <3>2. A \ {b} \notin T
        BY <2>1, <3>1
      <3>3. ~(2 * E[A \ {b}] > Cardinality(A \ {b}) * P)
        BY <3>1, <3>2 DEF T
      <3>4. Cardinality(A \ {b}) = Cardinality(A) - 1
        BY <2>2, CountSplit
      <3>5. E[A \ {b}] \in Int
        BY <2>2 DEF Measure
      <3>6. QED
        BY <2>2, <3>3, <3>4, <3>5
    <2>10. CASE Cardinality(A) = 2
      <3>1. Cardinality(A \ {f}) = 1 /\ IsFiniteSet(A \ {f})
        <4>1. A \ {f} \in SUBSET Group
          BY <2>2
        <4>2. QED
          BY <4>1, <2>5, <2>10, GroupFinite
      <3>2. PICK x : A \ {f} = {x}
        BY <3>1, FS_Singleton
      <3>3. A \ {f} = {h}
        BY <2>6, <3>2
      <3>4. E[A \ {f}] = e[h]
        BY <2>2, <2>6, <3>3 DEF Measure
      <3>5. QED
        BY <2>2, <2>5, <2>8, <2>10, <3>4
    <2>11. CASE Cardinality(A) # 2
      <3> DEFINE c == Cardinality(A)  d == c * P
      <3>1. c \in Nat /\ c >= 3
        BY <2>2, <2>11
      <3>2. (c - 1) * P = d - P /\ d \in Int
        BY <3>1
      <3>3. Cardinality(A \ {f}) >= 2 /\ Cardinality(A \ {h}) >= 2
        BY <2>5, <2>7, <3>1
      <3>4. 2 * E[A \ {f}] <= (c - 1) * P /\ 2 * E[A \ {h}] <= (c - 1) * P
        BY <2>4, <2>6, <2>9, <3>3
      <3>5. 2 * E[A \ {f}] <= d - P /\ 2 * E[A \ {h}] <= d - P /\ 2 * E[A] > d
        BY <2>2, <3>2, <3>4
      <3> HIDE DEF c, d
      <3>6. QED
        BY <2>5, <2>7, <2>8, <3>2, <3>5
    <2>12. QED
      BY <2>10, <2>11
  <1>2. E[M] \in Int /\ Cardinality(M) * P \in Int
    BY GroupFinite DEF Measure
  <1>3. QED
    BY <1>1, <1>2

-----------------------------------------------------------------------------
(* One selection.                                                          *)
Bounded(F) ==
    \A A \in SUBSET Group : /\ 2 * F[A] <= Room(Cardinality(A))
                            /\ 2 * F[A] >= -Room(Cardinality(A))

LEMMA RoomTyped ==
    ASSUME TwoLargest \in Nat
    PROVE  \A k \in Int : Room(k) \in Int
  BY GroupFinite DEF Room

\* How the rooms of k - 1 and k + m groups make up the room of k.
LEMMA RoomBalance ==
    ASSUME TwoLargest \in Nat, NEW k \in Int, NEW m \in Nat
    PROVE  /\ (m + 1) * Room(k) = m * (Room(k - 1) + (m + 1) * TwoLargest) + Room(k + m)
           /\ (m + 1) * Room(k) = m * (Room(k + 1) + (m + 1) * TwoLargest) + Room(k - m)
  BY RoomMeets, GroupFinite DEF Room

LEMMA CountDisjoint ==
    ASSUME NEW A \in SUBSET Group, NEW B \in SUBSET Group, A \cap B = {}
    PROVE  Cardinality(A \cup B) = Cardinality(A) + Cardinality(B)
  <1>1. IsFiniteSet(A) /\ IsFiniteSet(B) /\ Cardinality(A) \in Nat /\ Cardinality(B) \in Nat
    BY GroupFinite
  <1>2. Cardinality(A \cup B) = Cardinality(A) + Cardinality(B) - Cardinality(A \cap B)
    BY <1>1, FS_Union
  <1>3. Cardinality(A \cap B) = 0
    BY FS_EmptySet
  <1>4. QED
    BY <1>1, <1>2, <1>3

\* What the groups of a set have when those in it earned e and one of them, g, paid.
Paid(F, E, g, R) == [A \in SUBSET Group |-> F[A] + E[A] - (IF g \in A THEN E[R] ELSE 0)]

\* A selection: with the credits v and the earnings e of the candidates R, the
\* richest one is g.  F and E add up v and e.
Contest(F, v, E, e, R, g) ==
    /\ Measure(F, v) /\ Bounded(F) /\ Measure(E, e)
    /\ R \in SUBSET Group /\ g \in R
    /\ \A A \in SUBSET Group : E[A] \in Nat /\ E[A] = E[A \cap R]
    /\ \A f \in Group : e[f] \in Nat
    /\ \A f, h \in Group : f # h => e[f] + e[h] <= TwoLargest
    /\ \A f \in R : v[f] + e[f] <= v[g] + e[g]

LEMMA ContestFacts ==
    ASSUME NEW F, NEW v, NEW E, NEW e, NEW R, NEW g, Contest(F, v, E, e, R, g)
    PROVE  /\ g \in Group /\ R \in SUBSET Group
           /\ \A A \in SUBSET Group : F[A] \in Int /\ E[A] \in Nat /\ E[A] = E[A \cap R]
           /\ \A A, B \in SUBSET Group : A \cap B = {} => /\ F[A \cup B] = F[A] + F[B]
                                                          /\ E[A \cup B] = E[A] + E[B]
           /\ \A A \in SUBSET Group : /\ 2 * F[A] <= Room(Cardinality(A))
                                      /\ 2 * F[A] >= -Room(Cardinality(A))
           /\ v[g] \in Int /\ e[g] \in Nat
  <1>1. {g} \in SUBSET Group /\ F[{g}] = v[g] /\ F[{g}] \in Int
    BY DEF Contest, Measure
  <1>2. QED
    BY <1>1 DEF Contest, Measure, Bounded

\* What a set of candidates has after earning, if none has more than x.
LEMMA EarnedAtMost ==
    ASSUME NEW F, NEW v, NEW E, NEW e, NEW R, NEW g, Contest(F, v, E, e, R, g),
           NEW M \in SUBSET R
    PROVE  F[M] + E[M] <= Cardinality(M) * (v[g] + e[g])
  <1> DEFINE H == [A \in SUBSET Group |-> F[A] + E[A]]
             u == [f \in Group |-> v[f] + e[f]]
  <1>1. Measure(H, u)
    <2>1. H \in [SUBSET Group -> Int]
      <3>1. \A A \in SUBSET Group : F[A] \in Int /\ E[A] \in Int
        BY DEF Contest, Measure
      <3>2. QED
        BY <3>1
    <2>2. ASSUME NEW f \in Group PROVE H[{f}] = u[f]
      <3>1. {f} \in SUBSET Group /\ F[{f}] = v[f] /\ E[{f}] = e[f]
        BY DEF Contest, Measure
      <3>2. QED
        BY <3>1
    <2>3. ASSUME NEW A \in SUBSET Group, NEW B \in SUBSET Group, A \cap B = {}
          PROVE  H[A \cup B] = H[A] + H[B]
      <3>1. /\ F[A \cup B] = F[A] + F[B] /\ E[A \cup B] = E[A] + E[B]
            /\ F[A] \in Int /\ F[B] \in Int /\ E[A] \in Nat /\ E[B] \in Nat
        BY <2>3 DEF Contest, Measure
      <3>2. H[A \cup B] = F[A \cup B] + E[A \cup B] /\ H[A] = F[A] + E[A] /\ H[B] = F[B] + E[B]
        OBVIOUS
      <3> HIDE DEF H
      <3>3. QED
        BY <3>1, <3>2
    <2>4. QED
      BY <2>1, <2>2, <2>3 DEF Measure
  <1>2. M \in SUBSET Group /\ v[g] + e[g] \in Int /\ \A f \in M : u[f] <= v[g] + e[g]
    <2>1. M \in SUBSET Group /\ g \in R /\ R \in SUBSET Group
      BY DEF Contest
    <2>2. {g} \in SUBSET Group /\ F[{g}] \in Int /\ F[{g}] = v[g] /\ e[g] \in Nat
      BY <2>1 DEF Contest, Measure
    <2>3. \A f \in M : u[f] <= v[g] + e[g]
      BY <2>1 DEF Contest
    <2>4. QED
      BY <2>1, <2>2, <2>3
  <1>3. H[M] = F[M] + E[M]
    BY <1>2
  <1> DEFINE x == v[g] + e[g]
  <1> HIDE DEF H, u, x
  <1>4. M \in SUBSET Group /\ x \in Int /\ \A f \in M : u[f] <= x
    BY <1>2 DEF x
  <1>5. H[M] <= Cardinality(M) * x
    BY <1>1, <1>4, MeasureAtMost
  <1>6. QED
    BY <1>3, <1>5 DEF x

\* What some groups and one more earn.
LEMMA PairsEarn ==
    ASSUME NEW F, NEW v, NEW E, NEW e, NEW R, NEW g, Contest(F, v, E, e, R, g),
           TwoLargest \in Nat, NEW M \in SUBSET Group, M # {}, g \notin M
    PROVE  2 * E[M \cup {g}] <= (Cardinality(M) + 1) * TwoLargest
  <1>1. g \in Group /\ M \cup {g} \in SUBSET Group /\ {g} \in SUBSET Group
    BY ContestFacts
  <1>2. Cardinality(M \cup {g}) = Cardinality(M) + 1
    <2>1. Cardinality({g}) = 1
      BY FS_Singleton
    <2>2. QED
      BY <1>1, <2>1, CountDisjoint
  <1>3. Cardinality(M) \in Nat /\ Cardinality(M) >= 1
    BY GroupFinite, FS_EmptySet
  <1>4. Measure(E, e) /\ (\A f \in Group : e[f] \in Nat)
        /\ \A f, h \in Group : f # h => e[f] + e[h] <= TwoLargest
    BY DEF Contest
  <1>5. Cardinality(M \cup {g}) >= 2
    BY <1>2, <1>3
  <1>6. 2 * E[M \cup {g}] <= Cardinality(M \cup {g}) * TwoLargest
    BY <1>1, <1>4, <1>5, EarnAtMost
  <1>7. QED
    BY <1>2, <1>6

\* A set with the payer in it does not fall too low: either the rest of it has
\* much debt, and then the payer, the richest, had little left to lose, or the
\* other candidates, all poorer, made up for it.
LEMMA PaidLower ==
    ASSUME NEW F, NEW v, NEW E, NEW e, NEW R, NEW g, Contest(F, v, E, e, R, g),
           TwoLargest \in Nat, NEW S \in SUBSET Group, g \in S
    PROVE  2 * (F[S] + E[S] - E[R]) >= -Room(Cardinality(S))
  <1> DEFINE M == R \ S  A == S \ {g}  x == v[g] + e[g]  k == Cardinality(S)
             m == Cardinality(M)  y == F[S] + E[S] - E[R]
  <1>0. /\ \A B \in SUBSET Group : F[B] \in Int /\ E[B] \in Nat /\ E[B] = E[B \cap R]
        /\ \A B, C \in SUBSET Group : B \cap C = {} => F[B \cup C] = F[B] + F[C]
        /\ \A B, C \in SUBSET Group : B \cap C = {} => E[B \cup C] = E[B] + E[C]
    BY DEF Contest, Measure
  <1>1. /\ M \in SUBSET Group /\ A \in SUBSET Group /\ S \cup M \in SUBSET Group
        /\ M \cup {g} \in SUBSET Group /\ {g} \in SUBSET Group
        /\ g \in R /\ g \notin M /\ M \in SUBSET R
    BY ContestFacts DEF Contest
  <1>2. k \in Nat /\ m \in Nat /\ Cardinality(A) = k - 1 /\ Cardinality(S \cup M) = k + m
    <2>1. Cardinality(S \cup M) = k + m
      <3>1. S \cap M = {}
        OBVIOUS
      <3>2. QED
        BY <1>1, <3>1, CountDisjoint
    <2>2. Cardinality(A) = k - 1
      BY CountSplit
    <2>3. QED
      BY <1>1, <2>1, <2>2, GroupFinite
  <1>3. E[R] = E[S] + E[M]
    <2>1. E[S \cup M] = E[(S \cup M) \cap R]
      BY <1>0, <1>1
    <2>2. (S \cup M) \cap R = R /\ S \cap M = {}
      BY <1>1
    <2>3. E[S \cup M] = E[S] + E[M]
      BY <1>0, <1>1, <2>2
    <2>4. QED
      BY <2>1, <2>2, <2>3
  <1>4. F[S] = F[A] + v[g] /\ E[S] = E[A] + e[g] /\ F[S \cup M] = F[S] + F[M]
        /\ E[M \cup {g}] = E[M] + e[g]
    <2>1. F[S] = F[A] + v[g] /\ E[S] = E[A] + e[g]
      BY MeasureSplit DEF Contest
    <2>2. F[S \cup M] = F[S] + F[M] /\ E[M \cup {g}] = E[M] + E[{g}]
      <3>1. S \cap M = {} /\ M \cap {g} = {}
        BY <1>1
      <3>2. QED
        BY <1>0, <1>1, <3>1
    <2>3. E[{g}] = e[g]
      BY <1>1 DEF Contest, Measure
    <2>4. QED
      BY <2>1, <2>2, <2>3
  <1>5. /\ F[S] \in Int /\ F[A] \in Int /\ F[M] \in Int /\ v[g] \in Int
        /\ E[S] \in Nat /\ E[A] \in Nat /\ E[M] \in Nat /\ e[g] \in Nat
    BY <1>1, ContestFacts
  <1>6. /\ 2 * F[A] >= -Room(k - 1)
        /\ 2 * F[S] >= -Room(k)
        /\ 2 * F[S \cup M] >= -Room(k + m)
    BY <1>1, <1>2, ContestFacts
  <1>7. Room(k) \in Int /\ Room(k - 1) \in Int /\ Room(k + m) \in Int
    BY <1>2, RoomTyped
  <1>8. CASE M = {}
    <2>1. E[M] = 0
      BY <1>8, MeasureEmpty DEF Contest
    <2> HIDE DEF M, A, x, k, m
    <2>2. QED
      BY <1>3, <1>5, <1>6, <1>7, <2>1 DEF k
  <1>9. CASE M # {}
    <2>1. 2 * E[M \cup {g}] <= (m + 1) * TwoLargest
      BY <1>1, <1>9, PairsEarn
    <2>2. F[M] + E[M] <= m * x
      BY <1>1, EarnedAtMost
    <2> DEFINE p == Room(k - 1) + (m + 1) * TwoLargest  q == Room(k + m)
               d == (m + 1) * TwoLargest  mx == m * x
    <2>3. d \in Int /\ mx \in Int /\ m * (2 * x) = 2 * mx /\ x \in Int
      BY <1>2, <1>5
    <2>4. p = Room(k - 1) + d
      OBVIOUS
    <2>5. (m + 1) * Room(k) = m * p + q
      BY <1>2, RoomBalance
    <2> HIDE DEF M, A, k, m, d, mx, p
    <2>6. 2 * y >= 2 * x - p
      BY <1>3, <1>4, <1>5, <1>6, <1>7, <2>1, <2>3, <2>4 DEF d
    <2>7. 2 * y >= -(2 * mx) - q
      BY <1>3, <1>4, <1>5, <1>6, <1>7, <2>2, <2>3 DEF mx
    <2>8. 2 * y \in Int /\ 2 * x \in Int /\ p \in Int /\ q \in Int /\ m \in Nat /\ Room(k) \in Int
      BY <1>2, <1>3, <1>5, <1>7, <2>3, <2>4
    <2> HIDE DEF x, y, q
    <2>9. 2 * y >= -(m * (2 * x)) - q
      BY <2>3, <2>7
    <2>10. 2 * y >= -Room(k)
      BY <2>5, <2>6, <2>8, <2>9, Average
    <2>11. QED
      BY <2>10 DEF y, k
  <1>10. QED
    BY <1>8, <1>9

\* A set without the payer does not rise too high, by the same two bounds.
LEMMA PaidUpper ==
    ASSUME NEW F, NEW v, NEW E, NEW e, NEW R, NEW g, Contest(F, v, E, e, R, g),
           TwoLargest \in Nat, NEW S \in SUBSET Group, g \notin S
    PROVE  2 * (F[S] + E[S]) <= Room(Cardinality(S))
  <1> DEFINE A == S \cap R  C == S \ R  x == v[g] + e[g]  k == Cardinality(S)
             m == Cardinality(A)  y == F[S] + E[S]
  <1>1. /\ \A B \in SUBSET Group : F[B] \in Int /\ E[B] \in Nat /\ E[B] = E[B \cap R]
        /\ \A B, D \in SUBSET Group : B \cap D = {} => F[B \cup D] = F[B] + F[D]
        /\ \A B, D \in SUBSET Group : B \cap D = {} => E[B \cup D] = E[B] + E[D]
    BY DEF Contest, Measure
  <1>2. /\ A \in SUBSET Group /\ C \in SUBSET Group /\ S \cup {g} \in SUBSET Group
        /\ A \cup {g} \in SUBSET Group /\ {g} \in SUBSET Group
        /\ g \in R /\ g \notin A /\ A \in SUBSET R /\ C \cap A = {} /\ C \cup A = S
        /\ S \cap {g} = {} /\ A \cap {g} = {}
    BY ContestFacts DEF Contest
  <1>3. k \in Nat /\ m \in Nat /\ Cardinality(C) = k - m /\ Cardinality(S \cup {g}) = k + 1
    <2>1. Cardinality(S \cup {g}) = k + 1
      <3>1. Cardinality({g}) = 1
        BY FS_Singleton
      <3>2. Cardinality(S \cup {g}) = k + Cardinality({g})
        BY <1>2, CountDisjoint
      <3>3. QED
        BY <3>1, <3>2
    <2>2. Cardinality(C \cup A) = Cardinality(C) + m
      BY <1>2, CountDisjoint
    <2>3. k \in Nat /\ m \in Nat /\ Cardinality(C) \in Nat
      BY <1>2, GroupFinite
    <2>4. k = Cardinality(C) + m
      BY <1>2, <2>2
    <2> HIDE DEF k, m, C
    <2>5. QED
      BY <2>1, <2>3, <2>4
  <1>4. E[S] = E[A] /\ F[S] = F[C] + F[A]
    <2>1. E[S] = E[S \cap R]
      BY <1>1
    <2>2. F[C \cup A] = F[C] + F[A]
      <3> HIDE DEF C, A
      <3>1. QED
        BY <1>1, <1>2
    <2>3. QED
      BY <1>2, <2>1, <2>2
  <1>5. F[S \cup {g}] = F[S] + v[g] /\ E[A \cup {g}] = E[A] + e[g]
    <2>1. F[S \cup {g}] = F[S] + F[{g}] /\ E[A \cup {g}] = E[A] + E[{g}]
      BY <1>1, <1>2
    <2>2. E[{g}] = e[g] /\ F[{g}] = v[g]
      BY <1>2 DEF Contest, Measure
    <2>3. QED
      BY <2>1, <2>2
  <1>6. /\ F[S] \in Int /\ F[C] \in Int /\ F[A] \in Int /\ v[g] \in Int
        /\ E[S] \in Nat /\ E[A] \in Nat /\ e[g] \in Nat
    BY <1>1, <1>2, ContestFacts
  <1>7. /\ 2 * F[C] <= Room(k - m)
        /\ 2 * F[S] <= Room(k)
        /\ 2 * F[S \cup {g}] <= Room(k + 1)
    <2>1. \A B \in SUBSET Group : 2 * F[B] <= Room(Cardinality(B))
      BY DEF Contest, Bounded
    <2>2. QED
      BY <1>2, <1>3, <2>1
  <1>8. Room(k) \in Int /\ Room(k - m) \in Int /\ Room(k + 1) \in Int
    BY <1>3, RoomTyped
  <1>9. CASE A = {}
    <2>1. E[A] = 0
      BY <1>9, MeasureEmpty DEF Contest
    <2>2. F[S] + E[S] = F[S]
      BY <1>4, <1>6, <2>1
    <2>3. QED
      BY <1>7, <2>2
  <1>10. CASE A # {}
    <2>1. 2 * E[A \cup {g}] <= (m + 1) * TwoLargest
      BY <1>2, <1>10, PairsEarn
    <2>2. F[A] + E[A] <= m * x
      BY <1>2, EarnedAtMost
    <2> DEFINE p == Room(k + 1) + (m + 1) * TwoLargest  q == Room(k - m)
               d == (m + 1) * TwoLargest  mx == m * x
    <2>3. d \in Int /\ mx \in Int /\ m * (2 * x) = 2 * mx /\ x \in Int
      BY <1>3, <1>6
    <2>4. p = Room(k + 1) + d
      OBVIOUS
    <2>5. (m + 1) * Room(k) = m * p + q
      BY <1>3, RoomBalance
    <2> HIDE DEF A, C, k, m, d, mx, p
    <2>6. -(2 * y) >= 2 * x - p
      BY <1>4, <1>5, <1>6, <1>7, <1>8, <2>1, <2>3, <2>4 DEF d
    <2>7. -(2 * y) >= -(2 * mx) - q
      BY <1>4, <1>6, <1>7, <1>8, <2>2, <2>3 DEF mx
    <2>8. /\ -(2 * y) \in Int /\ 2 * x \in Int /\ p \in Int /\ q \in Int /\ m \in Nat
          /\ Room(k) \in Int /\ 2 * y \in Int
      BY <1>3, <1>6, <1>8, <2>3, <2>4
    <2> HIDE DEF x, y, q
    <2>9. -(2 * y) >= -(m * (2 * x)) - q
      BY <2>3, <2>7
    <2>10. -(2 * y) >= -Room(k)
      BY <2>5, <2>6, <2>8, <2>9, Average
    <2>11. 2 * y <= Room(k)
      BY <2>8, <2>10
    <2>12. QED
      BY <2>11 DEF y, k
  <1>11. QED
    BY <1>9, <1>10

\* The payment keeps the bounds.
LEMMA PaymentBounded ==
    ASSUME NEW F, NEW v, NEW E, NEW e, NEW R, NEW g, Contest(F, v, E, e, R, g),
           TwoLargest \in Nat
    PROVE  /\ Bounded(Paid(F, E, g, R))
           /\ Measure(Paid(F, E, g, R),
                      [f \in Group |-> v[f] + e[f] - (IF f = g THEN E[R] ELSE 0)])
  <1> DEFINE G == Paid(F, E, g, R)
             u == [f \in Group |-> v[f] + e[f] - (IF f = g THEN E[R] ELSE 0)]
  <1>1. /\ \A B \in SUBSET Group : F[B] \in Int /\ E[B] \in Nat /\ E[B] = E[B \cap R]
        /\ \A B, D \in SUBSET Group : B \cap D = {} => F[B \cup D] = F[B] + F[D]
        /\ \A B, D \in SUBSET Group : B \cap D = {} => E[B \cup D] = E[B] + E[D]
        /\ \A f \in Group : F[{f}] = v[f] /\ E[{f}] = e[f]
        /\ R \in SUBSET Group
    BY DEF Contest, Measure
  <1>2. \A A \in SUBSET Group : G[A] = F[A] + E[A] - (IF g \in A THEN E[R] ELSE 0)
    BY DEF Paid
  <1>3. G \in [SUBSET Group -> Int]
    <2>1. ASSUME NEW A \in SUBSET Group
          PROVE  F[A] + E[A] - (IF g \in A THEN E[R] ELSE 0) \in Int
      <3>1. F[A] \in Int /\ E[A] \in Nat /\ E[R] \in Nat
        BY <1>1
      <3>2. CASE g \in A
        BY <3>1, <3>2
      <3>3. CASE g \notin A
        BY <3>1, <3>3
      <3>4. QED
        BY <3>2, <3>3
    <2>2. G = [A \in SUBSET Group |-> F[A] + E[A] - (IF g \in A THEN E[R] ELSE 0)]
      BY DEF Paid
    <2> HIDE DEF G
    <2>3. QED
      BY <2>1, <2>2
  <1> HIDE DEF G
  <1>4. ASSUME NEW A \in SUBSET Group
        PROVE  2 * G[A] <= Room(Cardinality(A)) /\ 2 * G[A] >= -Room(Cardinality(A))
    <2>1. /\ 2 * F[A] <= Room(Cardinality(A)) /\ 2 * F[A] >= -Room(Cardinality(A))
          /\ Room(Cardinality(A)) \in Int /\ F[A] \in Int /\ E[A] \in Nat /\ E[R] \in Nat
      <3>1. Room(Cardinality(A)) \in Int
        BY GroupFinite, RoomTyped
      <3>2. QED
        BY <1>1, <3>1 DEF Contest, Bounded
    <2>2. CASE g \in A
      <3>1. G[A] = F[A] + E[A] - E[R]
        BY <1>2, <2>2
      <3>2. E[A] <= E[R]
        <4>1. /\ A \cap R \in SUBSET Group /\ R \ A \in SUBSET Group
              /\ (A \cap R) \cap (R \ A) = {} /\ (A \cap R) \cup (R \ A) = R
          BY <1>1
        <4>2. E[(A \cap R) \cup (R \ A)] = E[A \cap R] + E[R \ A]
          BY <1>1, <4>1
        <4>3. E[A] = E[A \cap R] /\ E[R \ A] \in Nat
          BY <1>1, <4>1
        <4>4. E[(A \cap R) \cup (R \ A)] = E[R]
          BY <4>1
        <4>5. E[R] = E[A] + E[R \ A]
          BY <4>2, <4>3, <4>4
        <4>6. QED
          BY <2>1, <4>3, <4>5
      <3>3. 2 * (F[A] + E[A] - E[R]) >= -Room(Cardinality(A))
        BY <2>2, PaidLower
      <3>4. QED
        BY <2>1, <3>1, <3>2, <3>3
    <2>3. CASE g \notin A
      <3>1. G[A] = F[A] + E[A]
        BY <1>2, <2>1, <2>3
      <3>2. 2 * (F[A] + E[A]) <= Room(Cardinality(A))
        BY <2>3, PaidUpper
      <3>3. QED
        BY <2>1, <3>1, <3>2
    <2>4. QED
      BY <2>2, <2>3
  <1>5. ASSUME NEW f \in Group PROVE G[{f}] = u[f]
    <2>1. {f} \in SUBSET Group /\ (g \in {f} <=> f = g)
      OBVIOUS
    <2>2. F[{f}] = v[f] /\ E[{f}] = e[f]
      BY <1>1
    <2>3. G[{f}] = v[f] + e[f] - (IF f = g THEN E[R] ELSE 0)
      BY <1>2, <2>1, <2>2
    <2>4. QED
      BY <2>3
  <1>6. ASSUME NEW A \in SUBSET Group, NEW B \in SUBSET Group, A \cap B = {}
        PROVE  G[A \cup B] = G[A] + G[B]
    <2>1. /\ F[A \cup B] = F[A] + F[B] /\ E[A \cup B] = E[A] + E[B]
          /\ F[A] \in Int /\ F[B] \in Int /\ E[A] \in Nat /\ E[B] \in Nat /\ E[R] \in Nat
      BY <1>1, <1>6
    <2>2. G[A \cup B] = F[A \cup B] + E[A \cup B] - (IF g \in A \cup B THEN E[R] ELSE 0)
      BY <1>2
    <2>3. /\ G[A] = F[A] + E[A] - (IF g \in A THEN E[R] ELSE 0)
          /\ G[B] = F[B] + E[B] - (IF g \in B THEN E[R] ELSE 0)
      BY <1>2
    <2>4. ~(g \in A /\ g \in B)
      BY <1>6
    <2>5. QED
      BY <2>1, <2>2, <2>3, <2>4
  <1>7. Measure(G, u)
    BY <1>3, <1>5, <1>6 DEF Measure
  <1>8. QED
    BY <1>4, <1>7 DEF G, Bounded

-----------------------------------------------------------------------------
(* The weights: the live workers of a group.                               *)
\* A group has at most as many live workers as processes.
LEMMA WorkersOf ==
    ASSUME NEW g \in Group
    PROVE  /\ IsFiniteSet(LiveWorkers(g))
           /\ Cardinality(LiveWorkers(g)) \in Nat
           /\ Cardinality(LiveWorkers(g)) <= ProcessCount[g]
           /\ LiveWorkers(g) # {} => Cardinality(LiveWorkers(g)) >= 1
  <1> DEFINE I == 0 .. ProcessCount[g] - 1
  <1>1. IsFiniteSet(I) /\ Cardinality(I) = ProcessCount[g]
    <2> DEFINE b == ProcessCount[g] - 1
    <2>1. ProcessCount[g] \in Nat \ {0}
      BY RoutingAssumption
    <2>2. b \in Int /\ 0 \in Int /\ b >= 0
      BY <2>1
    <2>3. b + 1 = ProcessCount[g]
      BY <2>1
    <2> HIDE DEF b
    <2>4. IsFiniteSet(0 .. b) /\ Cardinality(0 .. b) = b + 1
      <3>1. IsFiniteSet(0 .. b) /\ Cardinality(0 .. b) = (IF 0 > b THEN 0 ELSE b - 0 + 1)
        BY <2>2, FS_Interval
      <3> DEFINE c == Cardinality(0 .. b)
      <3> HIDE DEF c
      <3>2. c = b + 1
        BY <2>2, <3>1 DEF c
      <3>3. QED
        BY <3>1, <3>2 DEF c
    <2>5. I = 0 .. b
      BY DEF b
    <2> HIDE DEF I
    <2>6. QED
      BY <2>3, <2>4, <2>5
  <1>2. IsFiniteSet({g}) /\ Cardinality({g}) = 1
    BY FS_Singleton
  <1>3. IsFiniteSet({g} \X I) /\ Cardinality({g} \X I) = ProcessCount[g]
    <2> HIDE DEF I
    <2>1. /\ IsFiniteSet({g} \X I)
          /\ Cardinality({g} \X I) = Cardinality({g}) * Cardinality(I)
      BY <1>1, <1>2, FS_Product
    <2>2. ProcessCount[g] \in Nat
      BY RoutingAssumption
    <2>3. QED
      BY <1>1, <1>2, <2>1, <2>2
  <1>4. LiveWorkers(g) \subseteq {g} \X I
    <2> SUFFICES ASSUME NEW w \in LiveWorkers(g) PROVE w \in {g} \X I
      OBVIOUS
    <2>1. w \in Worker /\ GroupOf(w) = g
      BY DEF LiveWorkers, Workers
    <2>2. Index(w) \in I /\ w = <<g, Index(w)>>
      BY <2>1, WorkerIs
    <2>3. QED
      BY <2>2
  <1> HIDE DEF I
  <1>5. /\ IsFiniteSet(LiveWorkers(g))
        /\ Cardinality(LiveWorkers(g)) <= ProcessCount[g]
    BY <1>3, <1>4, FS_Subset
  <1>6. Cardinality(LiveWorkers(g)) \in Nat
    BY <1>5, FS_CardinalityType
  <1>7. LiveWorkers(g) # {} => Cardinality(LiveWorkers(g)) # 0
    BY <1>5, FS_EmptySet
  <1>8. QED
    BY <1>5, <1>6, <1>7

\* TwoLargest is what its name says.
LEMMA PairSums ==
    /\ TwoLargest \in Nat
    /\ \A f, g \in Group : f # g => ProcessCount[f] + ProcessCount[g] <= TwoLargest
    /\ Cardinality(Group) >= 2 => TwoLargest >= 2
  <1> DEFINE p(fg) == ProcessCount[fg[1]] + ProcessCount[fg[2]]
             T == {p(fg) : fg \in Pairs}
             S == {0} \cup T
  <1>1. IsFiniteSet(Pairs)
    <2>1. IsFiniteSet(Group \X Group)
      BY RoutingAssumption, FS_Product
    <2>2. Pairs \subseteq Group \X Group
      BY DEF Pairs
    <2>3. QED
      BY <2>1, <2>2, FS_Subset
  <1>2. IsFiniteSet(T)
    <2> DEFINE q == [fg \in Pairs |-> p(fg)]
    <2>1. q \in Surjection(Pairs, T)
      BY DEF Surjection
    <2> HIDE DEF q, T
    <2>2. QED
      BY <1>1, <2>1, FS_Surjection
  <1>3. IsFiniteSet(S)
    <2>1. IsFiniteSet({0})
      BY FS_Singleton
    <2> HIDE DEF T
    <2>2. QED
      BY <1>2, <2>1, FS_Union
  <1>4. S \subseteq Nat
    <2> SUFFICES ASSUME NEW fg \in Pairs PROVE p(fg) \in Nat
      OBVIOUS
    <2>1. fg[1] \in Group /\ fg[2] \in Group
      BY DEF Pairs
    <2>2. QED
      BY <2>1, RoutingAssumption
  <1>5. TwoLargest = Max(S)
    BY DEF TwoLargest
  <1>6. Max(S) \in S /\ \A x \in S : x <= Max(S)
    <2>1. S # {} /\ S \subseteq Int
      BY <1>4
    <2> HIDE DEF S
    <2>2. QED
      BY <1>3, <2>1, MaxExists
  <1>7. ASSUME NEW f \in Group, NEW g \in Group, f # g
        PROVE  ProcessCount[f] + ProcessCount[g] \in S
    <2>1. <<f, g>> \in Pairs
      BY <1>7 DEF Pairs
    <2>2. p(<<f, g>>) \in T
      BY <2>1
    <2>3. QED
      BY <2>2
  <1> HIDE DEF S
  <1>8. TwoLargest \in Nat
    BY <1>4, <1>5, <1>6
  <1>9. \A f, g \in Group : f # g => ProcessCount[f] + ProcessCount[g] <= TwoLargest
    BY <1>5, <1>6, <1>7
  <1>10. ASSUME Cardinality(Group) >= 2 PROVE TwoLargest >= 2
    <2>1. Group # {}
      BY <1>10, FS_EmptySet
    <2>2. PICK g \in Group : TRUE
      BY <2>1
    <2>3. Group # {g}
      BY <1>10, FS_Singleton
    <2>4. PICK f \in Group : f # g
      BY <2>2, <2>3
    <2>5. ProcessCount[f] + ProcessCount[g] <= TwoLargest
      BY <1>9, <2>4
    <2>6. ProcessCount[f] \in Nat \ {0} /\ ProcessCount[g] \in Nat \ {0}
      BY RoutingAssumption
    <2>7. QED
      BY <1>8, <2>5, <2>6
  <1>11. QED
    BY <1>8, <1>9, <1>10

-----------------------------------------------------------------------------
\* What the candidates of a set of groups earn together.
Earning(f)  == IF f \in remaining THEN Cardinality(LiveWorkers(f)) ELSE 0
EarnedBy(S) == UNION {LiveWorkers(f) : f \in S \cap remaining}
Earnings    == [S \in SUBSET Group |-> Cardinality(EarnedBy(S))]

LEMMA EarnedByFacts ==
    /\ \A S \in SUBSET Group : IsFiniteSet(EarnedBy(S)) /\ Cardinality(EarnedBy(S)) \in Nat
    /\ \A A, B \in SUBSET Group : A \cap B = {} =>
          Cardinality(EarnedBy(A \cup B)) = Cardinality(EarnedBy(A)) + Cardinality(EarnedBy(B))
  <1>1. ASSUME NEW S PROVE IsFiniteSet(EarnedBy(S)) /\ Cardinality(EarnedBy(S)) \in Nat
    <2>1. EarnedBy(S) \subseteq Worker
      BY LiveAreWorkers DEF EarnedBy
    <2>2. QED
      BY <2>1, WorkerFinite, FS_Subset, FS_CardinalityType
  <1>2. ASSUME NEW A \in SUBSET Group, NEW B \in SUBSET Group, A \cap B = {}
        PROVE  Cardinality(EarnedBy(A \cup B)) =
                  Cardinality(EarnedBy(A)) + Cardinality(EarnedBy(B))
    <2>1. EarnedBy(A \cup B) = EarnedBy(A) \cup EarnedBy(B)
      BY DEF EarnedBy
    <2>2. EarnedBy(A) \cap EarnedBy(B) = {}
      <3>1. \A f \in A, g \in B : LiveWorkers(f) \cap LiveWorkers(g) = {}
        BY <1>2 DEF LiveWorkers, Workers
      <3>2. QED
        BY <3>1 DEF EarnedBy
    <2>3. /\ Cardinality(EarnedBy(A) \cup EarnedBy(B)) =
                Cardinality(EarnedBy(A)) + Cardinality(EarnedBy(B))
                - Cardinality(EarnedBy(A) \cap EarnedBy(B))
      BY <1>1, FS_Union
    <2>4. Cardinality(EarnedBy(A) \cap EarnedBy(B)) = 0
      BY <2>2, FS_EmptySet
    <2> DEFINE a == Cardinality(EarnedBy(A))  b == Cardinality(EarnedBy(B))
    <2>5. Cardinality(EarnedBy(A)) \in Nat /\ Cardinality(EarnedBy(B)) \in Nat
      BY <1>1
    <2>6. a + b - 0 = a + b
      <3>1. a \in Nat /\ b \in Nat
        BY <2>5
      <3> HIDE DEF a, b
      <3>2. QED
        BY <3>1
    <2>7. QED
      BY <2>1, <2>3, <2>4, <2>6
  <1>3. QED
    BY <1>1, <1>2

\* The workers of different groups are different: the earnings add up.
LEMMA EarningsMeasure ==
    /\ Measure(Earnings, [f \in Group |-> Earning(f)])
    /\ \A f \in Group : Earning(f) \in Nat /\ Earning(f) <= ProcessCount[f]
    /\ \A A \in SUBSET Group : Earnings[A] \in Nat /\ Earnings[A] = Earnings[A \cap remaining]
  <1>1. ASSUME NEW A \in SUBSET Group
        PROVE  Earnings[A] \in Nat /\ Earnings[A] = Earnings[A \cap remaining]
               /\ Earnings[A] = Cardinality(EarnedBy(A))
    <2>1. A \cap remaining \in SUBSET Group
      OBVIOUS
    <2>2. EarnedBy(A \cap remaining) = EarnedBy(A)
      BY DEF EarnedBy
    <2>3. QED
      BY <2>1, <2>2, EarnedByFacts DEF Earnings
  <1>2. ASSUME NEW f \in Group
        PROVE  Earning(f) \in Nat /\ Earning(f) <= ProcessCount[f]
    BY WorkersOf, RoutingAssumption DEF Earning
  <1>3. Earnings \in [SUBSET Group -> Int]
    <2>1. \A A \in SUBSET Group : Cardinality(EarnedBy(A)) \in Int
      BY EarnedByFacts
    <2>2. QED
      BY <2>1 DEF Earnings
  <1>4. ASSUME NEW f \in Group PROVE Earnings[{f}] = Earning(f)
    <2>1. {f} \in SUBSET Group
      OBVIOUS
    <2>2. CASE f \in remaining
      <3>1. EarnedBy({f}) = LiveWorkers(f)
        BY <2>2 DEF EarnedBy
      <3>2. QED
        BY <2>1, <2>2, <3>1 DEF Earnings, Earning
    <2>3. CASE f \notin remaining
      <3>1. EarnedBy({f}) = {}
        BY <2>3 DEF EarnedBy
      <3>2. Cardinality({}) = 0
        BY FS_EmptySet
      <3>3. QED
        BY <2>1, <2>3, <3>1, <3>2 DEF Earnings, Earning
    <2>4. QED
      BY <2>2, <2>3
  <1>5. ASSUME NEW A \in SUBSET Group, NEW B \in SUBSET Group, A \cap B = {}
        PROVE  Earnings[A \cup B] = Earnings[A] + Earnings[B]
    <2>1. A \cup B \in SUBSET Group
      OBVIOUS
    <2>2. QED
      BY <1>1, <1>5, <2>1, EarnedByFacts
  <1> HIDE DEF Earnings
  <1>6. Measure(Earnings, [f \in Group |-> Earning(f)])
    BY <1>3, <1>4, <1>5 DEF Measure
  <1>7. QED
    BY <1>1, <1>2, <1>6

-----------------------------------------------------------------------------
(* The credits of the pool.                                                *)
\* The room of one group, and how rooms grow with the number of groups.
LEMMA RoomFacts ==
    /\ Room(1) = 2 * CreditBound /\ CreditBound \in Int
    /\ \A k \in 0 .. Cardinality(Group) : Room(k) \in Int /\ Room(k) >= 0
    /\ \A k \in 1 .. Cardinality(Group) : Room(k - 1) <= Room(k)
  <1> DEFINE n == Cardinality(Group)  t == TwoLargest
  <1>1. n \in Nat /\ t \in Nat
    BY GroupFinite, PairSums
  <1>2. CreditBound = t * (n - 1) /\ \A k \in Int : Room(k) = t * k * (2 * n - k - 1)
    BY DEF CreditBound, Room
  <1> HIDE DEF n, t
  <1>3. CreditBound \in Int
    BY <1>1, <1>2
  <1>4. Room(1) = 2 * CreditBound
    <2>1. Room(1) = t * 1 * (2 * n - 1 - 1)
      BY <1>2
    <2>2. t * 1 * (2 * n - 1 - 1) = 2 * (t * (n - 1))
      BY <1>1, Z3
    <2>3. QED
      BY <1>2, <2>1, <2>2
  <1>5. \A a, b \in Nat : a * b \in Nat
    OBVIOUS
  <1>6. ASSUME NEW k \in 0 .. n PROVE Room(k) \in Int /\ Room(k) >= 0
    <2>1. CASE k = 0
      <3>1. Room(0) = t * 0 * (2 * n - 0 - 1)
        BY <1>2
      <3>2. t * 0 * (2 * n - 0 - 1) = 0
        BY <1>1
      <3>3. QED
        BY <2>1, <3>1, <3>2
    <2>2. CASE k >= 1
      <3>1. k \in Nat /\ 2 * n - k - 1 \in Nat
        BY <1>1, <2>2
      <3>2. t * k \in Nat
        BY <1>1, <1>5, <3>1
      <3>3. (t * k) * (2 * n - k - 1) \in Nat
        BY <1>5, <3>1, <3>2
      <3>4. Room(k) = t * k * (2 * n - k - 1)
        BY <1>2, <3>1
      <3>5. QED
        BY <3>3, <3>4
    <2>3. QED
      BY <1>1, <2>1, <2>2
  <1>7. ASSUME NEW k \in 1 .. n PROVE Room(k - 1) <= Room(k)
    <2>1. k \in Int /\ k - 1 \in Int /\ n - k \in Nat
      BY <1>1
    <2>2. Room(k) = t * k * (2 * n - k - 1)
          /\ Room(k - 1) = t * (k - 1) * (2 * n - (k - 1) - 1)
      BY <1>2, <2>1
    <2>3. t * k * (2 * n - k - 1) = t * (k - 1) * (2 * n - (k - 1) - 1) + 2 * (t * (n - k))
      BY <1>1, <2>1, Z3
    <2> DEFINE d == t * (n - k)
    <2>4. d \in Nat
      BY <1>1, <1>5, <2>1
    <2> HIDE DEF d
    <2>5. Room(k) = Room(k - 1) + 2 * d
      BY <2>2, <2>3 DEF d
    <2>6. Room(k - 1) \in Int
      <3>1. k - 1 \in 0 .. n
        BY <1>1
      <3>2. QED
        BY <1>6, <3>1
    <2>7. QED
      BY <2>4, <2>5, <2>6
  <1>8. QED
    BY <1>3, <1>4, <1>6, <1>7 DEF n

\* A group whose credit is cleared.
LEMMA ClearedBounded ==
    ASSUME NEW F, NEW v \in [Group -> Int], Measure(F, v), Bounded(F), NEW g \in Group
    PROVE  \E G : Measure(G, [v EXCEPT ![g] = 0]) /\ Bounded(G)
  <1> DEFINE G == [A \in SUBSET Group |-> F[A \ {g}]]
             u == [v EXCEPT ![g] = 0]
  <1>1. /\ \A A \in SUBSET Group : F[A] \in Int
        /\ \A A, B \in SUBSET Group : A \cap B = {} => F[A \cup B] = F[A] + F[B]
        /\ \A f \in Group : F[{f}] = v[f]
    BY DEF Measure
  <1>2. \A A \in SUBSET Group : A \ {g} \in SUBSET Group /\ G[A] = F[A \ {g}]
    OBVIOUS
  <1>3. G \in [SUBSET Group -> Int]
    <2>1. \A A \in SUBSET Group : F[A \ {g}] \in Int
      BY <1>1, <1>2
    <2>2. QED
      BY <2>1
  <1> HIDE DEF G
  <1>4. ASSUME NEW f \in Group PROVE G[{f}] = u[f]
    <2>1. {f} \in SUBSET Group
      OBVIOUS
    <2>2. CASE f = g
      <3>1. {f} \ {g} = {}
        BY <2>2
      <3>2. F[{}] = 0
        BY MeasureEmpty
      <3>3. QED
        BY <1>2, <2>1, <2>2, <3>1, <3>2
    <2>3. CASE f # g
      <3>1. {f} \ {g} = {f}
        BY <2>3
      <3>2. QED
        BY <1>1, <1>2, <2>1, <2>3, <3>1
    <2>4. QED
      BY <2>2, <2>3
  <1>5. ASSUME NEW A \in SUBSET Group, NEW B \in SUBSET Group, A \cap B = {}
        PROVE  G[A \cup B] = G[A] + G[B]
    <2>1. /\ A \ {g} \in SUBSET Group /\ B \ {g} \in SUBSET Group /\ A \cup B \in SUBSET Group
          /\ (A \ {g}) \cap (B \ {g}) = {} /\ (A \cup B) \ {g} = (A \ {g}) \cup (B \ {g})
      BY <1>5
    <2>2. F[(A \ {g}) \cup (B \ {g})] = F[A \ {g}] + F[B \ {g}]
      BY <1>1, <2>1
    <2>3. G[A \cup B] = F[(A \cup B) \ {g}] /\ G[A] = F[A \ {g}] /\ G[B] = F[B \ {g}]
      BY <1>2, <2>1
    <2>4. QED
      BY <2>1, <2>2, <2>3
  <1>6. ASSUME NEW A \in SUBSET Group
        PROVE  2 * G[A] <= Room(Cardinality(A)) /\ 2 * G[A] >= -Room(Cardinality(A))
    <2>1. CASE g \notin A
      <3>1. A \ {g} = A
        BY <2>1
      <3>2. QED
        BY <1>2, <3>1 DEF Bounded
    <2>2. CASE g \in A
      <3> DEFINE B == A \ {g}  k == Cardinality(A)
      <3>1. B \in SUBSET Group /\ G[A] = F[B] /\ F[B] \in Int
        BY <1>1, <1>2
      <3>2. Cardinality(B) = k - 1 /\ k \in 1 .. Cardinality(Group)
        <4>1. Cardinality(B) = k - 1 /\ k >= 1
          BY <2>2, CountSplit
        <4>2. k \in Nat /\ k <= Cardinality(Group) /\ Cardinality(Group) \in Nat
          BY GroupFinite
        <4> HIDE DEF B, k
        <4>3. QED
          BY <4>1, <4>2
      <3>3. 2 * F[B] <= Room(Cardinality(B)) /\ 2 * F[B] >= -Room(Cardinality(B))
        BY <3>1 DEF Bounded
      <3> HIDE DEF B, k
      <3>4. Room(k - 1) <= Room(k) /\ Room(k) \in Int /\ Room(k - 1) \in Int
        <4>1. k - 1 \in 0 .. Cardinality(Group) /\ k \in 0 .. Cardinality(Group)
          BY <3>2, GroupFinite
        <4>2. QED
          BY <3>2, <4>1, RoomFacts
      <3>5. 2 * F[B] <= Room(k - 1) /\ 2 * F[B] >= -Room(k - 1)
        BY <3>2, <3>3
      <3>6. 2 * G[A] <= Room(k) /\ 2 * G[A] >= -Room(k)
        BY <3>1, <3>4, <3>5
      <3>7. QED
        BY <3>6 DEF k
    <2>3. QED
      BY <2>1, <2>2
  <1>7. Measure(G, u)
    BY <1>3, <1>4, <1>5 DEF Measure
  <1>8. Bounded(G)
    BY <1>6 DEF Bounded
  <1>9. QED
    BY <1>7, <1>8

\* The credits of any set of groups, added up, stay within its room.
CreditInv == \E F : Measure(F, smooth) /\ Bounded(F)

LEMMA CreditStart == Init => CreditInv
  <1> SUFFICES ASSUME Init PROVE CreditInv
    OBVIOUS
  <1> DEFINE F == [A \in SUBSET Group |-> 0]
  <1>1. Measure(F, smooth)
    BY DEF Init, Measure
  <1>2. ASSUME NEW A \in SUBSET Group
        PROVE  2 * F[A] <= Room(Cardinality(A)) /\ 2 * F[A] >= -Room(Cardinality(A))
    <2>1. F[A] = 0
      OBVIOUS
    <2>2. Cardinality(A) \in 0 .. Cardinality(Group)
      BY GroupFinite
    <2>3. Room(Cardinality(A)) \in Int /\ Room(Cardinality(A)) >= 0
      BY <2>2, RoomFacts
    <2> HIDE DEF F
    <2>4. QED
      BY <2>1, <2>3
  <1>3. Bounded(F)
    BY <1>2 DEF Bounded
  <1>4. QED
    BY <1>1, <1>3 DEF CreditInv

LEMMA EachBounded ==
    ASSUME NEW F, NEW v \in [Group -> Int], Measure(F, v), Bounded(F), NEW g \in Group
    PROVE  -CreditBound <= v[g] /\ v[g] <= CreditBound
  <1>1. {g} \in SUBSET Group
    OBVIOUS
  <1>2. F[{g}] = v[g] /\ v[g] \in Int
    BY DEF Measure
  <1>3. 2 * F[{g}] <= Room(Cardinality({g})) /\ 2 * F[{g}] >= -Room(Cardinality({g}))
    BY <1>1 DEF Bounded
  <1>4. Cardinality({g}) = 1
    BY FS_Singleton
  <1>5. QED
    BY <1>2, <1>3, <1>4, RoomFacts

LEMMA CreditMeans == TypeInv /\ CreditInv => CreditBounded
  <1> SUFFICES ASSUME TypeInv, CreditInv PROVE CreditBounded
    OBVIOUS
  <1>1. PICK F : Measure(F, smooth) /\ Bounded(F)
    BY DEF CreditInv
  <1>2. smooth \in [Group -> Int]
    BY DEF TypeInv
  <1>3. QED
    BY <1>1, <1>2, EachBounded DEF CreditBounded

\* _select_group_locked in terms of earnings: the richest pays what all earned.
LEMMA SelectPays ==
    ASSUME TypeInv, Select
    PROVE  \E g \in remaining :
              /\ Richest(g)
              /\ smooth' = [f \in Group |->
                    smooth[f] + Earning(f) - (IF f = g THEN Earnings[remaining] ELSE 0)]
              /\ passed' = [f \in Group |-> IF f = g THEN 0
                                            ELSE IF f \in remaining THEN passed[f] + 1
                                            ELSE passed[f]]
              /\ chosen' = g
  <1> DEFINE total == Cardinality(UNION {LiveWorkers(f) : f \in remaining})
  <1>1. total = Earnings[remaining] /\ total \in Nat
    <2>1. remaining \in SUBSET Group /\ remaining \cap remaining = remaining
      BY DEF TypeInv, CallTyped
    <2>2. Earnings[remaining] = Cardinality(EarnedBy(remaining))
      BY <2>1 DEF Earnings
    <2>3. EarnedBy(remaining) = UNION {LiveWorkers(f) : f \in remaining}
      BY <2>1 DEF EarnedBy
    <2>4. QED
      BY <2>1, <2>2, <2>3, EarningsMeasure
  <1> HIDE DEF total
  <1>2. PICK g \in remaining :
           /\ Richest(g) /\ chosen' = g
           /\ smooth' = [f \in Group |->
                 IF f = g THEN Earned(f) - Charge(f, total) ELSE Earned(f)]
           /\ passed' = [f \in Group |-> IF f = g THEN 0
                                         ELSE IF f \in remaining THEN passed[f] + 1
                                         ELSE passed[f]]
    BY DEF Select, total
  <1>3. ASSUME NEW f \in Group
        PROVE  (IF f = g THEN Earned(f) - Charge(f, total) ELSE Earned(f)) =
               smooth[f] + Earning(f) - (IF f = g THEN Earnings[remaining] ELSE 0)
    <2>1. Earned(f) = smooth[f] + Earning(f)
      BY DEF Earned, Earning
    <2>2. smooth[f] \in Int /\ Earning(f) \in Nat
      BY EarningsMeasure DEF TypeInv
    <2>3. QED
      BY <1>1, <2>1, <2>2 DEF Charge
  <1>4. smooth' = [f \in Group |->
            smooth[f] + Earning(f) - (IF f = g THEN Earnings[remaining] ELSE 0)]
    BY <1>2, <1>3
  <1>5. QED
    BY <1>2, <1>4

\* A selection keeps the bounds of all sets.
LEMMA CreditSelect ==
    ASSUME TypeInv, CreditInv, Select
    PROVE  CreditInv'
  <1> DEFINE e == [f \in Group |-> Earning(f)]
  <1>1. PICK g \in remaining :
           /\ Richest(g)
           /\ smooth' = [f \in Group |->
                 smooth[f] + Earning(f) - (IF f = g THEN Earnings[remaining] ELSE 0)]
    BY SelectPays
  <1>2. PICK F : Measure(F, smooth) /\ Bounded(F)
    BY DEF CreditInv
  <1>3. remaining \in SUBSET Group /\ smooth \in [Group -> Int]
    BY DEF TypeInv, CallTyped
  <1>4. \A f \in Group : e[f] = Earning(f) /\ e[f] \in Nat /\ e[f] <= ProcessCount[f]
    BY EarningsMeasure
  <1>5. ASSUME NEW f \in Group, NEW h \in Group, f # h PROVE e[f] + e[h] <= TwoLargest
    <2>1. ProcessCount[f] + ProcessCount[h] <= TwoLargest /\ TwoLargest \in Nat
      BY <1>5, PairSums
    <2>2. ProcessCount[f] \in Nat /\ ProcessCount[h] \in Nat
      BY RoutingAssumption
    <2>3. QED
      BY <1>4, <2>1, <2>2
  <1>6. ASSUME NEW f \in remaining PROVE smooth[f] + e[f] <= smooth[g] + e[g]
    <2>1. Earned(g) > Earned(f) \/ Earned(g) = Earned(f)
      BY <1>1 DEF Richest
    <2>2. f \in Group /\ g \in Group
      BY <1>3
    <2>3. Earned(f) = smooth[f] + e[f] /\ Earned(g) = smooth[g] + e[g]
      BY <1>4, <2>2 DEF Earned, Earning
    <2>4. smooth[f] \in Int /\ smooth[g] \in Int /\ e[f] \in Nat /\ e[g] \in Nat
      BY <1>3, <1>4, <2>2
    <2>5. QED
      BY <2>1, <2>3, <2>4
  <1>7. \A A \in SUBSET Group : Earnings[A] \in Nat /\ Earnings[A] = Earnings[A \cap remaining]
    BY EarningsMeasure
  <1>8. Measure(Earnings, e)
    BY EarningsMeasure
  <1> HIDE DEF e
  <1>9. Contest(F, smooth, Earnings, e, remaining, g)
    BY <1>1, <1>2, <1>3, <1>4, <1>5, <1>6, <1>7, <1>8 DEF Contest
  <1> DEFINE G == Paid(F, Earnings, g, remaining)
             u == [f \in Group |-> smooth[f] + e[f] - (IF f = g THEN Earnings[remaining] ELSE 0)]
  <1>10. Bounded(G) /\ Measure(G, u)
    BY <1>9, PairSums, PaymentBounded
  <1>11. smooth' = u
    BY <1>1, <1>4
  <1> HIDE DEF G, u
  <1>12. Measure(G, smooth')
    BY <1>10, <1>11
  <1>13. QED
    BY <1>10, <1>12 DEF CreditInv, Measure

\* What the other steps do to the credits.
LEMMA CreditSteps ==
    ASSUME TypeInv, Next, ~Select
    PROVE  \/ smooth' = smooth
           \/ \E g \in Group : smooth' = [smooth EXCEPT ![g] = 0]
  <1>1. ASSUME NEW w \in Worker, WorkerExit(w)
        PROVE  \E g \in Group : smooth' = [smooth EXCEPT ![g] = 0]
    BY <1>1, WorkerIs DEF WorkerExit
  <1>2. ASSUME RestartDone
        PROVE  smooth' = smooth \/ \E g \in Group : smooth' = [smooth EXCEPT ![g] = 0]
    <2>1. CASE restarted \in alive
      <3>1. GroupOf(restarted) \in Group
        BY <2>1, WorkerIs DEF TypeInv, PoolTyped
      <3>2. smooth' = [smooth EXCEPT ![GroupOf(restarted)] = 0]
        BY <1>2, <2>1 DEF RestartDone
      <3>3. QED
        BY <3>1, <3>2
    <2>2. CASE restarted \notin alive
      BY <1>2, <2>2 DEF RestartDone
    <2>3. QED
      BY <2>1, <2>2
  <1>3. ASSUME NEW g \in Group, Unload(g)
        PROVE  \E f \in Group : smooth' = [smooth EXCEPT ![f] = 0]
    BY <1>3 DEF Unload
  <1>4. ASSUME NEW w \in Worker, ProcessDies(w) \/ Restart(w) \/ Answer(w) \/ Assign(w) \/ PutFails(w)
        PROVE  smooth' = smooth
    BY <1>4 DEF ProcessDies, Restart, Answer, Assign, PutFails, routeVars
  <1>5. ASSUME RestartReady \/ Order \/ GroupExhausted \/ Refused
        PROVE  smooth' = smooth
    BY <1>5 DEF RestartReady, Order, GroupExhausted, Refused, routeVars
  <1>6. ASSUME NEW h \in Handler, Begin(h) PROVE smooth' = smooth
    BY <1>6 DEF Begin, routeVars
  <1>7. ASSUME NEW g \in Group, Load(g) PROVE smooth' = smooth
    BY <1>7 DEF Load, routeVars
  <1>8. QED
    BY <1>1, <1>2, <1>3, <1>4, <1>5, <1>6, <1>7 DEF Next, Call, Change

LEMMA CreditStep ==
    ASSUME TypeInv, CreditInv, [Next]_vars
    PROVE  CreditInv'
  <1>1. ASSUME smooth' = smooth PROVE CreditInv'
    BY <1>1 DEF CreditInv, Measure
  <1>2. ASSUME NEW g \in Group, smooth' = [smooth EXCEPT ![g] = 0] PROVE CreditInv'
    <2>1. PICK F : Measure(F, smooth) /\ Bounded(F)
      BY DEF CreditInv
    <2>2. smooth \in [Group -> Int]
      BY DEF TypeInv
    <2>3. PICK G : Measure(G, [smooth EXCEPT ![g] = 0]) /\ Bounded(G)
      BY <2>1, <2>2, ClearedBounded
    <2>4. Measure(G, smooth')
      BY <1>2, <2>3
    <2>5. QED
      BY <2>3, <2>4 DEF CreditInv, Measure
  <1>3. CASE UNCHANGED vars
    BY <1>1, <1>3 DEF vars, routeVars
  <1>4. CASE Next
    BY <1>1, <1>2, <1>4, CreditSelect, CreditSteps
  <1>5. QED
    BY <1>3, <1>4

LEMMA CreditNext ==
    ASSUME TypeInv, CreditInv, [Next]_vars
    PROVE  CreditBounded'
  <1>1. PICK F : Measure(F, smooth') /\ Bounded(F)
    BY CreditStep DEF CreditInv, Measure
  <1>2. smooth' \in [Group -> Int]
    BY TypeStep DEF TypeInv
  <1>3. QED
    BY <1>1, <1>2, EachBounded DEF CreditBounded

\* Which groups remain registered.
LEMMA GroupsAfter ==
    ASSUME order \in Seq(Group), NEW g \in Group
    PROVE  /\ Groups \subseteq Range(Append(order, g))
           /\ g \in Groups => Groups \ {g} \subseteq Range(RemoveAt(order, Position(g)))
  <1>1. Groups \subseteq Range(Append(order, g))
    <2> DEFINE s == Append(order, g)
    <2>1. /\ Len(order) \in Nat /\ DOMAIN order = 1 .. Len(order)
          /\ DOMAIN s = 1 .. Len(order) + 1
          /\ \A i \in 1 .. Len(order) : s[i] = order[i]
      BY AppendProperties
    <2> HIDE DEF s
    <2>2. QED
      BY <2>1 DEF Groups, Range, s
  <1>2. ASSUME g \in Groups PROVE Groups \ {g} \subseteq Range(RemoveAt(order, Position(g)))
    <2> DEFINE n == Position(g)  l == Len(order)
               a == SubSeq(order, 1, n - 1)  b == SubSeq(order, n + 1, l)
               s == RemoveAt(order, n)
    <2>1. n \in 1 .. l /\ order[n] = g /\ l \in Nat /\ DOMAIN order = 1 .. l
      BY <1>2 DEF Position, Groups, Range
    <2> HIDE DEF n
    <2>2. /\ a \in Seq(Group) /\ Len(a) = n - 1
          /\ \A i \in 1 .. n - 1 : a[i] = order[i]
      <3>1. \A i \in 1 .. n - 1 : order[i] \in Group
        BY <2>1
      <3>2. /\ a \in Seq(Group) /\ Len(a) = (IF 1 <= n - 1 THEN (n - 1) - 1 + 1 ELSE 0)
            /\ \A i \in 1 .. (n - 1) - 1 + 1 : a[i] = order[1 + i - 1]
        <4>1. 1 \in Int /\ n - 1 \in Int
          BY <2>1
        <4>2. QED
          BY <3>1, <4>1, SubSeqProperties
      <3> HIDE DEF a, l
      <3>3. Len(a) = n - 1 /\ \A i \in 1 .. n - 1 : a[i] = order[i]
        <4>1. \A i \in 1 .. n - 1 : 1 + i - 1 = i /\ i \in 1 .. (n - 1) - 1 + 1
          BY <2>1
        <4>2. QED
          BY <2>1, <3>2, <4>1
      <3>4. QED
        BY <3>2, <3>3
    <2>3. /\ b \in Seq(Group) /\ Len(b) = l - n
          /\ \A i \in 1 .. l - n : b[i] = order[n + i]
      <3>1. \A i \in n + 1 .. l : order[i] \in Group
        BY <2>1
      <3>2. /\ b \in Seq(Group) /\ Len(b) = (IF n + 1 <= l THEN l - (n + 1) + 1 ELSE 0)
            /\ \A i \in 1 .. l - (n + 1) + 1 : b[i] = order[(n + 1) + i - 1]
        <4>1. n + 1 \in Int /\ l \in Int
          BY <2>1
        <4> HIDE DEF l
        <4>2. QED
          BY <3>1, <4>1, SubSeqProperties
      <3> HIDE DEF b, l
      <3>3. Len(b) = l - n /\ \A i \in 1 .. l - n : b[i] = order[n + i]
        <4>1. \A i \in 1 .. l - n : (n + 1) + i - 1 = n + i /\ i \in 1 .. l - (n + 1) + 1
          BY <2>1
        <4>2. QED
          BY <2>1, <3>2, <4>1
      <3>4. QED
        BY <3>2, <3>3
    <2>4. s = a \o b
      BY DEF RemoveAt
    <2> HIDE DEF a, b, s, l
    <2>5. /\ s \in Seq(Group) /\ Len(s) = l - 1 /\ DOMAIN s = 1 .. l - 1
          /\ \A i \in 1 .. n - 1 : s[i] = order[i]
          /\ \A i \in n .. l - 1 : s[i] = order[i + 1]
      <3>1. s \in Seq(Group) /\ Len(s) = Len(a) + Len(b)
            /\ \A i \in 1 .. Len(s) : s[i] = IF i <= Len(a) THEN a[i] ELSE b[i - Len(a)]
        <4>1. /\ a \o b \in Seq(Group) /\ Len(a \o b) = Len(a) + Len(b)
              /\ \A i \in 1 .. Len(a) + Len(b) :
                    (a \o b)[i] = IF i <= Len(a) THEN a[i] ELSE b[i - Len(a)]
          BY <2>2, <2>3, ConcatProperties
        <4>2. QED
          BY <2>4, <4>1, Zenon
      <3>2. Len(s) = l - 1
        BY <2>1, <2>2, <2>3, <3>1
      <3>3. ASSUME NEW i \in 1 .. n - 1 PROVE s[i] = order[i]
        <4>1. i \in 1 .. Len(s) /\ i <= Len(a)
          BY <2>1, <2>2, <3>2
        <4>2. QED
          BY <2>2, <3>1, <4>1
      <3>4. ASSUME NEW i \in n .. l - 1 PROVE s[i] = order[i + 1]
        <4>1. i \in 1 .. Len(s) /\ ~(i <= Len(a)) /\ i - Len(a) \in 1 .. l - n
              /\ n + (i - Len(a)) = i + 1
          BY <2>1, <2>2, <3>2
        <4>2. s[i] = b[i - Len(a)]
          BY <3>1, <4>1
        <4>3. QED
          BY <2>3, <4>1, <4>2
      <3>5. DOMAIN s = 1 .. Len(s)
        BY <3>1
      <3>6. DOMAIN s = 1 .. l - 1
        BY <3>2, <3>5
      <3>7. QED
        BY <3>1, <3>2, <3>3, <3>4, <3>6
    <2> SUFFICES ASSUME NEW h \in Groups, h # g PROVE h \in Range(s)
      BY DEF s, n
    <2>6. PICK j \in 1 .. l : order[j] = h
      BY <2>1 DEF Groups, Range
    <2>7. \/ j \in 1 .. n - 1
          \/ j - 1 \in n .. l - 1 /\ (j - 1) + 1 = j
      BY <2>1, <2>6
    <2>8. \E i \in DOMAIN s : s[i] = h
      <3>1. CASE j \in 1 .. n - 1
        BY <2>1, <2>5, <2>6, <3>1
      <3>2. CASE j - 1 \in n .. l - 1 /\ (j - 1) + 1 = j
        <4>1. s[j - 1] = order[(j - 1) + 1]
          BY <2>5, <3>2
        <4>2. j - 1 \in DOMAIN s
          BY <2>1, <2>5, <3>2
        <4>3. QED
          BY <2>6, <3>2, <4>1, <4>2
      <3>3. QED
        BY <2>7, <3>1, <3>2
    <2>9. QED
      BY <2>8 DEF Range
  <1>3. QED
    BY <1>1, <1>2

-----------------------------------------------------------------------------
(* How long a group waits.  As long as it has a live worker it gains a      *)
(* credit with each request that passes it; without one it stays a candidate *)
(* of the current call only, which selects no group twice.                  *)
LiveGroups == {g \in Group : LiveWorkers(g) # {}}

Registered ==
    /\ remaining \subseteq Groups
    /\ pc = "idle" => remaining = {}
    /\ \A g \in Group : g \notin Groups => passed[g] = 0

LiveGain == \A g \in LiveGroups : passed[g] <= smooth[g] + CreditBound

DeadWait ==
    \A g \in Group \ LiveGroups :
       /\ passed[g] <= Cardinality(Group) - 1
       /\ pc = "select" /\ g \in remaining => passed[g] <= Cardinality(Group \ remaining)
       /\ pc \in {"order", "offer"} /\ g \in remaining \ {chosen} =>
             passed[g] <= Cardinality(Group \ remaining) + 1

WaitInv == Registered /\ LiveGain /\ DeadWait

\* The bound of a group without live workers is below that of the others.
LEMMA BoundsWait ==
    /\ CreditBound \in Nat
    /\ Group # {} => /\ Cardinality(Group) - 1 \in Nat
                     /\ Cardinality(Group) - 1 <= 2 * CreditBound
  <1> DEFINE n == Cardinality(Group)
  <1>1. n \in Nat /\ (Group # {} => n >= 1)
    BY GroupFinite, RoutingAssumption, FS_EmptySet
  <1>2. TwoLargest \in Nat /\ (n >= 2 => TwoLargest >= 2)
    BY PairSums
  <1>3. CreditBound = TwoLargest * (n - 1)
    BY DEF CreditBound
  <1> HIDE DEF n
  <1>4. CASE n = 0
    <2>1. Group = {}
      BY <1>1, <1>4
    <2>2. \A fg \in Pairs : FALSE
      BY <2>1 DEF Pairs
    <2>3. TwoLargest = Max({0})
      <3>1. Pairs = {}
        BY <2>2
      <3>2. {0} \cup {ProcessCount[fg[1]] + ProcessCount[fg[2]] : fg \in Pairs} = {0}
        BY <3>1
      <3>3. QED
        BY <3>2 DEF TwoLargest
    <2>4. Max({0}) \in {0}
      <3>1. IsFiniteSet({0}) /\ {0} \subseteq Int /\ {0} # {}
        BY FS_Singleton
      <3>2. QED
        BY <3>1, MaxExists
    <2>5. TwoLargest = 0
      BY <2>3, <2>4
    <2>6. QED
      BY <1>3, <1>4, <2>1, <2>5
  <1>5. CASE n = 1
    <2>1. CreditBound = TwoLargest * 0
      BY <1>3, <1>5
    <2>2. CreditBound = 0
      BY <1>2, <2>1
    <2>3. n - 1 = 0
      BY <1>5
    <2>4. QED
      BY <2>2, <2>3 DEF n
  <1>6. CASE n >= 2
    <2> DEFINE m == n - 1
    <2>1. m \in Nat /\ m >= 1
      BY <1>1, <1>6
    <2> HIDE DEF m
    <2>2. TwoLargest * m >= m /\ TwoLargest * m \in Nat
      <3>1. \A a, b \in Nat : a * b \in Nat /\ (a + 1) * b = a * b + b
        BY Z3
      <3> DEFINE t == TwoLargest - 1  c == t * m
      <3>2. t \in Nat /\ TwoLargest = t + 1
        BY <1>2, <1>6
      <3> HIDE DEF t
      <3>3. c \in Nat /\ TwoLargest * m = c + m
        BY <2>1, <3>1, <3>2
      <3> HIDE DEF c
      <3>4. QED
        BY <2>1, <3>3
    <2> DEFINE b == TwoLargest * m
    <2>3. b = CreditBound
      BY <1>3 DEF m
    <2> HIDE DEF b
    <2>4. CreditBound >= m /\ CreditBound \in Nat
      BY <2>2, <2>3 DEF b
    <2>5. QED
      BY <2>1, <2>4 DEF m, n
  <1>7. QED
    BY <1>1, <1>4, <1>5, <1>6

LEMMA WaitStart == Init => WaitInv
  <1> SUFFICES ASSUME Init PROVE WaitInv
    OBVIOUS
  <1>1. \A g \in Group : passed[g] = 0 /\ smooth[g] = 0
    BY DEF Init
  <1>2. remaining = {} /\ pc = "idle"
    BY DEF Init
  <1>3. Registered
    BY <1>1, <1>2 DEF Registered
  <1>4. LiveGain
    BY <1>1, BoundsWait DEF LiveGain, LiveGroups
  <1>5. DeadWait
    BY <1>1, <1>2, BoundsWait DEF DeadWait
  <1>6. QED
    BY <1>3, <1>4, <1>5 DEF WaitInv

LEMMA WaitMeans == TypeInv /\ CreditInv /\ WaitInv => NoGroupStarves
  <1> SUFFICES ASSUME TypeInv, CreditInv, WaitInv, NEW g \in Group
               PROVE  passed[g] <= 2 * CreditBound
    BY DEF NoGroupStarves
  <1>1. passed[g] \in Nat /\ smooth[g] \in Int
    BY DEF TypeInv, FairTyped
  <1>2. smooth[g] <= CreditBound
    BY CreditMeans DEF CreditBounded
  <1>3. CASE g \in LiveGroups
    BY <1>1, <1>2, <1>3, BoundsWait DEF WaitInv, LiveGain
  <1>4. CASE g \notin LiveGroups
    <2>1. passed[g] <= Cardinality(Group) - 1
      BY <1>4 DEF WaitInv, DeadWait
    <2>2. QED
      BY <1>1, <2>1, BoundsWait
  <1>5. QED
    BY <1>3, <1>4

\* A change of the workers starts a group afresh or leaves it as it is.
LEMMA AfreshOrSame ==
    ASSUME TypeInv, WaitInv, Change
    PROVE  \A f \in Group :
              \/ passed'[f] = 0
              \/ /\ passed'[f] = passed[f] /\ smooth'[f] = smooth[f]
                 /\ f \in LiveGroups' <=> f \in LiveGroups
  <1> SUFFICES ASSUME NEW f \in Group
               PROVE  \/ passed'[f] = 0
                      \/ /\ passed'[f] = passed[f] /\ smooth'[f] = smooth[f]
                         /\ f \in LiveGroups' <=> f \in LiveGroups
    OBVIOUS
  <1>1. passed \in [Group -> Nat] /\ smooth \in [Group -> Int]
    BY DEF TypeInv, FairTyped
  <1>2. f \in LiveGroups <=> \E w \in Worker : GroupOf(w) = f /\ w \in alive /\ w \in up
    BY DEF LiveGroups, LiveWorkers, Workers
  <1>3. f \in LiveGroups' <=> \E w \in Worker : GroupOf(w) = f /\ w \in alive' /\ w \in up'
    BY DEF LiveGroups, LiveWorkers, Workers
  <1>4. ASSUME NEW w \in Worker, ProcessDies(w) \/ WorkerExit(w)
        PROVE  \/ passed'[f] = 0
               \/ passed'[f] = passed[f] /\ smooth'[f] = smooth[f]
                  /\ (f \in LiveGroups' <=> f \in LiveGroups)
    <2>1. passed' = [passed EXCEPT ![GroupOf(w)] = 0]
      BY <1>4 DEF ProcessDies, WorkerExit, Recount
    <2>2. CASE f = GroupOf(w)
      BY <1>1, <2>1, <2>2
    <2>3. CASE f # GroupOf(w)
      <3>1. passed'[f] = passed[f]
        BY <1>1, <2>1, <2>3
      <3>2. smooth'[f] = smooth[f]
        BY <1>1, <1>4, <2>3 DEF ProcessDies, WorkerExit, routeVars
      <3>3. \A v \in Worker : GroupOf(v) = f => (v \in alive' <=> v \in alive)
                                             /\ (v \in up' <=> v \in up)
        BY <1>4, <2>3 DEF ProcessDies, WorkerExit
      <3>4. QED
        BY <1>2, <1>3, <3>1, <3>2, <3>3
    <2>4. QED
      BY <2>2, <2>3
  <1>5. ASSUME NEW w \in Worker, Restart(w) \/ Answer(w)
        PROVE  passed'[f] = passed[f] /\ smooth'[f] = smooth[f]
               /\ (f \in LiveGroups' <=> f \in LiveGroups)
    <2>1. passed' = passed /\ smooth' = smooth
      BY <1>5 DEF Restart, Answer, fairVars, routeVars
    <2>2. \A v \in Worker : v \in alive' /\ v \in up' <=> v \in alive /\ v \in up
      BY <1>5 DEF Restart, Answer
    <2>3. QED
      BY <1>2, <1>3, <2>1, <2>2
  <1>6. ASSUME RestartReady
        PROVE  \/ passed'[f] = 0
               \/ passed'[f] = passed[f] /\ smooth'[f] = smooth[f]
                  /\ (f \in LiveGroups' <=> f \in LiveGroups)
    <2>1. /\ passed' = [passed EXCEPT ![GroupOf(restarted)] = 0] /\ smooth' = smooth
          /\ alive' = alive \cup {restarted} /\ up' = up
      BY <1>6 DEF RestartReady, Recount, routeVars
    <2>2. CASE f = GroupOf(restarted)
      BY <1>1, <2>1, <2>2
    <2>3. CASE f # GroupOf(restarted)
      <3>1. passed'[f] = passed[f]
        BY <1>1, <2>1, <2>3
      <3>2. \A v \in Worker : GroupOf(v) = f => (v \in alive' <=> v \in alive)
        BY <2>1, <2>3
      <3>3. QED
        BY <1>2, <1>3, <2>1, <3>1, <3>2
    <2>4. QED
      BY <2>2, <2>3
  <1>7. ASSUME RestartDone
        PROVE  \/ passed'[f] = 0
               \/ passed'[f] = passed[f] /\ smooth'[f] = smooth[f]
                  /\ (f \in LiveGroups' <=> f \in LiveGroups)
    <2>1. alive' = alive /\ up' = up
      BY <1>7 DEF RestartDone
    <2>2. f \in LiveGroups' <=> f \in LiveGroups
      BY <1>2, <1>3, <2>1
    <2>3. CASE restarted \in alive
      <3>1. /\ passed' = [passed EXCEPT ![GroupOf(restarted)] = 0]
            /\ smooth' = [smooth EXCEPT ![GroupOf(restarted)] = 0]
        BY <1>7, <2>3 DEF RestartDone, Recount
      <3>2. CASE f = GroupOf(restarted)
        BY <1>1, <3>1, <3>2
      <3>3. CASE f # GroupOf(restarted)
        BY <1>1, <2>2, <3>1, <3>3
      <3>4. QED
        BY <3>2, <3>3
    <2>4. CASE restarted \notin alive
      <3>1. passed' = passed /\ smooth' = smooth
        BY <1>7, <2>4 DEF RestartDone, fairVars
      <3>2. QED
        BY <2>2, <3>1
    <2>5. QED
      BY <2>3, <2>4
  <1>8. ASSUME NEW g \in Group, Unload(g)
        PROVE  \/ passed'[f] = 0
               \/ passed'[f] = passed[f] /\ smooth'[f] = smooth[f]
                  /\ (f \in LiveGroups' <=> f \in LiveGroups)
    <2>1. /\ passed' = [passed EXCEPT ![g] = 0] /\ smooth' = [smooth EXCEPT ![g] = 0]
          /\ alive' = alive \ Workers(g) /\ up' = up \ Workers(g)
      BY <1>8 DEF Unload, Recount
    <2>2. CASE f = g
      BY <1>1, <2>1, <2>2
    <2>3. CASE f # g
      <3>1. passed'[f] = passed[f] /\ smooth'[f] = smooth[f]
        BY <1>1, <2>1, <2>3
      <3>2. \A v \in Worker : GroupOf(v) = f => (v \in alive' <=> v \in alive)
                                             /\ (v \in up' <=> v \in up)
        BY <2>1, <2>3 DEF Workers
      <3>3. QED
        BY <1>2, <1>3, <3>1, <3>2
    <2>4. QED
      BY <2>2, <2>3
  <1>9. ASSUME NEW g \in Group, Load(g)
        PROVE  \/ passed'[f] = 0
               \/ passed'[f] = passed[f] /\ smooth'[f] = smooth[f]
                  /\ (f \in LiveGroups' <=> f \in LiveGroups)
    <2>1. /\ passed' = passed /\ smooth' = smooth /\ g \notin Groups
          /\ alive' = alive \cup Workers(g) /\ up' = up \cup Workers(g)
      BY <1>9 DEF Load, fairVars, routeVars
    <2>2. CASE f = g
      <3>1. passed[f] = 0
        BY <2>1, <2>2 DEF WaitInv, Registered
      <3>2. QED
        BY <2>1, <3>1
    <2>3. CASE f # g
      <3>1. \A v \in Worker : GroupOf(v) = f => (v \in alive' <=> v \in alive)
                                             /\ (v \in up' <=> v \in up)
        BY <2>1, <2>3 DEF Workers
      <3>2. QED
        BY <1>2, <1>3, <2>1, <3>1
    <2>4. QED
      BY <2>2, <2>3
  <1>10. QED
    BY <1>4, <1>5, <1>6, <1>7, <1>8, <1>9 DEF Change

\* Only registered groups are candidates, and the others do not wait.
LEMMA RegisteredStep ==
    ASSUME TypeInv, WaitInv, Next
    PROVE  Registered'
  <1>1. /\ order \in Seq(Group) /\ passed \in [Group -> Nat]
        /\ remaining \subseteq Groups /\ (pc = "idle" => remaining = {})
        /\ \A g \in Group : g \notin Groups => passed[g] = 0
    BY DEF TypeInv, PoolTyped, FairTyped, WaitInv, Registered
  <1>2. ASSUME NEW h \in Handler, Begin(h) PROVE Registered'
    <2>1. /\ order' = order /\ passed' = passed /\ remaining' \subseteq Groups /\ pc' # "idle"
      BY <1>2 DEF Begin, poolVars, fairVars
    <2>2. Groups' = Groups
      BY <2>1 DEF Groups
    <2>3. QED
      BY <1>1, <2>1, <2>2 DEF Registered
  <1>3. CASE Select
    <2>1. /\ order' = order /\ remaining' = remaining /\ pc' # "idle"
          /\ \E g \in remaining : passed' = [f \in Group |-> IF f = g THEN 0
                                             ELSE IF f \in remaining THEN passed[f] + 1
                                             ELSE passed[f]]
      BY <1>3 DEF Select, poolVars
    <2>2. Groups' = Groups
      BY <2>1 DEF Groups
    <2>3. ASSUME NEW g \in Group, g \notin Groups PROVE passed'[g] = 0
      BY <1>1, <2>1, <2>3
    <2>4. QED
      BY <1>1, <2>1, <2>2, <2>3 DEF Registered
  <1>4. CASE Order \/ GroupExhausted \/ Refused \/ \E w \in Worker : Assign(w) \/ PutFails(w)
    <2>1. /\ order' = order /\ passed' = passed /\ remaining' \subseteq remaining
          /\ (pc' = "idle" => remaining' = {})
      <3>1. ASSUME NEW w \in Worker, Assign(w) \/ PutFails(w)
            PROVE  /\ order' = order /\ passed' = passed /\ remaining' \subseteq remaining
                   /\ (pc' = "idle" => remaining' = {})
        BY <3>1 DEF Assign, PutFails, poolVars, fairVars
      <3>2. ASSUME Order \/ GroupExhausted \/ Refused
            PROVE  /\ order' = order /\ passed' = passed /\ remaining' \subseteq remaining
                   /\ (pc' = "idle" => remaining' = {})
        BY <3>2 DEF Order, GroupExhausted, Refused, poolVars, fairVars
      <3>3. QED
        BY <1>4, <3>1, <3>2
    <2>2. Groups' = Groups
      BY <2>1 DEF Groups
    <2>3. QED
      BY <1>1, <2>1, <2>2 DEF Registered
  <1>5. CASE Change
    <2>1. pc' = pc /\ remaining' = remaining
      BY <1>5, ChangeKeepsCall
    <2>2. ASSUME NEW g \in Group, Unload(g) PROVE Registered'
      <3>1. /\ order' = RemoveAt(order, Position(g)) /\ g \in Groups
            /\ passed' = [passed EXCEPT ![g] = 0] /\ pc = "idle"
        BY <2>2 DEF Unload, Recount
      <3>2. Groups \ {g} \subseteq Groups'
        BY <1>1, <3>1, GroupsAfter DEF Groups
      <3>3. ASSUME NEW f \in Group, f \notin Groups' PROVE passed'[f] = 0
        BY <1>1, <3>1, <3>2, <3>3
      <3>4. QED
        BY <1>1, <2>1, <3>1, <3>3 DEF Registered
    <2>3. ASSUME NEW g \in Group, Load(g) PROVE Registered'
      <3>1. order' = Append(order, g) /\ passed' = passed
        BY <2>3 DEF Load, fairVars
      <3>2. Groups \subseteq Groups'
        BY <1>1, <3>1, GroupsAfter DEF Groups
      <3>3. QED
        BY <1>1, <2>1, <3>1, <3>2 DEF Registered
    <2>4. ASSUME order' = order PROVE Registered'
      <3>1. Groups' = Groups
        BY <2>4 DEF Groups
      <3>2. \A f \in Group : passed'[f] = 0 \/ passed'[f] = passed[f]
        BY <1>5, AfreshOrSame
      <3>3. QED
        BY <1>1, <2>1, <3>1, <3>2 DEF Registered
    <2>5. ASSUME \/ \E w \in Worker : ProcessDies(w) \/ WorkerExit(w) \/ Restart(w) \/ Answer(w)
                 \/ RestartReady \/ RestartDone
          PROVE  order' = order
      BY <2>5 DEF ProcessDies, WorkerExit, Restart, Answer, RestartReady, RestartDone
    <2>6. QED
      BY <1>5, <2>2, <2>3, <2>4, <2>5 DEF Change
  <1>6. QED
    BY <1>2, <1>3, <1>4, <1>5 DEF Next, Call

\* Each request that passes a group with a live worker earns it a credit; the
\* group selected has at most the largest debt.
LEMMA GainStep ==
    ASSUME TypeInv, CreditInv, WaitInv, Next, CreditBounded'
    PROVE  LiveGain'
  <1>1. passed \in [Group -> Nat] /\ smooth \in [Group -> Int] /\ remaining \in SUBSET Group
    BY DEF TypeInv, FairTyped, CallTyped
  <1>2. CreditBound \in Nat
    BY BoundsWait
  <1>3. \A f \in Group : smooth'[f] >= -CreditBound /\ smooth'[f] \in Int
    <2>1. smooth' \in [Group -> Int]
      BY TypeStep DEF TypeInv
    <2>2. \A f \in Group : -CreditBound <= smooth'[f]
      BY DEF CreditBounded
    <2>3. QED
      BY <1>2, <2>1, <2>2
  <1> SUFFICES ASSUME NEW f \in Group, f \in LiveGroups' PROVE passed'[f] <= smooth'[f] + CreditBound
    BY DEF LiveGain, LiveGroups
  <1>4. CASE Select
    <2>1. PICK g \in remaining :
             /\ smooth' = [h \in Group |->
                   smooth[h] + Earning(h) - (IF h = g THEN Earnings[remaining] ELSE 0)]
             /\ passed' = [h \in Group |-> IF h = g THEN 0
                                           ELSE IF h \in remaining THEN passed[h] + 1
                                           ELSE passed[h]]
      BY <1>4, SelectPays
    <2>2. f \in LiveGroups /\ LiveWorkers(f) # {}
      <3>1. alive' = alive /\ up' = up
        BY <1>4 DEF Select, poolVars
      <3>2. f \in LiveGroups
        BY <3>1 DEF LiveGroups, LiveWorkers, Workers
      <3>3. QED
        BY <3>2 DEF LiveGroups
    <2>3. passed[f] <= smooth[f] + CreditBound /\ passed[f] \in Nat /\ smooth[f] \in Int
      BY <1>1, <2>2 DEF WaitInv, LiveGain
    <2>4. CASE f = g
      <3>1. passed'[f] = 0
        BY <2>1, <2>4
      <3>2. QED
        BY <1>2, <1>3, <3>1
    <2>5. CASE f # g /\ f \in remaining
      <3>1. passed'[f] = passed[f] + 1
        BY <2>1, <2>5
      <3>2. Earning(f) \in Nat /\ Earning(f) >= 1
        BY <2>2, <2>5, WorkersOf DEF Earning
      <3>3. smooth'[f] = smooth[f] + Earning(f)
        <4>1. smooth'[f] = smooth[f] + Earning(f) - 0
          BY <2>1, <2>5
        <4>2. QED
          BY <2>3, <3>2, <4>1
      <3>4. QED
        BY <1>2, <2>3, <3>1, <3>2, <3>3
    <2>6. CASE f # g /\ f \notin remaining
      <3>1. passed'[f] = passed[f] /\ Earning(f) = 0
        BY <2>1, <2>6 DEF Earning
      <3>2. smooth'[f] = smooth[f] + 0 - 0
        BY <2>1, <2>6, <3>1
      <3>3. QED
        BY <2>3, <3>1, <3>2
    <2>7. QED
      BY <2>4, <2>5, <2>6
  <1>5. ASSUME passed'[f] = 0 PROVE passed'[f] <= smooth'[f] + CreditBound
    BY <1>2, <1>3, <1>5
  <1>6. ASSUME passed'[f] = passed[f], smooth'[f] = smooth[f], f \in LiveGroups
        PROVE  passed'[f] <= smooth'[f] + CreditBound
    BY <1>6 DEF WaitInv, LiveGain
  <1>7. CASE Change
    BY <1>5, <1>6, <1>7, AfreshOrSame
  <1>8. CASE Call /\ ~Select
    <2>1. /\ alive' = alive /\ up' = up /\ passed' = passed /\ smooth' = smooth
      <3>1. ASSUME NEW h \in Handler, Begin(h)
            PROVE  alive' = alive /\ up' = up /\ passed' = passed /\ smooth' = smooth
        BY <3>1 DEF Begin, poolVars, routeVars, fairVars
      <3>2. ASSUME NEW w \in Worker, Assign(w) \/ PutFails(w)
            PROVE  alive' = alive /\ up' = up /\ passed' = passed /\ smooth' = smooth
        BY <3>2 DEF Assign, PutFails, poolVars, routeVars, fairVars
      <3>3. ASSUME Order \/ GroupExhausted \/ Refused
            PROVE  alive' = alive /\ up' = up /\ passed' = passed /\ smooth' = smooth
        BY <3>3 DEF Order, GroupExhausted, Refused, poolVars, routeVars, fairVars
      <3>4. QED
        BY <1>8, <3>1, <3>2, <3>3 DEF Call
    <2>2. f \in LiveGroups
      BY <2>1 DEF LiveGroups, LiveWorkers, Workers
    <2>3. QED
      BY <1>6, <2>1, <2>2
  <1>9. QED
    BY <1>4, <1>7, <1>8 DEF Next

\* A group without live workers waits for the rest of the call at most.
LEMMA DeadStep ==
    ASSUME TypeInv, WaitInv, Next
    PROVE  DeadWait'
  <1> DEFINE n == Cardinality(Group)  k == Cardinality(Group \ remaining)
             Fits(f) == /\ passed[f] <= n - 1
                        /\ pc = "select" /\ f \in remaining => passed[f] <= k
                        /\ pc \in {"order", "offer"} /\ f \in remaining \ {chosen} =>
                              passed[f] <= k + 1
  <1>1. /\ passed \in [Group -> Nat] /\ remaining \in SUBSET Group
        /\ (pc \in {"order", "offer"} => chosen \in remaining)
    BY DEF TypeInv, FairTyped, CallTyped
  <1>2. n \in Nat /\ k \in Nat /\ (Group # {} => n - 1 \in Nat)
    <2>1. n \in Nat /\ k \in Nat
      BY GroupFinite
    <2>2. Group # {} => n - 1 \in Nat
      BY BoundsWait
    <2>3. QED
      BY <2>1, <2>2
  <1>3. \A f \in Group \ LiveGroups : Fits(f)
    BY DEF WaitInv, DeadWait
  <1> SUFFICES ASSUME NEW f \in Group, f \notin LiveGroups' PROVE Fits(f)'
    BY DEF DeadWait
  <1>4. n \in Nat /\ n - 1 \in Nat /\ Cardinality(Group \ remaining') \in Nat
    BY <1>2, GroupFinite
  <1>5. ASSUME passed'[f] = 0 PROVE Fits(f)'
    BY <1>4, <1>5
  <1>6. ASSUME passed'[f] = passed[f], f \notin LiveGroups, remaining' = remaining,
               pc' = pc, chosen' = chosen
        PROVE  Fits(f)'
    BY <1>3, <1>6
  <1>7. CASE Change
    BY <1>5, <1>6, <1>7, AfreshOrSame, ChangeKeepsCall
  <1>8. ASSUME Call PROVE alive' = alive /\ up' = up /\ f \notin LiveGroups
    <2>1. ASSUME NEW h \in Handler, Begin(h) PROVE alive' = alive /\ up' = up
      BY <2>1 DEF Begin, poolVars
    <2>2. ASSUME NEW w \in Worker, Assign(w) \/ PutFails(w) PROVE alive' = alive /\ up' = up
      BY <2>2 DEF Assign, PutFails, poolVars
    <2>3. ASSUME Select \/ Order \/ GroupExhausted \/ Refused PROVE alive' = alive /\ up' = up
      BY <2>3 DEF Select, Order, GroupExhausted, Refused, poolVars
    <2>4. alive' = alive /\ up' = up
      BY <1>8, <2>1, <2>2, <2>3 DEF Call
    <2>5. QED
      BY <2>4 DEF LiveGroups, LiveWorkers, Workers
  <1>9. ASSUME NEW h \in Handler, Begin(h) PROVE Fits(f)'
    <2>1. passed' = passed /\ pc' \in {"refused", "select"}
          /\ remaining' = {g \in Serves[h] \cap Groups : LiveWorkers(g) # {}}
      BY <1>9 DEF Begin, fairVars
    <2>2. Call
      BY <1>9 DEF Call
    <2>3. f \notin remaining'
      BY <1>8, <2>1, <2>2 DEF LiveGroups
    <2>4. QED
      BY <1>3, <1>8, <2>1, <2>2, <2>3
  <1>10. CASE Select
    <2>1. PICK g \in remaining :
             /\ passed' = [h \in Group |-> IF h = g THEN 0
                                           ELSE IF h \in remaining THEN passed[h] + 1
                                           ELSE passed[h]]
             /\ chosen' = g
      BY <1>10, SelectPays
    <2>2. pc = "select" /\ pc' = "order" /\ remaining' = remaining
      BY <1>10 DEF Select
    <2>3. f \notin LiveGroups
      BY <1>8, <1>10 DEF Call
    <2>4. CASE f = g
      <3>1. passed'[f] = 0
        BY <2>1, <2>4
      <3>2. QED
        BY <1>5, <3>1
    <2>5. CASE f # g /\ f \in remaining
      <3>1. passed'[f] = passed[f] + 1 /\ passed[f] <= k /\ passed[f] \in Nat
        BY <1>1, <1>3, <2>1, <2>2, <2>3, <2>5
      <3>2. k + 2 <= n
        <4>1. {f, g} \in SUBSET Group /\ {f, g} \cap (Group \ remaining) = {}
              /\ Group \ remaining \in SUBSET Group
              /\ {f, g} \cup (Group \ remaining) \in SUBSET Group
          BY <1>1, <2>1, <2>5
        <4>2. Cardinality({f, g} \cup (Group \ remaining)) = Cardinality({f, g}) + k
          BY <4>1, CountDisjoint
        <4>3. Cardinality({f, g}) = 2
          <5>1. Cardinality({f, g} \ {g}) = Cardinality({f, g}) - 1
            BY <4>1, CountSplit
          <5>2. {f, g} \ {g} = {f}
            BY <2>5
          <5>3. Cardinality({f}) = 1
            BY FS_Singleton
          <5>4. Cardinality({f, g}) \in Nat
            BY <4>1, GroupFinite
          <5>5. QED
            BY <5>1, <5>2, <5>3, <5>4
        <4>4. Cardinality({f, g} \cup (Group \ remaining)) <= n
          BY <4>1, GroupFinite
        <4>5. k \in Nat
          BY GroupFinite
        <4>6. QED
          BY <1>4, <4>2, <4>3, <4>4, <4>5
      <3>3. k \in Nat
        BY GroupFinite
      <3>4. passed'[f] <= n - 1 /\ passed'[f] <= k + 1
        <4> HIDE DEF n, k
        <4>1. QED
          BY <1>4, <3>1, <3>2, <3>3
      <3>5. QED
        BY <2>2, <3>4
    <2>6. CASE f \notin remaining
      <3>1. passed'[f] = passed[f] /\ f # g
        BY <2>1, <2>6
      <3>2. QED
        BY <1>3, <2>2, <2>3, <2>6, <3>1
    <2>7. QED
      BY <2>4, <2>5, <2>6
  <1>11. CASE Order
    <2>1. pc = "order" /\ pc' = "offer" /\ passed' = passed /\ remaining' = remaining
          /\ chosen' = chosen
      BY <1>11 DEF Order, fairVars
    <2>2. QED
      BY <1>3, <1>8, <1>11, <2>1 DEF Call
  <1>12. ASSUME NEW w \in Worker, Assign(w) PROVE Fits(f)'
    <2>1. passed' = passed /\ pc' = "idle"
      BY <1>12 DEF Assign
    <2>2. f \notin LiveGroups
      BY <1>8, <1>12 DEF Call
    <2>3. QED
      BY <1>3, <2>1, <2>2
  <1>13. ASSUME NEW w \in Worker, PutFails(w) PROVE Fits(f)'
    <2>1. passed' = passed /\ pc' = pc /\ remaining' = remaining /\ chosen' = chosen
      BY <1>13 DEF PutFails, fairVars
    <2>2. f \notin LiveGroups
      BY <1>8, <1>13 DEF Call
    <2>3. QED
      BY <1>6, <2>1, <2>2
  <1>14. CASE GroupExhausted
    <2>1. /\ pc = "offer" /\ passed' = passed /\ remaining' = remaining \ {chosen}
          /\ pc' \in {"refused", "select"}
      BY <1>14 DEF GroupExhausted, fairVars
    <2>2. f \notin LiveGroups
      BY <1>8, <1>14 DEF Call
    <2>3. Cardinality(Group \ remaining') = k + 1
      <3>1. /\ chosen \in Group \ remaining'
            /\ (Group \ remaining') \ {chosen} = Group \ remaining
            /\ Group \ remaining' \in SUBSET Group
        BY <1>1, <2>1
      <3>2. /\ Cardinality((Group \ remaining') \ {chosen}) = Cardinality(Group \ remaining') - 1
        BY <3>1, CountSplit
      <3>3. k = Cardinality(Group \ remaining') - 1
        BY <3>1, <3>2
      <3> HIDE DEF k
      <3>4. QED
        BY <1>4, <3>3
    <2>4. passed[f] <= n - 1
      BY <1>3, <2>2
    <2>5. ASSUME f \in remaining' PROVE passed[f] <= k + 1
      <3>1. f \in remaining \ {chosen} /\ f \in Group \ LiveGroups
        BY <2>1, <2>2, <2>5
      <3>2. QED
        BY <1>3, <2>1, <3>1
    <2>6. passed'[f] <= Cardinality(Group) - 1
      BY <2>1, <2>4
    <2>7. ASSUME f \in remaining' PROVE passed'[f] <= Cardinality(Group \ remaining')
      <3>1. passed'[f] <= k + 1
        BY <2>1, <2>5, <2>7
      <3>2. QED
        BY <2>3, <3>1
    <2>8. QED
      BY <2>1, <2>6, <2>7
  <1>15. CASE Refused
    <2>1. passed' = passed /\ pc' = "idle"
      BY <1>15 DEF Refused, fairVars
    <2>2. f \notin LiveGroups
      BY <1>8, <1>15 DEF Call
    <2>3. QED
      BY <1>3, <2>1, <2>2
  <1>16. QED
    BY <1>7, <1>9, <1>10, <1>11, <1>12, <1>13, <1>14, <1>15 DEF Next, Call

LEMMA WaitStep ==
    ASSUME TypeInv, CreditInv, WaitInv, [Next]_vars
    PROVE  WaitInv'
  <1>1. CASE Next
    <2>1. CreditBounded'
      BY CreditNext
    <2>2. QED
      BY <1>1, <2>1, RegisteredStep, GainStep, DeadStep DEF WaitInv
  <1>2. CASE UNCHANGED vars
    <2>1. LiveGroups' = LiveGroups /\ Groups' = Groups
      BY <1>2 DEF vars, poolVars, LiveGroups, LiveWorkers, Workers, Groups
    <2>2. QED
      BY <1>2, <2>1 DEF vars, poolVars, routeVars, callVars, fairVars, WaitInv, Registered,
         LiveGain, DeadWait
  <1>3. QED
    BY <1>1, <1>2

\* For any number of groups of any sizes, no credit and no debt of a group
\* exceeds the number of other groups times the processes of the two largest
\* ones, whatever handlers are called and whichever groups have their credit
\* cleared on the way.
THEOREM CreditsStayBounded == Spec => []CreditBounded
  <1>1. TypeInv /\ CreditInv /\ [Next]_vars => CreditInv'
    BY CreditStep
  <1>2. QED
    BY TypeAlways, CreditStart, CreditMeans, <1>1, PTL DEF Spec

\* No group is passed over more than twice that often in a row.
THEOREM GroupsAreServed == Spec => []NoGroupStarves
  <1>1. TypeInv /\ CreditInv /\ [Next]_vars => CreditInv'
    BY CreditStep
  <1>2. TypeInv /\ CreditInv /\ WaitInv /\ [Next]_vars => WaitInv'
    BY WaitStep
  <1>3. QED
    BY TypeAlways, CreditStart, WaitStart, WaitMeans, <1>1, <1>2, PTL DEF Spec
=============================================================================
