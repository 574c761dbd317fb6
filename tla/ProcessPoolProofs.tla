-------------------------- MODULE ProcessPoolProofs -------------------------
(***************************************************************************)
(* Theorems about module ProcessPool: what is launched while it closes,    *)
(* typing, who holds a future, what the assignments mean, where a request  *)
(* can be, what a completed close leaves, and that the pool implements the *)
(* strategy port.  All hold for any number of workers, groups and requests *)
(* and any assignment of safety modes.                                     *)
(***************************************************************************)
EXTENDS ProcessPool, FiniteSetTheorems, WellFoundedInduction, TLAPS

-----------------------------------------------------------------------------
(* Launches.                                                               *)

\* A closing pool takes no requests; a worker in the pool belongs to a group
\* in the pool; and a group that is being loaded is not in it yet, so that the
\* launches of a load concern no worker of the pool.
ClosingRefuses  == closing => ~accepting
MembersInGroups == \A w \in members : w \in Worker /\ GroupOf[w] \in groups
LoadsNewGroup   == admPc \in {"load", "boot"} => admGroup \notin groups

LaunchInv == ClosingRefuses /\ MembersInGroups /\ LoadsNewGroup

LEMMA LaunchStart == Init => LaunchInv
  <1> SUFFICES ASSUME Init PROVE LaunchInv
    OBVIOUS
  <1>1. ClosingRefuses
    BY DEF Init, ClosingRefuses
  <1>2. MembersInGroups
    BY PoolAssumption DEF Init, Initial, MembersInGroups
  <1>3. LoadsNewGroup
    BY DEF Init, LoadsNewGroup
  <1>4. QED
    BY <1>1, <1>2, <1>3 DEF LaunchInv

\* What a step must leave alone to keep the invariant without further thought.
LEMMA LaunchFrame ==
    ASSUME LaunchInv, UNCHANGED <<accepting, closing, members, groups, admPc, admGroup>>
    PROVE  LaunchInv'
  BY DEF LaunchInv, ClosingRefuses, MembersInGroups, LoadsNewGroup

\* What the invariant and one step give for the action property.
Settled == closing => /\ closing' /\ ~accepting' /\ members' \subseteq members
                      /\ \A w \in members : gen'[w] = gen[w]

\* A step that moves none of the variables involved.
LEMMA SettledFrame ==
    ASSUME LaunchInv, UNCHANGED <<accepting, closing, members, gen>>
    PROVE  Settled
  BY DEF LaunchInv, ClosingRefuses, Settled

\* execute, the processes and the result loop touch neither the flags nor the
\* table of workers.
LEMMA WorkSteps ==
    ASSUME \/ \E q \in Request : Execute(q)
           \/ \E w \in Worker :
                 ProcessReady(w) \/ ProcessTakes(w) \/ ProcessFinishes(w) \/ ProcessDies(w)
           \/ ResultStep
    PROVE  UNCHANGED <<accepting, closing, members, groups, gen, admPc, admGroup>>
  BY DEF Execute, ProcessReady, ProcessTakes, ProcessFinishes, ProcessDies, Others,
         ResultStep, ResultTaken, ResultSet, ResultLoopEnds, workerVars, flagVars, admVars

\* The supervisor launches under the lock, and only while the pool is open.
LEMMA SupervisorSteps ==
    ASSUME LaunchInv, SupervisorStep
    PROVE  LaunchInv' /\ Settled
  <1>1. ASSUME NEW w \in Worker, SupervisorRestarts(w)
        PROVE  LaunchInv' /\ Settled
    <2>1. ~closing /\ UNCHANGED <<accepting, closing, members, groups, admPc, admGroup>>
      BY <1>1 DEF SupervisorRestarts, Supervised, flagVars, admVars
    <2>2. QED
      BY <2>1, LaunchFrame DEF Settled
  <1>2. CASE SupervisorDecides
    <2>1. UNCHANGED <<members, groups, gen, admPc, admGroup>>
      BY <1>2 DEF SupervisorDecides, admVars
    <2>2. \/ UNCHANGED <<accepting, closing>>
          \/ accepting' = FALSE /\ closing' = TRUE
      BY <1>2 DEF SupervisorDecides, flagVars
    <2>3. QED
      BY <2>1, <2>2
         DEF LaunchInv, ClosingRefuses, MembersInGroups, LoadsNewGroup, Settled
  <1>3. ASSUME \/ \E w \in Worker : SupervisorFindsExit(w)
               \/ SupervisorFails \/ SupervisorKills \/ SupervisorTakesAll
               \/ SupervisorEnds \/ SupervisorSeesReady \/ SupervisorGivesUp
               \/ SupervisorCleansUp
        PROVE  LaunchInv' /\ Settled
    <2>1. UNCHANGED <<accepting, closing, members, groups, gen, admPc, admGroup>>
      BY <1>3 DEF SupervisorFindsExit, SupervisorFails, SupervisorKills,
             SupervisorTakesAll, SupervisorEnds, SupervisorSeesReady, SupervisorGivesUp,
             SupervisorCleansUp, workerVars, flagVars, admVars
    <2>2. QED
      BY <2>1, LaunchFrame, SettledFrame
  <1>4. QED
    BY <1>1, <1>2, <1>3 DEF SupervisorStep

\* close sets both flags and leaves the table of workers as it is.
LEMMA CloseSteps ==
    ASSUME LaunchInv, CloseBegins \/ CloseStep
    PROVE  LaunchInv' /\ Settled
  <1>1. CASE CloseBegins
    <2>1. /\ UNCHANGED <<members, groups, gen, admPc, admGroup>>
          /\ accepting' = FALSE /\ closing' = TRUE
      BY <1>1 DEF CloseBegins, workerVars, admVars
    <2>2. QED
      BY <2>1 DEF LaunchInv, ClosingRefuses, MembersInGroups, LoadsNewGroup, Settled
  <1>2. CASE CloseStep
    <2>1. UNCHANGED <<accepting, closing, members, groups, gen, admPc, admGroup>>
      BY <1>2 DEF CloseStep, CloseSignals, CloseStops, CloseTakesAll, CloseFails,
             workerVars, flagVars, admVars
    <2>2. QED
      BY <2>1, LaunchFrame, SettledFrame
  <1>3. QED
    BY <1>1, <1>2

\* A load launches workers of a group that is not in the pool, publishes them
\* only while the pool is open, and an unload only removes workers.
LEMMA AdminSteps ==
    ASSUME LaunchInv,
           AdminStep \/ (\E g \in Group : UnloadBegins(g) \/ LoadBegins(g))
    PROVE  LaunchInv' /\ Settled
  <1>1. ASSUME NEW g \in Group, UnloadBegins(g) PROVE LaunchInv' /\ Settled
    <2>1. /\ ~closing /\ admPc' = "dispose" /\ UNCHANGED <<accepting, closing>>
          /\ members' = members \ MembersOf(g) /\ groups' = groups \ {g}
      BY <1>1 DEF UnloadBegins, flagVars
    <2>2. MembersInGroups'
      BY <2>1 DEF LaunchInv, MembersInGroups, MembersOf
    <2>3. QED
      BY <2>1, <2>2 DEF LaunchInv, ClosingRefuses, LoadsNewGroup, Settled
  <1>2. ASSUME NEW g \in Group, LoadBegins(g) PROVE LaunchInv' /\ Settled
    <2>1. /\ ~closing /\ g \notin groups /\ admGroup' = g
          /\ UNCHANGED <<accepting, closing, members, groups>>
      BY <1>2 DEF LoadBegins, flagVars, workerVars
    <2>2. QED
      BY <2>1 DEF LaunchInv, ClosingRefuses, MembersInGroups, LoadsNewGroup, Settled
  <1>3. CASE LoadLaunches
    <2>1. /\ admPc = "load" /\ admPc' = "boot"
          /\ gen' = [w \in Worker |-> IF w \in MembersOf(admGroup) THEN 1 ELSE gen[w]]
          /\ UNCHANGED <<accepting, closing, members, groups, admGroup>>
      BY <1>3 DEF LoadLaunches, flagVars
    <2>2. LaunchInv'
      BY <2>1 DEF LaunchInv, ClosingRefuses, MembersInGroups, LoadsNewGroup
    <2>3. \A w \in members : w \in Worker /\ w \notin MembersOf(admGroup)
      BY <2>1 DEF LaunchInv, MembersInGroups, LoadsNewGroup, MembersOf
    <2>4. \A w \in members : gen'[w] = gen[w]
      BY <2>1, <2>3
    <2>5. QED
      BY <2>1, <2>2, <2>4 DEF LaunchInv, ClosingRefuses, Settled
  <1>4. CASE LoadEnds
    <2>1. /\ ~closing /\ admPc' = "idle" /\ UNCHANGED <<accepting, closing>>
          /\ members' = members \cup MembersOf(admGroup)
          /\ groups' = groups \cup {admGroup}
      BY <1>4 DEF LoadEnds, flagVars
    <2>2. MembersInGroups'
      BY <2>1 DEF LaunchInv, MembersInGroups, MembersOf
    <2>3. QED
      BY <2>1, <2>2 DEF LaunchInv, ClosingRefuses, LoadsNewGroup, Settled
  <1>5. CASE LoadFails \/ AdminDisposes \/ AdminFails
    <2>1. /\ UNCHANGED <<accepting, closing, members, groups, gen>>
          /\ admPc' \notin {"load", "boot"}
      BY <1>5 DEF LoadFails, AdminDisposes, AdminFails, workerVars, flagVars
    <2>2. QED
      BY <2>1, SettledFrame DEF LaunchInv, ClosingRefuses, MembersInGroups, LoadsNewGroup
  <1>6. QED
    BY <1>1, <1>2, <1>3, <1>4, <1>5 DEF AdminStep

LEMMA LaunchStep ==
    ASSUME LaunchInv, [Next]_vars
    PROVE  LaunchInv' /\ Settled
  <1>1. CASE UNCHANGED vars
    BY <1>1, LaunchFrame, SettledFrame DEF vars, workerVars, flagVars, admVars
  <1>2. CASE Next
    BY <1>2, WorkSteps, SupervisorSteps, CloseSteps, AdminSteps, LaunchFrame,
       SettledFrame DEF Next
  <1>3. QED
    BY <1>1, <1>2

\* From the moment close(), or a shutdown by the supervisor, raised the closing
\* flag, the flags stay, no worker enters the pool, and none in it is launched
\* again, whatever restart was due and whatever group was being loaded.
THEOREM NothingLaunchedAfterClose == Spec => NoLaunchAfterClose
  <1>1. LaunchInv /\ [Next]_vars => LaunchInv'
    BY LaunchStep
  <1>2. LaunchInv /\ [Next]_vars => [Settled]_vars
    BY LaunchStep
  <1>3. QED
    BY <1>1, <1>2, LaunchStart, PTL DEF Spec, NoLaunchAfterClose, Settled

-----------------------------------------------------------------------------
(* Typing, by groups of variables.                                         *)
FuturesTyped ==
    /\ future \in [Request -> {"none", "waiting", "ok", "failed"}]
    /\ registered \in SUBSET Request
    /\ assigned \in [Request -> Launches \cup {None}]

WorkersTyped ==
    /\ members \in SUBSET Worker /\ groups \in SUBSET Group
    /\ gen \in [Worker -> 0 .. MaxGeneration]
    /\ alive \in [Worker -> BOOLEAN] /\ retiring \in [Worker -> BOOLEAN]
    /\ restartDue \in [Worker -> BOOLEAN]
    /\ outstanding \in [Worker -> Nat] /\ restarts \in [Worker -> Nat]

SomeProc == {"none", "starting", "running", "exited", "closed", "survived"}

ProcsTyped ==
    /\ proc \in [Worker -> SomeProc] /\ booted \in [Worker -> BOOLEAN]
    /\ inbox \in [Worker -> SUBSET Request]
    /\ current \in [Worker -> Request \cup {None}]

FlagsTyped == {accepting, closing, resultStop} \subseteq BOOLEAN

ResultsTyped ==
    /\ results \in SUBSET (Request \X Launches)
    /\ resultPc \in {"get", "set", "stopped"} /\ resultHeld \in Request \cup {None}

SupervisorTyped ==
    /\ supPc \in {"scan", "fail", "kill", "failAll", "await", "cleanup", "stopped", "dead"}
    /\ supWorker \in 0 .. NumWorkers
    /\ supHeld \in SUBSET Request /\ supTodo \in SUBSET Worker

CloseTyped ==
    /\ closePc \in {"idle", "signal", "stop", "join", "failAll", "done", "raised"}
    /\ closeHeld \in SUBSET Request /\ closeTodo \in SUBSET Worker

AdminTyped ==
    /\ admPc \in {"idle", "dispose", "load", "boot", "raised"}
    /\ admGroup \in Group \cup {None}
    /\ admPc \in {"load", "boot"} => admGroup \in Group
    /\ admHeld \in SUBSET Request /\ admTodo \in SUBSET Worker

\* A result and an assignment carry the number of a launch, so a worker whose
\* process exists must have been launched.
Launched == \A w \in Worker : proc[w] # "none" => gen[w] \in 1 .. MaxGeneration

TypeInv ==
    /\ FuturesTyped /\ WorkersTyped /\ ProcsTyped /\ FlagsTyped
    /\ ResultsTyped /\ SupervisorTyped /\ CloseTyped /\ AdminTyped
    /\ Launched

LEMMA TypeParts == TypeInv => PoolTypeOK
  BY DEF TypeInv, PoolTypeOK, FuturesTyped, WorkersTyped, ProcsTyped, FlagsTyped,
     ResultsTyped, SupervisorTyped, CloseTyped, AdminTyped, SomeProc

LEMMA TypeStart == Init => TypeInv
  <1> SUFFICES ASSUME Init PROVE TypeInv
    OBVIOUS
  <1> USE PoolAssumption DEF Init, Initial
  <1>1. FuturesTyped
    BY DEF FuturesTyped
  <1>2. WorkersTyped /\ Launched
    BY DEF WorkersTyped, Launched
  <1>3. ProcsTyped
    BY DEF ProcsTyped, SomeProc
  <1>4. FlagsTyped /\ ResultsTyped
    BY DEF FlagsTyped, ResultsTyped
  <1>5. SupervisorTyped /\ CloseTyped /\ AdminTyped
    BY DEF SupervisorTyped, CloseTyped, AdminTyped, Worker
  <1>6. QED
    BY <1>1, <1>2, <1>3, <1>4, <1>5 DEF TypeInv

\* A group of variables that does not change stays typed.
LEMMA TypeFrame ==
    ASSUME TypeInv
    PROVE  /\ UNCHANGED futureVars => FuturesTyped'
           /\ UNCHANGED workerVars => WorkersTyped'
           /\ UNCHANGED procVars => ProcsTyped'
           /\ UNCHANGED flagVars => FlagsTyped'
           /\ UNCHANGED resultVars => ResultsTyped'
           /\ UNCHANGED supVars => SupervisorTyped'
           /\ UNCHANGED closeVars => CloseTyped'
           /\ UNCHANGED admVars => AdminTyped'
           /\ UNCHANGED <<proc, gen>> => Launched'
  <1> USE DEF TypeInv
  <1>1. UNCHANGED futureVars => FuturesTyped'
    BY DEF futureVars, FuturesTyped
  <1>2. UNCHANGED workerVars => WorkersTyped'
    BY DEF workerVars, WorkersTyped
  <1>3. UNCHANGED procVars => ProcsTyped'
    BY DEF procVars, ProcsTyped
  <1>4. UNCHANGED flagVars => FlagsTyped'
    BY DEF flagVars, FlagsTyped
  <1>5. UNCHANGED resultVars => ResultsTyped'
    BY DEF resultVars, ResultsTyped
  <1>6. UNCHANGED supVars => SupervisorTyped'
    BY DEF supVars, SupervisorTyped
  <1>7. UNCHANGED closeVars => CloseTyped'
    BY DEF closeVars, CloseTyped
  <1>8. UNCHANGED admVars => AdminTyped'
    BY DEF admVars, AdminTyped
  <1>9. UNCHANGED <<proc, gen>> => Launched'
    BY DEF Launched
  <1>10. QED
    BY <1>1, <1>2, <1>3, <1>4, <1>5, <1>6, <1>7, <1>8, <1>9

LEMMA TypeExecute ==
    ASSUME TypeInv, NEW q \in Request, Execute(q)
    PROVE  TypeInv'
  <1>1. \A w \in LiveWorkers : w \in Worker /\ <<w, gen[w]>> \in Launches
    BY DEF TypeInv, WorkersTyped, ProcsTyped, Launched, LiveWorkers, ProcessAlive, Launches
  <1>2. FuturesTyped'
    BY <1>1 DEF Execute, TypeInv, FuturesTyped
  <1>3. WorkersTyped'
    BY <1>1 DEF Execute, TypeInv, WorkersTyped
  <1>4. ProcsTyped'
    BY <1>1 DEF Execute, TypeInv, ProcsTyped
  <1>5. QED
    BY <1>2, <1>3, <1>4, TypeFrame DEF Execute, TypeInv

LEMMA TypeProcess ==
    ASSUME TypeInv, NEW w \in Worker,
           ProcessReady(w) \/ ProcessTakes(w) \/ ProcessFinishes(w) \/ ProcessDies(w)
    PROVE  TypeInv'
  <1> USE TypeFrame DEF TypeInv, Others
  <1>1. CASE ProcessReady(w)
    <2>1. ProcsTyped' /\ Launched'
      BY <1>1 DEF ProcessReady, ProcsTyped, Launched, SomeProc, workerVars
    <2>2. QED
      BY <1>1, <2>1 DEF ProcessReady
  <1>2. CASE ProcessTakes(w)
    <2>1. ProcsTyped' /\ Launched'
      BY <1>2 DEF ProcessTakes, ProcsTyped, Launched, workerVars
    <2>2. QED
      BY <1>2, <2>1 DEF ProcessTakes
  <1>3. CASE ProcessFinishes(w)
    <2>1. ProcsTyped' /\ Launched'
      BY <1>3 DEF ProcessFinishes, ProcsTyped, Launched, workerVars
    <2>2. <<w, gen[w]>> \in Launches /\ current[w] \in Request
      BY <1>3 DEF ProcessFinishes, Working, ProcessAlive, ProcsTyped, Launched, Launches
    <2>3. ResultsTyped'
      BY <1>3, <2>2 DEF ProcessFinishes, ResultsTyped
    <2>4. QED
      BY <1>3, <2>1, <2>3 DEF ProcessFinishes
  <1>4. CASE ProcessDies(w)
    <2>1. ProcsTyped' /\ Launched'
      BY <1>4 DEF ProcessDies, ProcessAlive, ProcsTyped, Launched, SomeProc, workerVars
    <2>2. QED
      BY <1>4, <2>1 DEF ProcessDies
  <1>5. QED
    BY <1>1, <1>2, <1>3, <1>4

\* Taking a result: it is matched with the assignment it is for, or dropped.
Matched(q, a) ==
    /\ <<q, a>> \in results /\ results' = results \ {<<q, a>>}
    /\ assigned[q] = a
    /\ assigned' = [assigned EXCEPT ![q] = None]
    /\ registered' = registered \ {q}
    /\ outstanding' = [w \in Worker |->
          IF w = a[1] /\ w \in members /\ outstanding[w] > 0
          THEN outstanding[w] - 1 ELSE outstanding[w]]
    /\ resultHeld' = q /\ resultPc' = "set"

Dropped(q, a) ==
    /\ <<q, a>> \in results /\ results' = results \ {<<q, a>>}
    /\ assigned[q] # a
    /\ resultPc' = NextResult
    /\ UNCHANGED <<assigned, registered, outstanding, resultHeld>>

LEMMA ResultTakenEffect ==
    ASSUME TypeInv, ResultTaken
    PROVE  \E q \in Request, a \in Launches : Matched(q, a) \/ Dropped(q, a)
  <1>1. PICK r \in results :
           /\ results' = results \ {r}
           /\ IF assigned[r[1]] = r[2]
              THEN /\ assigned' = [assigned EXCEPT ![r[1]] = None]
                   /\ registered' = registered \ {r[1]}
                   /\ outstanding' = [w \in Worker |->
                         IF w = r[2][1] /\ w \in members /\ outstanding[w] > 0
                         THEN outstanding[w] - 1 ELSE outstanding[w]]
                   /\ resultHeld' = r[1]
                   /\ resultPc' = "set"
              ELSE /\ resultPc' = NextResult
                   /\ UNCHANGED <<assigned, registered, outstanding, resultHeld>>
    BY DEF ResultTaken
  <1>2. PICK q \in Request, a \in Launches : r = <<q, a>>
    BY DEF TypeInv, ResultsTyped
  <1>3. r[1] = q /\ r[2] = a
    BY <1>2
  <1>4. <<q, a>> \in results /\ results' = results \ {<<q, a>>}
    BY <1>1, <1>2
  <1>5. CASE assigned[q] = a
    <2>1. /\ assigned' = [assigned EXCEPT ![q] = None]
          /\ registered' = registered \ {q}
          /\ resultHeld' = q /\ resultPc' = "set"
      BY <1>1, <1>3, <1>5
    <2>2. outstanding' = [w \in Worker |->
             IF w = a[1] /\ w \in members /\ outstanding[w] > 0
             THEN outstanding[w] - 1 ELSE outstanding[w]]
      BY <1>1, <1>3, <1>5
    <2>3. QED
      BY <1>4, <1>5, <2>1, <2>2 DEF Matched
  <1>6. CASE assigned[q] # a
    <2>1. resultPc' = NextResult /\ UNCHANGED <<assigned, registered, outstanding, resultHeld>>
      BY <1>1, <1>3, <1>6
    <2>2. QED
      BY <1>4, <1>6, <2>1 DEF Dropped
  <1>7. QED
    BY <1>5, <1>6

LEMMA TypeResult ==
    ASSUME TypeInv, ResultStep
    PROVE  TypeInv'
  <1> USE TypeFrame DEF TypeInv
  <1>1. CASE ResultTaken
    <2>1. PICK q \in Request, a \in Launches : Matched(q, a) \/ Dropped(q, a)
      BY <1>1, ResultTakenEffect
    <2>2. FuturesTyped'
      BY <1>1, <2>1 DEF ResultTaken, FuturesTyped, Matched, Dropped
    <2>3. outstanding' \in [Worker -> Nat]
      BY <2>1 DEF WorkersTyped, Matched, Dropped
    <2>4. WorkersTyped'
      BY <1>1, <2>3 DEF ResultTaken, WorkersTyped
    <2>5. ResultsTyped'
      BY <2>1 DEF ResultsTyped, NextResult, Matched, Dropped
    <2>6. Launched'
      BY <1>1 DEF ResultTaken, procVars
    <2>7. QED
      BY <1>1, <2>2, <2>4, <2>5, <2>6 DEF ResultTaken
  <1>2. CASE ResultSet
    <2>1. FuturesTyped' /\ ResultsTyped'
      BY <1>2 DEF ResultSet, FuturesTyped, ResultsTyped, NextResult
    <2>2. QED
      BY <1>2, <2>1 DEF ResultSet, procVars, workerVars
  <1>3. CASE ResultLoopEnds
    <2>1. ResultsTyped'
      BY <1>3 DEF ResultLoopEnds, ResultsTyped
    <2>2. QED
      BY <1>3, <2>1 DEF ResultLoopEnds, procVars, workerVars
  <1>4. QED
    BY <1>1, <1>2, <1>3 DEF ResultStep

\* Requests taken from workers, a future failed, a process stopped.
LEMMA TakeTyped ==
    ASSUME TypeInv, NEW W, Take(W) \/ TakeAll
    PROVE  FuturesTyped' /\ outstanding' \in [Worker -> Nat]
  BY DEF TypeInv, FuturesTyped, WorkersTyped, Take, TakeAll

LEMMA FailTyped ==
    ASSUME TypeInv, NEW q \in Request, FailOne(q)
    PROVE  FuturesTyped'
  BY DEF TypeInv, FuturesTyped, FailOne

LEMMA StopTyped ==
    ASSUME TypeInv, NEW w, StopProcess(w)
    PROVE  /\ ProcsTyped' /\ alive' \in [Worker -> BOOLEAN]
           /\ \A v \in Worker : proc'[v] # "none" => proc[v] # "none"
  BY DEF TypeInv, ProcsTyped, WorkersTyped, StopProcess, ProcessGone, ProcessSurvives,
     ProcessAlive, SomeProc

LEMMA ScheduleTyped ==
    ASSUME TypeInv, NEW w, ScheduleRestart(w)
    PROVE  restarts' \in [Worker -> Nat] /\ restartDue' \in [Worker -> BOOLEAN]
  <1>1. PICK n \in 0 .. restarts[w] :
            /\ restarts' = [restarts EXCEPT ![w] = n]
            /\ restartDue' = [restartDue EXCEPT ![w] = n < RestartLimit]
    BY DEF ScheduleRestart
  <1>2. (n < RestartLimit) \in BOOLEAN
    OBVIOUS
  <1>3. n \in Nat
    OBVIOUS
  <1>4. QED
    BY <1>1, <1>2, <1>3 DEF TypeInv, WorkersTyped

\* What keeps the table of workers typed when only some of it changes.
LEMMA WorkersKept ==
    ASSUME TypeInv, UNCHANGED <<members, groups, gen, retiring>>,
           alive' \in [Worker -> BOOLEAN], restartDue' \in [Worker -> BOOLEAN],
           outstanding' \in [Worker -> Nat], restarts' \in [Worker -> Nat]
    PROVE  WorkersTyped'
  BY DEF TypeInv, WorkersTyped

LEMMA LaunchedKept ==
    ASSUME TypeInv, UNCHANGED gen,
           \A v \in Worker : proc'[v] # "none" => proc[v] # "none"
    PROVE  Launched'
  BY DEF TypeInv, Launched

LEMMA TypeSupervisor ==
    ASSUME TypeInv, SupervisorStep
    PROVE  TypeInv'
  <1> USE TypeFrame
  <1>0. 0 \in 0 .. NumWorkers
    BY PoolAssumption
  <1>1. ASSUME NEW w \in Worker, SupervisorFindsExit(w) PROVE TypeInv'
    <2>1. SupervisorTyped'
      BY <1>1 DEF SupervisorFindsExit, OwnedBy, TypeInv, SupervisorTyped, FuturesTyped, Worker
    <2>2. FuturesTyped' /\ WorkersTyped'
      BY <1>1, TakeTyped, WorkersKept DEF SupervisorFindsExit, TypeInv, WorkersTyped
    <2>3. QED
      BY <1>1, <2>1, <2>2 DEF SupervisorFindsExit, TypeInv, procVars
  <1>2. ASSUME NEW w \in Worker, SupervisorRestarts(w) PROVE TypeInv'
    <2>1. SupervisorTyped' /\ ProcsTyped'
      BY <1>2 DEF SupervisorRestarts, Launch, TypeInv, SupervisorTyped, ProcsTyped, SomeProc, Worker
    <2>2. gen' \in [Worker -> 0 .. MaxGeneration] /\ gen'[w] \in 1 .. MaxGeneration
      BY <1>2, PoolAssumption DEF SupervisorRestarts, Launch, TypeInv, WorkersTyped
    <2>3. WorkersTyped'
      BY <1>2, <2>2 DEF SupervisorRestarts, Launch, TypeInv, WorkersTyped
    <2>4. Launched'
      BY <1>2, <2>2 DEF SupervisorRestarts, Launch, TypeInv, WorkersTyped, ProcsTyped, Launched
    <2>5. QED
      BY <1>2, <2>1, <2>3, <2>4 DEF SupervisorRestarts, TypeInv
  <1>3. CASE SupervisorFails
    <2>1. FuturesTyped' /\ SupervisorTyped'
      BY <1>3, FailTyped DEF SupervisorFails, TypeInv, SupervisorTyped
    <2>2. QED
      BY <1>3, <2>1 DEF SupervisorFails, TypeInv, procVars, workerVars
  <1>4. CASE SupervisorDecides
    <2>1. restarts' \in [Worker -> Nat] /\ restartDue' \in [Worker -> BOOLEAN]
      BY <1>4, ScheduleTyped DEF SupervisorDecides, TypeInv, WorkersTyped
    <2>2. WorkersTyped'
      BY <1>4, <2>1 DEF SupervisorDecides, TypeInv, WorkersTyped
    <2>3. FlagsTyped' /\ SupervisorTyped'
      BY <1>0, <1>4 DEF SupervisorDecides, SupervisorGoTo, flagVars, TypeInv,
         FlagsTyped, SupervisorTyped, WorkersTyped
    <2>4. QED
      BY <1>4, <2>2, <2>3 DEF SupervisorDecides, TypeInv, procVars
  <1>5. CASE SupervisorKills
    <2>1. ProcsTyped' /\ alive' \in [Worker -> BOOLEAN] /\ Launched'
      <3>1. gen' = gen /\ (StopProcess(FirstOf(supTodo)) \/ UNCHANGED <<procVars, alive>>)
        BY <1>5 DEF SupervisorKills
      <3>2. CASE StopProcess(FirstOf(supTodo))
        BY <3>1, <3>2, StopTyped, LaunchedKept
      <3>3. CASE UNCHANGED <<procVars, alive>>
        BY <3>1, <3>3 DEF procVars, TypeInv, WorkersTyped
      <3>4. QED
        BY <3>1, <3>2, <3>3
    <2>2. WorkersTyped' /\ SupervisorTyped'
      BY <1>0, <1>5, <2>1 DEF SupervisorKills, SupervisorGoTo, TypeInv, WorkersTyped,
         SupervisorTyped
    <2>3. QED
      BY <1>5, <2>1, <2>2 DEF SupervisorKills, TypeInv
  <1>6. CASE SupervisorTakesAll
    <2>1. SupervisorTyped'
      BY <1>6 DEF SupervisorTakesAll, TypeInv, SupervisorTyped, FuturesTyped
    <2>2. FuturesTyped' /\ WorkersTyped'
      BY <1>6, TakeTyped, WorkersKept DEF SupervisorTakesAll, TypeInv, WorkersTyped
    <2>3. QED
      BY <1>6, <2>1, <2>2 DEF SupervisorTakesAll, TypeInv, procVars
  <1>7. CASE SupervisorEnds \/ SupervisorGivesUp
    <2>1. SupervisorTyped'
      BY <1>0, <1>7 DEF SupervisorEnds, SupervisorGivesUp, SupervisorGoTo, TypeInv,
         SupervisorTyped
    <2>2. QED
      BY <1>7, <2>1 DEF SupervisorEnds, SupervisorGivesUp, TypeInv, procVars, workerVars
  <1>8. CASE SupervisorSeesReady
    <2>1. SupervisorTyped' /\ WorkersTyped'
      BY <1>0, <1>8 DEF SupervisorSeesReady, SupervisorGoTo, TypeInv,
         SupervisorTyped, WorkersTyped
    <2>2. QED
      BY <1>8, <2>1 DEF SupervisorSeesReady, TypeInv, procVars
  <1>9. CASE SupervisorCleansUp
    <2>1. restarts' \in [Worker -> Nat] /\ restartDue' \in [Worker -> BOOLEAN]
      BY <1>9, ScheduleTyped DEF SupervisorCleansUp, TypeInv, WorkersTyped
    <2>2. ProcsTyped' /\ alive' \in [Worker -> BOOLEAN] /\ Launched'
      <3>1. gen' = gen /\ (StopProcess(supWorker) \/ UNCHANGED <<procVars, alive>>)
        BY <1>9 DEF SupervisorCleansUp
      <3>2. CASE StopProcess(supWorker)
        BY <3>1, <3>2, StopTyped, LaunchedKept
      <3>3. CASE UNCHANGED <<procVars, alive>>
        BY <3>1, <3>3 DEF procVars, TypeInv, WorkersTyped
      <3>4. QED
        BY <3>1, <3>2, <3>3
    <2>3. WorkersTyped' /\ SupervisorTyped'
      BY <1>0, <1>9, <2>1, <2>2 DEF SupervisorCleansUp, SupervisorGoTo, TypeInv,
         WorkersTyped, SupervisorTyped
    <2>4. QED
      BY <1>9, <2>2, <2>3 DEF SupervisorCleansUp, TypeInv
  <1>10. QED
    BY <1>1, <1>2, <1>3, <1>4, <1>5, <1>6, <1>7, <1>8, <1>9 DEF SupervisorStep

LEMMA TypeClose ==
    ASSUME TypeInv, CloseBegins \/ CloseStep
    PROVE  TypeInv'
  <1> USE TypeFrame
  <1>1. CASE CloseBegins
    <2>1. FlagsTyped' /\ CloseTyped'
      BY <1>1 DEF CloseBegins, CloseGoTo, TypeInv, FlagsTyped, CloseTyped, WorkersTyped
    <2>2. QED
      BY <1>1, <2>1 DEF CloseBegins, TypeInv, procVars, workerVars
  <1>2. CASE CloseSignals
    <2>1. CloseTyped'
      BY <1>2 DEF CloseSignals, CloseGoTo, TypeInv, CloseTyped, WorkersTyped
    <2>2. QED
      BY <1>2, <2>1 DEF CloseSignals, TypeInv, procVars, workerVars
  <1>3. CASE CloseStops
    <2>1. ProcsTyped' /\ alive' \in [Worker -> BOOLEAN] /\ Launched'
      BY <1>3, StopTyped, LaunchedKept DEF CloseStops, TypeInv, WorkersTyped, procVars
    <2>2. WorkersTyped'
      BY <1>3, <2>1 DEF CloseStops, TypeInv, WorkersTyped
    <2>3. CloseTyped' /\ FlagsTyped'
      BY <1>3 DEF CloseStops, CloseGoTo, TypeInv, CloseTyped, FlagsTyped
    <2>4. QED
      BY <1>3, <2>1, <2>2, <2>3 DEF CloseStops, TypeInv
  <1>4. CASE CloseTakesAll
    <2>1. CloseTyped'
      BY <1>4 DEF CloseTakesAll, TypeInv, CloseTyped, FuturesTyped
    <2>2. FuturesTyped' /\ WorkersTyped'
      BY <1>4, TakeTyped, WorkersKept DEF CloseTakesAll, TypeInv, WorkersTyped
    <2>3. QED
      BY <1>4, <2>1, <2>2 DEF CloseTakesAll, TypeInv, procVars
  <1>5. CASE CloseFails
    <2>1. FuturesTyped' /\ CloseTyped'
      BY <1>5, FailTyped DEF CloseFails, TypeInv, CloseTyped
    <2>2. QED
      BY <1>5, <2>1 DEF CloseFails, TypeInv, procVars, workerVars
  <1>6. QED
    BY <1>1, <1>2, <1>3, <1>4, <1>5 DEF CloseStep

LEMMA TypeAdmin ==
    ASSUME TypeInv, AdminStep \/ (\E g \in Group : UnloadBegins(g) \/ LoadBegins(g))
    PROVE  TypeInv'
  <1> USE TypeFrame
  <1>1. ASSUME NEW g \in Group, UnloadBegins(g) PROVE TypeInv'
    <2>1. AdminTyped'
      BY <1>1 DEF UnloadBegins, MembersOf, OwnedBy, TypeInv, AdminTyped, FuturesTyped
    <2>2. FuturesTyped' /\ outstanding' \in [Worker -> Nat]
      BY <1>1, TakeTyped DEF UnloadBegins
    <2>3. WorkersTyped'
      BY <1>1, <2>2 DEF UnloadBegins, TypeInv, WorkersTyped
    <2>4. QED
      BY <1>1, <2>1, <2>2, <2>3 DEF UnloadBegins, TypeInv, procVars
  <1>2. ASSUME NEW g \in Group, LoadBegins(g) PROVE TypeInv'
    <2>1. AdminTyped'
      BY <1>2 DEF LoadBegins, TypeInv, AdminTyped
    <2>2. QED
      BY <1>2, <2>1 DEF LoadBegins, TypeInv, procVars, workerVars
  <1>3. CASE LoadLaunches
    <2>1. WorkersTyped' /\ Launched'
      BY <1>3, PoolAssumption DEF LoadLaunches, TypeInv, WorkersTyped, Launched
    <2>2. AdminTyped' /\ ProcsTyped'
      BY <1>3 DEF LoadLaunches, TypeInv, AdminTyped, ProcsTyped, SomeProc
    <2>3. QED
      BY <1>3, <2>1, <2>2 DEF LoadLaunches, TypeInv
  <1>4. CASE LoadEnds
    <2>1. WorkersTyped'
      BY <1>4 DEF LoadEnds, MembersOf, TypeInv, WorkersTyped, AdminTyped
    <2>2. AdminTyped'
      BY <1>4 DEF LoadEnds, TypeInv, AdminTyped
    <2>3. QED
      BY <1>4, <2>1, <2>2 DEF LoadEnds, TypeInv, procVars
  <1>5. CASE LoadFails
    <2>1. AdminTyped'
      BY <1>5 DEF LoadFails, MembersOf, TypeInv, AdminTyped
    <2>2. QED
      BY <1>5, <2>1 DEF LoadFails, TypeInv, procVars, workerVars
  <1>6. CASE AdminDisposes
    <2>1. ProcsTyped' /\ alive' \in [Worker -> BOOLEAN] /\ Launched'
      <3>1. gen' = gen /\ (StopProcess(FirstOf(admTodo)) \/ UNCHANGED <<procVars, alive>>)
        BY <1>6 DEF AdminDisposes
      <3>2. CASE StopProcess(FirstOf(admTodo))
        BY <3>1, <3>2, StopTyped, LaunchedKept
      <3>3. CASE UNCHANGED <<procVars, alive>>
        BY <3>1, <3>3 DEF procVars, TypeInv, WorkersTyped
      <3>4. QED
        BY <3>1, <3>2, <3>3
    <2>2. WorkersTyped' /\ AdminTyped'
      BY <1>6, <2>1 DEF AdminDisposes, TypeInv, WorkersTyped, AdminTyped
    <2>3. QED
      BY <1>6, <2>1, <2>2 DEF AdminDisposes, TypeInv
  <1>7. CASE AdminFails
    <2>1. FuturesTyped' /\ AdminTyped'
      BY <1>7, FailTyped DEF AdminFails, TypeInv, AdminTyped
    <2>2. QED
      BY <1>7, <2>1 DEF AdminFails, TypeInv, procVars, workerVars
  <1>8. QED
    BY <1>1, <1>2, <1>3, <1>4, <1>5, <1>6, <1>7 DEF AdminStep

LEMMA TypeStep ==
    ASSUME TypeInv, [Next]_vars
    PROVE  TypeInv'
  <1>1. CASE UNCHANGED vars
    BY <1>1, TypeFrame DEF vars, TypeInv, procVars, workerVars
  <1>2. CASE Next
    BY <1>2, TypeExecute, TypeProcess, TypeResult, TypeSupervisor, TypeClose, TypeAdmin
       DEF Next
  <1>3. QED
    BY <1>1, <1>2

LEMMA TypeAlways == Spec => []TypeInv
  <1>1. TypeInv /\ [Next]_vars => TypeInv'
    BY TypeStep
  <1>2. QED
    BY <1>1, TypeStart, PTL DEF Spec

\* The state of the pool is well typed; in particular a worker answers and is
\* assigned requests only under the number of a launch it really had.
THEOREM PoolTypeCorrect == Spec => []PoolTypeOK
  BY TypeAlways, TypeParts, PTL

-----------------------------------------------------------------------------
(* Who holds a future.  A thread holds some only where its program counter  *)
(* says so, and a request is registered exactly while it is assigned: then  *)
(* each step moves futures from one party to another that had none.        *)
NobodyElse ==
    /\ registered \cap supHeld = {} /\ registered \cap closeHeld = {}
    /\ registered \cap admHeld = {} /\ supHeld \cap closeHeld = {}
    /\ supHeld \cap admHeld = {} /\ closeHeld \cap admHeld = {}
    /\ resultHeld \notin registered \cup supHeld \cup closeHeld \cup admHeld

HeldIffWaiting ==
    \A q \in Request :
       future[q] = "waiting"
          <=> q \in registered \cup supHeld \cup closeHeld \cup admHeld \cup {resultHeld}

HeldAtWork ==
    /\ resultHeld = None <=> resultPc # "set"
    /\ supPc \notin {"fail", "failAll"} => supHeld = {}
    /\ closePc # "failAll" => closeHeld = {}
    /\ admPc \notin {"dispose", "raised"} => admHeld = {}

AssignedIffRegistered == \A q \in Request : assigned[q] # None <=> q \in registered

HoldInv == NobodyElse /\ HeldIffWaiting /\ HeldAtWork /\ AssignedIffRegistered

LEMMA HoldStart == Init => HoldInv
  BY PoolAssumption
     DEF Init, HoldInv, NobodyElse, HeldIffWaiting, HeldAtWork, AssignedIffRegistered

\* A step that moves no future, and no thread out of the place where it holds
\* some.
LEMMA HoldFrame ==
    ASSUME HoldInv, UNCHANGED <<futureVars, resultHeld, supHeld, closeHeld, admHeld>>,
           resultPc' = "set" <=> resultPc = "set",
           supPc \in {"fail", "failAll"} => supPc' = supPc \/ supHeld = {},
           closePc = "failAll" => closePc' = closePc \/ closeHeld = {},
           admPc \in {"dispose", "raised"} =>
              admPc' \in {"dispose", "raised"} \/ admHeld = {}
    PROVE  HoldInv'
  BY DEF HoldInv, NobodyElse, HeldIffWaiting, HeldAtWork, AssignedIffRegistered, futureVars

\* A launch of a worker is no request and not None.
LEMMA LaunchIsNotNone == \A a \in Launches : a # None
  BY PoolAssumption DEF Launches

LEMMA HoldExecute ==
    ASSUME TypeInv, HoldInv, NEW q \in Request, Execute(q)
    PROVE  HoldInv'
  <1> USE DEF HoldInv
  <1>1. UNCHANGED <<resultHeld, resultPc, supHeld, supPc, closeHeld, closePc, admHeld, admPc>>
    BY DEF Execute, resultVars, supVars, closeVars, admVars
  <1>2. HeldAtWork'
    BY <1>1 DEF HeldAtWork
  <1>3. q \notin registered \cup supHeld \cup closeHeld \cup admHeld \cup {resultHeld}
    BY DEF Execute, HeldIffWaiting
  <1>4. CASE /\ future' = [future EXCEPT ![q] = "failed"]
             /\ UNCHANGED <<registered, assigned>>
    BY <1>1, <1>2, <1>3, <1>4
       DEF TypeInv, FuturesTyped, NobodyElse, HeldIffWaiting, AssignedIffRegistered
  <1>5. ASSUME NEW w \in LiveWorkers,
               future' = [future EXCEPT ![q] = "waiting"],
               registered' = registered \cup {q},
               assigned' = [assigned EXCEPT ![q] = <<w, gen[w]>>]
        PROVE  HoldInv'
    <2>1. <<w, gen[w]>> # None
      BY LaunchIsNotNone DEF LiveWorkers, ProcessAlive, TypeInv, WorkersTyped, Launched, Launches
    <2>2. AssignedIffRegistered'
      BY <1>5, <2>1 DEF TypeInv, FuturesTyped, AssignedIffRegistered
    <2>3. HeldIffWaiting'
      BY <1>1, <1>5 DEF TypeInv, FuturesTyped, HeldIffWaiting
    <2>4. NobodyElse'
      BY <1>1, <1>3, <1>5 DEF NobodyElse
    <2>5. QED
      BY <1>2, <2>2, <2>3, <2>4
  <1>6. QED
    BY <1>4, <1>5 DEF Execute

LEMMA HoldResult ==
    ASSUME TypeInv, HoldInv, ResultStep
    PROVE  HoldInv'
  <1>1. UNCHANGED <<supHeld, supPc, closeHeld, closePc, admHeld, admPc>>
    BY DEF ResultStep, ResultTaken, ResultSet, ResultLoopEnds, supVars, closeVars, admVars
  <1>2. CASE ResultTaken
    <2>1. PICK q \in Request, a \in Launches : Matched(q, a) \/ Dropped(q, a)
      BY <1>2, ResultTakenEffect
    <2>2. future' = future /\ resultPc = "get"
      BY <1>2 DEF ResultTaken
    <2>3. CASE Matched(q, a)
      <3>1. q \in registered /\ resultHeld = None
        BY <2>2, <2>3, LaunchIsNotNone DEF Matched, HoldInv, AssignedIffRegistered, HeldAtWork
      <3>2. /\ registered' = registered \ {q} /\ resultHeld' = q /\ resultPc' = "set"
            /\ assigned' = [assigned EXCEPT ![q] = None]
        BY <2>3 DEF Matched
      <3>3. q # None
        BY PoolAssumption
      <3>4. HeldAtWork'
        BY <1>1, <3>2, <3>3 DEF HoldInv, HeldAtWork
      <3>5. AssignedIffRegistered'
        BY <3>2 DEF HoldInv, AssignedIffRegistered, TypeInv, FuturesTyped
      <3>6. HeldIffWaiting' /\ NobodyElse'
        BY <1>1, <2>2, <3>1, <3>2, PoolAssumption DEF HoldInv, HeldIffWaiting, NobodyElse
      <3>7. QED
        BY <3>4, <3>5, <3>6 DEF HoldInv
    <2>4. CASE Dropped(q, a)
      BY <1>1, <2>2, <2>4, HoldFrame DEF Dropped, NextResult, futureVars
    <2>5. QED
      BY <2>1, <2>3, <2>4
  <1>3. CASE ResultSet
    <2>1. resultPc = "set" /\ resultHeld' = None /\ resultPc' = NextResult
      BY <1>3 DEF ResultSet
    <2>2. resultHeld \in Request
      BY <2>1 DEF HoldInv, HeldAtWork, TypeInv, ResultsTyped
    <2>3. PICK o \in {"ok", "failed"} :
             future' = [future EXCEPT ![resultHeld] = IF @ = "waiting" THEN o ELSE @]
      BY <1>3 DEF ResultSet
    <2>4. UNCHANGED <<registered, assigned>>
      BY <1>3 DEF ResultSet
    <2>5. HeldIffWaiting'
      BY <1>1, <2>1, <2>2, <2>3, <2>4, PoolAssumption
         DEF HoldInv, HeldIffWaiting, NobodyElse, TypeInv, FuturesTyped
    <2>6. NobodyElse' /\ HeldAtWork' /\ AssignedIffRegistered'
      BY <1>1, <2>1, <2>4, PoolAssumption DEF HoldInv, NobodyElse, HeldAtWork,
         AssignedIffRegistered, NextResult, TypeInv, FuturesTyped, SupervisorTyped,
         CloseTyped, AdminTyped
    <2>7. QED
      BY <2>5, <2>6 DEF HoldInv
  <1>4. CASE ResultLoopEnds
    BY <1>1, <1>4, HoldFrame DEF ResultLoopEnds, futureVars
  <1>5. QED
    BY <1>2, <1>3, <1>4 DEF ResultStep

\* Requests taken out of the table are no longer assigned, and all others stay.
LEMMA TakenLeaveTable ==
    ASSUME TypeInv, HoldInv, NEW S,
           S \subseteq registered, registered' = registered \ S,
           assigned' = [q \in Request |-> IF q \in S THEN None ELSE assigned[q]]
    PROVE  AssignedIffRegistered'
  BY DEF HoldInv, AssignedIffRegistered

LEMMA AllTaken ==
    ASSUME TakeAll
    PROVE  registered' = {} /\ future' = future /\ AssignedIffRegistered'
  BY DEF TakeAll, AssignedIffRegistered

\* What failing one future leaves for the rest.
LEMMA FailedLeavesHand ==
    ASSUME TypeInv, HoldInv, NEW q \in Request, FailOne(q),
           q \notin registered, resultHeld' = resultHeld
    PROVE  /\ UNCHANGED <<registered, assigned>> /\ AssignedIffRegistered'
           /\ \A r \in Request : future'[r] = "waiting" <=> future[r] = "waiting" /\ r # q
  BY DEF FailOne, HoldInv, AssignedIffRegistered, TypeInv, FuturesTyped

LEMMA HoldSupervisor ==
    ASSUME TypeInv, HoldInv, SupervisorStep
    PROVE  HoldInv'
  <1>1. UNCHANGED <<resultHeld, resultPc, closeHeld, closePc, admHeld, admPc>>
    BY DEF SupervisorStep, SupervisorFindsExit, SupervisorRestarts, SupervisorFails,
       SupervisorDecides, SupervisorKills, SupervisorTakesAll, SupervisorEnds,
       SupervisorSeesReady, SupervisorGivesUp, SupervisorCleansUp, resultVars, closeVars,
       admVars
  <1>2. ASSUME NEW S, S \subseteq registered, registered' = registered \ S, future' = future,
               AssignedIffRegistered', supHeld = {}, supHeld' = S, supPc' \in {"fail", "failAll"}
        PROVE  HoldInv'
    BY <1>1, <1>2 DEF HoldInv, NobodyElse, HeldIffWaiting, HeldAtWork
  <1>3. ASSUME NEW w \in Worker, SupervisorFindsExit(w) PROVE HoldInv'
    <2>1. /\ supHeld = {} /\ supHeld' = OwnedBy({w}) /\ supPc' = "fail" /\ Take({w})
      BY <1>3 DEF SupervisorFindsExit, HoldInv, HeldAtWork
    <2>2. /\ OwnedBy({w}) \subseteq registered /\ registered' = registered \ OwnedBy({w})
          /\ future' = future
          /\ assigned' = [q \in Request |-> IF q \in OwnedBy({w}) THEN None ELSE assigned[q]]
      BY <2>1 DEF Take, OwnedBy
    <2>3. AssignedIffRegistered'
      BY <2>2, TakenLeaveTable
    <2>4. QED
      BY <1>2, <2>1, <2>2, <2>3
  <1>4. CASE SupervisorTakesAll
    <2>1. /\ supHeld = {} /\ supHeld' = registered /\ supPc' = "failAll" /\ TakeAll
      BY <1>4 DEF SupervisorTakesAll, HoldInv, HeldAtWork
    <2>2. registered' = registered \ registered
      BY <2>1, AllTaken
    <2>3. QED
      BY <1>2, <2>1, <2>2, AllTaken
  <1>5. CASE SupervisorFails
    <2>1. PICK q \in supHeld : FailOne(q) /\ supHeld' = supHeld \ {q} /\ supPc' = supPc
      BY <1>5 DEF SupervisorFails
    <2>2. q \in Request /\ q \notin registered
      BY DEF TypeInv, SupervisorTyped, HoldInv, NobodyElse
    <2>3. QED
      BY <1>1, <2>1, <2>2, FailedLeavesHand
         DEF HoldInv, NobodyElse, HeldIffWaiting, HeldAtWork
  <1>6. ASSUME \/ \E w \in Worker : SupervisorRestarts(w)
               \/ SupervisorDecides \/ SupervisorKills \/ SupervisorEnds
               \/ SupervisorSeesReady \/ SupervisorGivesUp \/ SupervisorCleansUp
        PROVE  HoldInv'
    <2>1. /\ UNCHANGED <<futureVars, supHeld>>
          /\ supPc \in {"fail", "failAll"} => supHeld = {}
      BY <1>6 DEF SupervisorRestarts, SupervisorDecides, SupervisorKills, SupervisorEnds,
         SupervisorSeesReady, SupervisorGivesUp, SupervisorCleansUp, SupervisorGoTo
    <2>2. QED
      BY <1>1, <2>1, HoldFrame DEF HoldInv, HeldAtWork
  <1>7. QED
    BY <1>3, <1>4, <1>5, <1>6 DEF SupervisorStep

LEMMA HoldClose ==
    ASSUME TypeInv, HoldInv, CloseBegins \/ CloseStep
    PROVE  HoldInv'
  <1>1. UNCHANGED <<resultHeld, resultPc, supHeld, supPc, admHeld, admPc>>
    BY DEF CloseBegins, CloseStep, CloseSignals, CloseStops, CloseTakesAll, CloseFails,
       resultVars, supVars, admVars
  <1>2. CASE CloseTakesAll
    <2>1. /\ closeHeld = {} /\ closeHeld' = registered /\ closePc' = "failAll" /\ TakeAll
      BY <1>2 DEF CloseTakesAll, HoldInv, HeldAtWork
    <2>2. /\ registered' = {} /\ future' = future /\ AssignedIffRegistered'
      BY <2>1, AllTaken
    <2>3. QED
      BY <1>1, <2>1, <2>2 DEF HoldInv, NobodyElse, HeldIffWaiting, HeldAtWork
  <1>3. CASE CloseFails
    <2>1. CASE closeHeld = {}
      BY <1>1, <1>3, <2>1, HoldFrame DEF CloseFails
    <2>2. ASSUME NEW q \in closeHeld,
                 FailOne(q), closeHeld' = closeHeld \ {q}, closePc' = closePc
          PROVE  HoldInv'
      <3>1. q \in Request /\ q \notin registered
        BY DEF TypeInv, CloseTyped, HoldInv, NobodyElse
      <3>2. QED
        BY <1>1, <2>2, <3>1, FailedLeavesHand
           DEF HoldInv, NobodyElse, HeldIffWaiting, HeldAtWork
    <2>3. QED
      BY <1>3, <2>1, <2>2 DEF CloseFails
  <1>4. CASE CloseBegins \/ CloseSignals \/ CloseStops
    <2>1. UNCHANGED <<futureVars, closeHeld>> /\ closePc # "failAll"
      BY <1>4 DEF CloseBegins, CloseSignals, CloseStops, CloseGoTo
    <2>2. QED
      BY <1>1, <2>1, HoldFrame
  <1>5. QED
    BY <1>2, <1>3, <1>4 DEF CloseStep

LEMMA HoldAdmin ==
    ASSUME TypeInv, HoldInv, AdminStep \/ (\E g \in Group : UnloadBegins(g) \/ LoadBegins(g))
    PROVE  HoldInv'
  <1>1. UNCHANGED <<resultHeld, resultPc, supHeld, supPc, closeHeld, closePc>>
    BY DEF AdminStep, UnloadBegins, LoadBegins, AdminDisposes, AdminFails, LoadLaunches,
       LoadEnds, LoadFails, resultVars, supVars, closeVars
  <1>2. ASSUME NEW g \in Group, UnloadBegins(g) PROVE HoldInv'
    <2>1. /\ admHeld = {} /\ admHeld' = OwnedBy(MembersOf(g)) /\ admPc' = "dispose"
          /\ Take(MembersOf(g))
      BY <1>2 DEF UnloadBegins, HoldInv, HeldAtWork
    <2>2. /\ admHeld' \subseteq registered /\ registered' = registered \ admHeld'
          /\ future' = future
          /\ assigned' = [q \in Request |-> IF q \in admHeld' THEN None ELSE assigned[q]]
      BY <2>1 DEF Take, OwnedBy
    <2>3. AssignedIffRegistered'
      BY <2>2, TakenLeaveTable
    <2>4. QED
      BY <1>1, <2>1, <2>2, <2>3 DEF HoldInv, NobodyElse, HeldIffWaiting, HeldAtWork
  <1>3. CASE AdminFails
    <2>1. CASE admHeld = {}
      BY <1>1, <1>3, <2>1, HoldFrame DEF AdminFails
    <2>2. ASSUME NEW q \in admHeld,
                 FailOne(q), admHeld' = admHeld \ {q}, admPc' = admPc
          PROVE  HoldInv'
      <3>1. q \in Request /\ q \notin registered
        BY DEF TypeInv, AdminTyped, HoldInv, NobodyElse
      <3>2. QED
        BY <1>1, <2>2, <3>1, FailedLeavesHand
           DEF HoldInv, NobodyElse, HeldIffWaiting, HeldAtWork
    <2>3. QED
      BY <1>3, <2>1, <2>2 DEF AdminFails
  <1>4. CASE AdminDisposes
    BY <1>1, <1>4, HoldFrame DEF AdminDisposes
  <1>5. CASE LoadLaunches \/ LoadEnds \/ LoadFails \/ \E g \in Group : LoadBegins(g)
    <2>1. UNCHANGED <<futureVars, admHeld>> /\ admPc \notin {"dispose", "raised"}
      BY <1>5 DEF LoadLaunches, LoadEnds, LoadFails, LoadBegins
    <2>2. QED
      BY <1>1, <2>1, HoldFrame
  <1>6. QED
    BY <1>2, <1>3, <1>4, <1>5 DEF AdminStep

LEMMA HoldStep ==
    ASSUME TypeInv, HoldInv, [Next]_vars
    PROVE  HoldInv'
  <1>1. CASE UNCHANGED vars
    BY <1>1, HoldFrame DEF vars, resultVars, supVars, closeVars, admVars
  <1>2. ASSUME NEW w \in Worker,
               ProcessReady(w) \/ ProcessTakes(w) \/ ProcessFinishes(w) \/ ProcessDies(w)
        PROVE  HoldInv'
    <2>1. Others /\ UNCHANGED <<resultHeld, resultPc>>
      BY <1>2 DEF ProcessReady, ProcessTakes, ProcessFinishes, ProcessDies, resultVars
    <2>2. QED
      BY <2>1, HoldFrame DEF Others, supVars, closeVars, admVars
  <1>3. CASE Next
    BY <1>2, <1>3, HoldExecute, HoldResult, HoldSupervisor, HoldClose, HoldAdmin DEF Next
  <1>4. QED
    BY <1>1, <1>3

LEMMA HoldAlways == Spec => [](TypeInv /\ HoldInv)
  <1>1. TypeInv /\ HoldInv /\ [Next]_vars => HoldInv'
    BY HoldStep
  <1>2. QED
    BY <1>1, HoldStart, TypeAlways, PTL DEF Spec

\* Every unfinished future has one holder who will finish it, and a finished
\* one has none: whichever of a result, a death, a shutdown, an unload and a
\* close comes first, and however the threads that noticed them interleave.
THEOREM FutureHasOneHolder == Spec => []FutureHeldOnce
  <1>1. ASSUME TypeInv, HoldInv PROVE FutureHeldOnce
    <2> SUFFICES ASSUME NEW q \in Request
                 PROVE  Cardinality(Holders(q)) = IF future[q] = "waiting" THEN 1 ELSE 0
      BY DEF FutureHeldOnce
    <2>1. CASE future[q] = "waiting"
      <3>1. \E h : Holders(q) = {h}
        <4>1. CASE q \in registered
          BY <4>1, <1>1 DEF Holders, HoldInv, NobodyElse
        <4>2. CASE q = resultHeld
          BY <4>2, <1>1 DEF Holders, HoldInv, NobodyElse
        <4>3. CASE q \in supHeld
          BY <4>3, <1>1 DEF Holders, HoldInv, NobodyElse
        <4>4. CASE q \in closeHeld
          BY <4>4, <1>1 DEF Holders, HoldInv, NobodyElse
        <4>5. CASE q \in admHeld
          BY <4>5, <1>1 DEF Holders, HoldInv, NobodyElse
        <4>6. QED
          BY <1>1, <2>1, <4>1, <4>2, <4>3, <4>4, <4>5 DEF HoldInv, HeldIffWaiting
      <3>2. QED
        BY <2>1, <3>1, FS_Singleton
    <2>2. CASE future[q] # "waiting"
      <3>1. Holders(q) = {}
        BY <1>1, <2>2 DEF Holders, HoldInv, HeldIffWaiting
      <3>2. QED
        BY <2>2, <3>1, FS_EmptySet
    <2>3. QED
      BY <2>1, <2>2
  <1>2. TypeInv /\ HoldInv => FutureHeldOnce
    BY <1>1
  <1>3. QED
    BY <1>2, HoldAlways, PTL

-----------------------------------------------------------------------------
(* What the threads are doing to the workers.                              *)

\* The operator FirstOf returns a member: every nonempty set of workers has a
\* least one.
LEMMA FirstOfIsMember ==
    ASSUME NEW W \in SUBSET Worker, W # {}
    PROVE  FirstOf(W) \in W
  <1> DEFINE R == {p \in Nat \X Nat : p[1] < p[2]}
  <1>1. IsWellFoundedOn(R, Nat)
    BY NatLessThanWellFounded DEF OpToRel
  <1>2. W \subseteq Nat
    BY PoolAssumption DEF Worker
  <1> HIDE DEF R
  <1>3. PICK w \in W : \A v \in W : <<v, w>> \notin R
    BY <1>1, <1>2, WFMin
  <1>4. \A v \in W : w <= v
    <2>1. \A v \in W : ~ (v < w)
      BY <1>2, <1>3 DEF R
    <2>2. QED
      BY <1>2, <2>1
  <1>5. QED
    BY <1>4 DEF FirstOf

\* Threads that stop workers of the pool do so after it began to close; the
\* supervisor restarts no worker of a group being loaded; and the
\* administrator disposes of workers outside the pool only.
ClosingKnown ==
    /\ closePc # "idle" => closing
    /\ supPc \in {"kill", "failAll"} => closing

Restarting ==
    supPc \in {"await", "cleanup"} =>
       /\ supWorker \in Worker /\ alive[supWorker] = FALSE /\ proc[supWorker] # "none"
       /\ admPc \in {"load", "boot"} => GroupOf[supWorker] # admGroup

Disposing == admPc = "dispose" => admTodo \cap members = {}

ThreadInv == LaunchInv /\ ClosingKnown /\ Restarting /\ Disposing

LEMMA ThreadStart == Init => ThreadInv
  BY LaunchStart DEF Init, ThreadInv, ClosingKnown, Restarting, Disposing

LEMMA ThreadFrame ==
    ASSUME ThreadInv,
           UNCHANGED <<closing, closePc, supPc, supWorker, alive, admPc, admGroup, admTodo,
                       members>>,
           supWorker \in Worker => (proc'[supWorker] # "none" <=> proc[supWorker] # "none")
    PROVE  ClosingKnown' /\ Restarting' /\ Disposing'
  BY DEF ThreadInv, ClosingKnown, Restarting, Disposing

\* What stopping a process does to the other threads' workers.
LEMMA StopKeepsThreads ==
    ASSUME TypeInv, NEW w, StopProcess(w)
    PROVE  \A v \in Worker : /\ proc'[v] = "none" <=> proc[v] = "none"
                             /\ alive[v] = FALSE => alive'[v] = FALSE
                             /\ v # w => alive'[v] = alive[v]
  BY DEF StopProcess, ProcessGone, ProcessSurvives, ProcessAlive, TypeInv, ProcsTyped,
     WorkersTyped

LEMMA ThreadWork ==
    ASSUME TypeInv, ThreadInv,
           \/ \E q \in Request : Execute(q)
           \/ \E w \in Worker :
                 ProcessReady(w) \/ ProcessTakes(w) \/ ProcessFinishes(w) \/ ProcessDies(w)
           \/ ResultStep
    PROVE  ClosingKnown' /\ Restarting' /\ Disposing'
  <1>1. /\ UNCHANGED <<closing, closePc, supPc, supWorker, alive, admPc, admGroup, admTodo,
                       members>>
    BY DEF Execute, ProcessReady, ProcessTakes, ProcessFinishes, ProcessDies, Others,
           ResultStep, ResultTaken, ResultSet, ResultLoopEnds, workerVars, flagVars, admVars,
           supVars, closeVars
  <1>2. \A w \in Worker : proc'[w] # "none" <=> proc[w] # "none"
    BY DEF Execute, ProcessReady, ProcessTakes, ProcessFinishes, ProcessDies, ProcessAlive,
           ResultStep, ResultTaken, ResultSet, ResultLoopEnds, procVars, TypeInv, ProcsTyped
  <1>3. QED
    BY <1>1, <1>2, ThreadFrame

LEMMA ThreadSupervisor ==
    ASSUME TypeInv, ThreadInv, SupervisorStep
    PROVE  ClosingKnown' /\ Restarting' /\ Disposing'
  <1>1. /\ UNCHANGED <<members, closePc, admPc, admGroup, admTodo>>
        /\ closing' = closing \/ closing' = TRUE
    BY DEF SupervisorStep, SupervisorFindsExit, SupervisorRestarts, SupervisorFails,
       SupervisorDecides, SupervisorKills, SupervisorTakesAll, SupervisorEnds,
       SupervisorSeesReady, SupervisorGivesUp, SupervisorCleansUp, workerVars, flagVars,
       closeVars, admVars
  <1>2. Disposing'
    BY <1>1 DEF ThreadInv, Disposing
  <1>3. ClosingKnown'
    <2>1. supPc' \in {"kill", "failAll"} => closing'
      BY <1>1 DEF ThreadInv, ClosingKnown, SupervisorStep, SupervisorFindsExit,
         SupervisorRestarts, SupervisorFails, SupervisorDecides, SupervisorKills,
         SupervisorTakesAll, SupervisorEnds, SupervisorSeesReady, SupervisorGivesUp,
         SupervisorCleansUp, SupervisorGoTo
    <2>2. QED
      BY <1>1, <2>1 DEF ThreadInv, ClosingKnown
  <1>4. ASSUME NEW w \in Worker, SupervisorRestarts(w) PROVE Restarting'
    <2>1. /\ supWorker' = w /\ w \in members
          /\ alive' = [alive EXCEPT ![w] = FALSE] /\ proc' = [proc EXCEPT ![w] = "starting"]
      BY <1>4 DEF SupervisorRestarts, Supervised, Launch
    <2>2. GroupOf[w] \in groups /\ (admPc \in {"load", "boot"} => admGroup \notin groups)
      BY <2>1 DEF ThreadInv, LaunchInv, MembersInGroups, LoadsNewGroup
    <2>3. QED
      BY <1>1, <2>1, <2>2 DEF Restarting, TypeInv, WorkersTyped, ProcsTyped
  <1>5. ASSUME SupervisorGivesUp PROVE Restarting'
    BY <1>1, <1>5 DEF SupervisorGivesUp, SupervisorGoTo, ThreadInv, Restarting, workerVars,
       procVars
  <1>6. ASSUME \/ \E w \in Worker : SupervisorFindsExit(w)
               \/ SupervisorFails \/ SupervisorDecides \/ SupervisorKills
               \/ SupervisorTakesAll \/ SupervisorEnds \/ SupervisorSeesReady
               \/ SupervisorCleansUp
        PROVE  Restarting'
    <2>1. supPc' \notin {"await", "cleanup"}
      BY <1>6 DEF SupervisorFindsExit, SupervisorFails, SupervisorDecides, SupervisorKills,
         SupervisorTakesAll, SupervisorEnds, SupervisorSeesReady, SupervisorCleansUp,
         SupervisorGoTo
    <2>2. QED
      BY <2>1 DEF Restarting
  <1>7. QED
    BY <1>2, <1>3, <1>4, <1>5, <1>6 DEF SupervisorStep

LEMMA ThreadClose ==
    ASSUME TypeInv, ThreadInv, CloseBegins \/ CloseStep
    PROVE  ClosingKnown' /\ Restarting' /\ Disposing'
  <1>1. /\ UNCHANGED <<members, admPc, admGroup, admTodo, supPc, supWorker>>
        /\ closing => closing'
    BY DEF CloseBegins, CloseStep, CloseSignals, CloseStops, CloseTakesAll, CloseFails,
       workerVars, flagVars, supVars, admVars
  <1>2. closePc' # "idle" => closing'
    BY DEF CloseBegins, CloseStep, CloseSignals, CloseStops, CloseTakesAll, CloseFails,
       flagVars, CloseGoTo, ThreadInv, ClosingKnown
  <1>3. \A v \in Worker : (proc'[v] = "none" <=> proc[v] = "none")
        /\ (alive[v] = FALSE => alive'[v] = FALSE)
    BY StopKeepsThreads DEF CloseBegins, CloseStep, CloseSignals, CloseStops, CloseTakesAll,
       CloseFails, workerVars, procVars
  <1>4. QED
    BY <1>1, <1>2, <1>3 DEF ThreadInv, ClosingKnown, Restarting, Disposing

LEMMA ThreadAdmin ==
    ASSUME TypeInv, ThreadInv, AdminStep \/ (\E g \in Group : UnloadBegins(g) \/ LoadBegins(g))
    PROVE  ClosingKnown' /\ Restarting' /\ Disposing'
  <1>1. UNCHANGED <<closing, closePc, supPc, supWorker>>
    BY DEF AdminStep, UnloadBegins, LoadBegins, AdminDisposes, AdminFails, LoadLaunches,
       LoadEnds, LoadFails, flagVars, supVars, closeVars
  <1>2. ClosingKnown'
    BY <1>1 DEF ThreadInv, ClosingKnown
  <1>3. ASSUME NEW g \in Group, UnloadBegins(g) PROVE Restarting' /\ Disposing'
    <2>1. /\ admPc' = "dispose" /\ admTodo' = MembersOf(g)
          /\ members' = members \ MembersOf(g) /\ proc' = proc
          /\ alive' = [w \in Worker |-> w \notin MembersOf(g) /\ alive[w]]
      BY <1>3 DEF UnloadBegins, procVars
    <2>2. QED
      BY <1>1, <1>2, <2>1 DEF ThreadInv, Restarting, Disposing
  <1>4. ASSUME NEW g \in Group, LoadBegins(g) PROVE Restarting' /\ Disposing'
    <2>1. /\ admPc' = "load" /\ admGroup' = g /\ UNCHANGED <<alive, proc, members>>
          /\ \A w \in MembersOf(g) : proc[w] = "none"
      BY <1>4 DEF LoadBegins, workerVars, procVars
    <2>2. QED
      BY <1>1, <1>2, <2>1 DEF ThreadInv, Restarting, Disposing, MembersOf
  <1>5. CASE LoadLaunches
    <2>1. /\ admPc = "load" /\ admPc' = "boot" /\ UNCHANGED <<alive, members, admGroup>>
          /\ proc' = [w \in Worker |-> IF w \in MembersOf(admGroup) THEN "starting" ELSE proc[w]]
      BY <1>5 DEF LoadLaunches
    <2>2. QED
      BY <1>1, <1>2, <2>1 DEF ThreadInv, Restarting, Disposing
  <1>6. CASE LoadEnds
    <2>1. /\ admPc = "boot" /\ admPc' = "idle" /\ proc' = proc
          /\ alive' = [w \in Worker |-> w \in MembersOf(admGroup) \/ alive[w]]
      BY <1>6 DEF LoadEnds, procVars
    <2>2. supPc \in {"await", "cleanup"} => supWorker \notin MembersOf(admGroup)
      BY <2>1 DEF ThreadInv, Restarting, MembersOf
    <2>3. QED
      BY <1>1, <1>2, <2>1, <2>2 DEF ThreadInv, Restarting, Disposing
  <1>7. CASE LoadFails
    <2>1. /\ admPc = "boot" /\ admPc' = "dispose" /\ UNCHANGED <<proc, alive, members>>
          /\ admTodo' = MembersOf(admGroup)
      BY <1>7 DEF LoadFails, procVars, workerVars
    <2>2. \A w \in MembersOf(admGroup) : w \notin members
      BY <2>1 DEF ThreadInv, LaunchInv, MembersInGroups, LoadsNewGroup, MembersOf
    <2>3. QED
      BY <1>1, <1>2, <2>1, <2>2 DEF ThreadInv, Restarting, Disposing
  <1>8. CASE AdminDisposes
    <2>1. /\ admPc = "dispose" /\ admPc' \in {"dispose", "raised"} /\ members' = members
          /\ admTodo' \subseteq admTodo /\ admGroup' = admGroup
          /\ StopProcess(FirstOf(admTodo)) \/ UNCHANGED <<procVars, alive>>
      BY <1>8 DEF AdminDisposes
    <2>2. \A v \in Worker : (proc'[v] = "none" <=> proc[v] = "none")
          /\ (alive[v] = FALSE => alive'[v] = FALSE)
      BY <2>1, StopKeepsThreads DEF procVars
    <2>3. QED
      BY <1>1, <1>2, <2>1, <2>2 DEF ThreadInv, Restarting, Disposing
  <1>9. CASE AdminFails
    <2>1. /\ admPc = "dispose" /\ admPc' \in {"dispose", "idle"} /\ admTodo' = admTodo
          /\ UNCHANGED <<proc, alive, members, admGroup>>
      BY <1>9 DEF AdminFails, procVars, workerVars
    <2>2. QED
      BY <1>1, <1>2, <2>1 DEF ThreadInv, Restarting, Disposing
  <1>10. QED
    BY <1>2, <1>3, <1>4, <1>5, <1>6, <1>7, <1>8, <1>9 DEF AdminStep

LEMMA ThreadStep ==
    ASSUME TypeInv, ThreadInv, [Next]_vars
    PROVE  ThreadInv'
  <1>1. LaunchInv'
    BY LaunchStep DEF ThreadInv
  <1>2. CASE UNCHANGED vars
    BY <1>1, <1>2, ThreadFrame
       DEF vars, workerVars, procVars, flagVars, supVars, closeVars, admVars, ThreadInv
  <1>3. CASE Next
    BY <1>1, <1>3, ThreadWork, ThreadSupervisor, ThreadClose, ThreadAdmin DEF Next, ThreadInv
  <1>4. QED
    BY <1>2, <1>3

-----------------------------------------------------------------------------
(* What the assignments mean.  A worker that is marked dead owns nothing    *)
(* while the pool is open, so that its next launch makes no assignment      *)
(* stale; a worker outside the pool has no count that could come back.     *)
CurrentAssigned == \A q \in registered : \E w \in members : assigned[q] = <<w, gen[w]>>

CountsExact ==
    /\ IsFiniteSet(registered)
    /\ \A w \in members : outstanding[w] = Cardinality(OwnedBy({w}))

OutsidersIdle == \A w \in Worker \ members : outstanding[w] = 0

DeadOwnNothing ==
    closing \/ \A w \in members : alive[w] = FALSE => OwnedBy({w}) = {}

WorkInv == CurrentAssigned /\ CountsExact /\ OutsidersIdle /\ DeadOwnNothing

LEMMA OwnedOf ==
    \A w : OwnedBy({w}) = {q \in registered : assigned[q] = <<w, gen[w]>>}
  BY DEF OwnedBy

LEMMA OwnedOfNext ==
    \A w : OwnedBy({w})' = {q \in registered' : assigned'[q] = <<w, gen'[w]>>}
  BY DEF OwnedBy

LEMMA WorkStart == Init => WorkInv
  <1> SUFFICES ASSUME Init PROVE WorkInv
    OBVIOUS
  <1>1. \A w : OwnedBy({w}) = {}
    BY DEF Init, OwnedBy
  <1>2. CountsExact
    BY <1>1, FS_EmptySet DEF Init, CountsExact, Initial
  <1>3. CurrentAssigned /\ OutsidersIdle /\ DeadOwnNothing
    BY <1>1 DEF Init, CurrentAssigned, OutsidersIdle, DeadOwnNothing
  <1>4. QED
    BY <1>2, <1>3 DEF WorkInv

\* A step that moves no request and no worker, and clears the alive flag of a
\* worker in the pool only if it was clear or the pool is closing.
LEMMA WorkFrame ==
    ASSUME WorkInv, UNCHANGED <<registered, assigned, gen, members, outstanding>>,
           \/ closing'
           \/ closing' = closing /\ \A w \in members : alive'[w] = FALSE => alive[w] = FALSE
    PROVE  WorkInv'
  <1>1. \A w : OwnedBy({w})' = OwnedBy({w})
    BY OwnedOf, OwnedOfNext
  <1>2. CurrentAssigned' /\ OutsidersIdle'
    BY DEF WorkInv, CurrentAssigned, OutsidersIdle
  <1>3. CountsExact'
    BY <1>1 DEF WorkInv, CountsExact
  <1>4. DeadOwnNothing'
    BY <1>1 DEF WorkInv, DeadOwnNothing
  <1>5. QED
    BY <1>2, <1>3, <1>4 DEF WorkInv

LEMMA WorkExecute ==
    ASSUME TypeInv, HoldInv, WorkInv, NEW q \in Request, Execute(q)
    PROVE  WorkInv'
  <1>1. UNCHANGED <<gen, members, alive, closing>> /\ future[q] = "none"
    BY DEF Execute, flagVars
  <1>2. CASE UNCHANGED <<registered, assigned, outstanding>>
    BY <1>1, <1>2, WorkFrame
  <1>3. ASSUME NEW w \in LiveWorkers,
               registered' = registered \cup {q},
               assigned' = [assigned EXCEPT ![q] = <<w, gen[w]>>],
               outstanding' = [outstanding EXCEPT ![w] = @ + 1]
        PROVE  WorkInv'
    <2>1. w \in members /\ w \in Worker /\ alive[w]
      BY DEF LiveWorkers, TypeInv, WorkersTyped
    <2>2. q \notin registered
      BY <1>1 DEF HoldInv, HeldIffWaiting
    <2>3. assigned'[q] = <<w, gen[w]>> /\ \A r \in registered : assigned'[r] = assigned[r]
      BY <1>3, <2>2 DEF TypeInv, FuturesTyped
    <2>4. OwnedBy({w})' = OwnedBy({w}) \cup {q} /\ q \notin OwnedBy({w})
      <3>1. OwnedBy({w})' = {r \in registered \cup {q} : assigned'[r] = <<w, gen[w]>>}
        BY <1>1, <1>3, OwnedOfNext
      <3>2. OwnedBy({w}) = {r \in registered : assigned[r] = <<w, gen[w]>>}
        BY OwnedOf
      <3>3. QED
        BY <2>2, <2>3, <3>1, <3>2
    <2>5. \A v : v # w => OwnedBy({v})' = OwnedBy({v})
      <3> TAKE v
      <3>1. HAVE v # w
      <3>2. OwnedBy({v})' = {r \in registered \cup {q} : assigned'[r] = <<v, gen[v]>>}
        BY <1>1, <1>3, OwnedOfNext
      <3>3. OwnedBy({v}) = {r \in registered : assigned[r] = <<v, gen[v]>>}
        BY OwnedOf
      <3>4. assigned'[q] # <<v, gen[v]>>
        BY <2>3, <3>1
      <3>5. QED
        BY <2>3, <3>2, <3>3, <3>4
    <2>6. CurrentAssigned'
      BY <1>1, <1>3, <2>1, <2>3 DEF WorkInv, CurrentAssigned
    <2>7. OutsidersIdle'
      BY <1>1, <1>3, <2>1 DEF WorkInv, OutsidersIdle, TypeInv, WorkersTyped
    <2>8. IsFiniteSet(registered') /\ IsFiniteSet(OwnedBy({w}))
      BY <1>3, OwnedOf, FS_AddElement, FS_Subset DEF WorkInv, CountsExact
    <2>9. Cardinality(OwnedBy({w}) \cup {q}) = Cardinality(OwnedBy({w})) + 1
      BY <2>4, <2>8, FS_AddElement
    <2>10. \A v \in members : outstanding'[v] = Cardinality(OwnedBy({v})')
      BY <1>3, <2>4, <2>5, <2>9 DEF WorkInv, CountsExact, TypeInv, WorkersTyped
    <2>11. CountsExact'
      BY <1>1, <2>8, <2>10 DEF CountsExact
    <2>12. DeadOwnNothing'
      BY <1>1, <2>1, <2>5 DEF WorkInv, DeadOwnNothing
    <2>13. QED
      BY <2>6, <2>7, <2>11, <2>12 DEF WorkInv
  <1>4. QED
    BY <1>2, <1>3 DEF Execute

LEMMA WorkMatched ==
    ASSUME TypeInv, HoldInv, WorkInv, NEW q \in Request, NEW a \in Launches, Matched(q, a),
           UNCHANGED <<gen, members, alive, closing>>
    PROVE  WorkInv'
  <1>1. q \in registered
    BY LaunchIsNotNone DEF Matched, HoldInv, AssignedIffRegistered
  <1>2. PICK w \in members : a = <<w, gen[w]>>
    BY <1>1 DEF Matched, WorkInv, CurrentAssigned
  <1>3. /\ registered' = registered \ {q}
        /\ \A r \in registered' : assigned'[r] = assigned[r]
        /\ outstanding' = [v \in Worker |->
              IF v = w /\ outstanding[w] > 0 THEN outstanding[w] - 1 ELSE outstanding[v]]
    BY <1>2 DEF Matched, TypeInv, FuturesTyped
  <1>4. OwnedBy({w})' = OwnedBy({w}) \ {q} /\ q \in OwnedBy({w})
    BY <1>1, <1>2, <1>3, OwnedOf, OwnedOfNext DEF Matched
  <1>5. \A v : v # w => OwnedBy({v})' = OwnedBy({v})
    <2> TAKE v
    <2>1. HAVE v # w
    <2>2. OwnedBy({v})' = {r \in registered \ {q} : assigned'[r] = <<v, gen[v]>>}
      BY <1>3, OwnedOfNext
    <2>3. OwnedBy({v}) = {r \in registered : assigned[r] = <<v, gen[v]>>}
      BY OwnedOf
    <2>4. assigned[q] # <<v, gen[v]>>
      BY <1>2, <2>1 DEF Matched
    <2>5. QED
      BY <1>3, <2>2, <2>3, <2>4
  <1>6. IsFiniteSet(registered') /\ IsFiniteSet(OwnedBy({w}))
    BY <1>3, OwnedOf, FS_Subset DEF WorkInv, CountsExact
  <1>7. /\ Cardinality(OwnedBy({w}) \ {q}) = Cardinality(OwnedBy({w})) - 1
        /\ Cardinality(OwnedBy({w})) \in Nat /\ Cardinality(OwnedBy({w})) # 0
    BY <1>4, <1>6, FS_RemoveElement, FS_CardinalityType, FS_EmptySet
  <1>8. \A v \in members : v \in Worker
    BY DEF TypeInv, WorkersTyped
  <1>9. outstanding[w] = Cardinality(OwnedBy({w}))
    BY DEF WorkInv, CountsExact
  <1>10. outstanding'[w] = Cardinality(OwnedBy({w})')
    <2>1. outstanding'[w] = Cardinality(OwnedBy({w})) - 1
      BY <1>3, <1>7, <1>8, <1>9
    <2>2. QED
      BY <1>4, <1>7, <2>1
  <1>11. \A v \in members : v # w => outstanding'[v] = Cardinality(OwnedBy({v})')
    BY <1>3, <1>5, <1>8 DEF WorkInv, CountsExact
  <1>12. CountsExact'
    BY <1>6, <1>10, <1>11 DEF CountsExact
  <1>13. CurrentAssigned' /\ OutsidersIdle'
    BY <1>3 DEF WorkInv, CurrentAssigned, OutsidersIdle
  <1>14. DeadOwnNothing'
    BY <1>4, <1>5 DEF WorkInv, DeadOwnNothing
  <1>15. QED
    BY <1>12, <1>13, <1>14 DEF WorkInv

\* Requests taken from the workers W, which may leave the pool with them.
LEMMA WorkTake ==
    ASSUME TypeInv, WorkInv, NEW W \in SUBSET Worker,
           registered' = registered \ OwnedBy(W),
           assigned' = [q \in Request |-> IF q \in OwnedBy(W) THEN None ELSE assigned[q]],
           outstanding' = [w \in Worker |-> IF w \in W THEN 0 ELSE outstanding[w]],
           members' = members \/ members' = members \ W,
           UNCHANGED <<gen, closing>>,
           \A w \in members \ W : alive'[w] = alive[w]
    PROVE  WorkInv'
  <1>1. OwnedBy(W) = {q \in registered : \E w \in W : assigned[q] = <<w, gen[w]>>}
    BY DEF OwnedBy
  <1>2. \A q \in registered' : q \in registered /\ assigned'[q] = assigned[q]
    BY DEF TypeInv, FuturesTyped
  <1>3. \A w \in W : OwnedBy({w})' = {}
    <2> TAKE w \in W
    <2>1. OwnedBy({w})' = {q \in registered' : assigned'[q] = <<w, gen[w]>>}
      BY OwnedOfNext
    <2>2. \A q \in registered' : assigned'[q] # <<w, gen[w]>>
      BY <1>1, <1>2
    <2>3. QED
      BY <2>1, <2>2
  <1>4. \A w : w \notin W => OwnedBy({w})' = OwnedBy({w})
    <2> TAKE w
    <2>1. HAVE w \notin W
    <2>2. OwnedBy({w})' = {q \in registered' : assigned[q] = <<w, gen[w]>>}
      BY <1>2, OwnedOfNext
    <2>3. OwnedBy({w}) = {q \in registered : assigned[q] = <<w, gen[w]>>}
      BY OwnedOf
    <2>4. \A q \in OwnedBy({w}) : q \notin OwnedBy(W)
      BY <1>1, <2>1, <2>3
    <2>5. QED
      BY <2>2, <2>3, <2>4
  <1>5. CurrentAssigned'
    <2> SUFFICES ASSUME NEW q \in registered'
                 PROVE  \E w \in members' : assigned'[q] = <<w, gen'[w]>>
      BY DEF CurrentAssigned
    <2>1. PICK w \in members : assigned[q] = <<w, gen[w]>>
      BY <1>2 DEF WorkInv, CurrentAssigned
    <2>2. w \notin W
      BY <1>1, <1>2, <2>1
    <2>3. QED
      BY <1>2, <2>1, <2>2
  <1>6. CountsExact'
    <2>1. IsFiniteSet(registered')
      BY FS_Subset DEF WorkInv, CountsExact
    <2>2. \A w \in members' : outstanding'[w] = Cardinality(OwnedBy({w})')
      BY <1>3, <1>4, FS_EmptySet DEF WorkInv, CountsExact, TypeInv, WorkersTyped
    <2>3. QED
      BY <2>1, <2>2 DEF CountsExact
  <1>7. OutsidersIdle'
    BY DEF WorkInv, OutsidersIdle
  <1>8. DeadOwnNothing'
    BY <1>3, <1>4 DEF WorkInv, DeadOwnNothing
  <1>9. QED
    BY <1>5, <1>6, <1>7, <1>8 DEF WorkInv

LEMMA WorkTakeAll ==
    ASSUME TypeInv, WorkInv, TakeAll, UNCHANGED <<gen, closing, members>>
    PROVE  WorkInv'
  <1>1. registered' = {} /\ \A w : OwnedBy({w})' = {}
    BY OwnedOfNext DEF TakeAll
  <1>2. CurrentAssigned' /\ DeadOwnNothing'
    BY <1>1 DEF CurrentAssigned, DeadOwnNothing
  <1>3. \A w \in members : outstanding'[w] = 0
    BY DEF TakeAll, TypeInv, WorkersTyped
  <1>4. CountsExact'
    BY <1>1, <1>3, FS_EmptySet DEF CountsExact
  <1>5. OutsidersIdle'
    BY DEF TakeAll, WorkInv, OutsidersIdle
  <1>6. QED
    BY <1>2, <1>4, <1>5 DEF WorkInv

\* A relaunch makes no assignment stale: the worker owned nothing.
LEMMA WorkRestarts ==
    ASSUME TypeInv, WorkInv, NEW w \in Worker, SupervisorRestarts(w)
    PROVE  WorkInv'
  <1>1. /\ UNCHANGED <<registered, assigned, members, closing>> /\ ~closing
        /\ w \in members /\ ~alive[w]
        /\ gen' = [gen EXCEPT ![w] = @ + 1]
        /\ alive' = [alive EXCEPT ![w] = FALSE]
        /\ outstanding' = [outstanding EXCEPT ![w] = 0]
    BY DEF SupervisorRestarts, Supervised, Launch, futureVars, flagVars
  <1>2. alive[w] = FALSE
    BY <1>1 DEF TypeInv, WorkersTyped
  <1>3. OwnedBy({w}) = {}
    BY <1>1, <1>2 DEF WorkInv, DeadOwnNothing
  <1>4. \A q \in registered : \E v \in members : v # w /\ assigned[q] = <<v, gen[v]>>
    BY <1>3, OwnedOf DEF WorkInv, CurrentAssigned
  <1>5. \A v \in Worker : v # w => gen'[v] = gen[v]
    BY <1>1 DEF TypeInv, WorkersTyped
  <1>6. CurrentAssigned'
    BY <1>1, <1>4, <1>5 DEF CurrentAssigned, TypeInv, WorkersTyped
  <1>7. OwnedBy({w})' = {}
    <2>1. OwnedBy({w})' = {q \in registered : assigned[q] = <<w, gen'[w]>>}
      BY <1>1, OwnedOfNext
    <2>2. \A q \in registered : assigned[q] # <<w, gen'[w]>>
      BY <1>4
    <2>3. QED
      BY <2>1, <2>2
  <1>8. \A v \in Worker : v # w => OwnedBy({v})' = OwnedBy({v})
    <2> TAKE v \in Worker
    <2>1. HAVE v # w
    <2>2. OwnedBy({v})' = {q \in registered : assigned[q] = <<v, gen[v]>>}
      <3>1. gen'[v] = gen[v] /\ registered' = registered /\ assigned' = assigned
        BY <1>1, <1>5, <2>1
      <3>2. OwnedBy({v})' = {q \in registered' : assigned'[q] = <<v, gen'[v]>>}
        BY OwnedOfNext
      <3>3. QED
        BY <3>1, <3>2
    <2>3. OwnedBy({v}) = {q \in registered : assigned[q] = <<v, gen[v]>>}
      BY OwnedOf
    <2>4. QED
      BY <2>2, <2>3
  <1>9. CountsExact'
    BY <1>1, <1>7, <1>8, FS_EmptySet DEF WorkInv, CountsExact, TypeInv, WorkersTyped
  <1>10. OutsidersIdle'
    BY <1>1 DEF WorkInv, OutsidersIdle, TypeInv, WorkersTyped
  <1>11. DeadOwnNothing'
    BY <1>1, <1>7, <1>8 DEF WorkInv, DeadOwnNothing, TypeInv, WorkersTyped
  <1>12. QED
    BY <1>6, <1>9, <1>10, <1>11 DEF WorkInv

LEMMA WorkSupervisor ==
    ASSUME TypeInv, ThreadInv, WorkInv, SupervisorStep
    PROVE  WorkInv'
  <1>1. ASSUME NEW w \in Worker, SupervisorFindsExit(w) PROVE WorkInv'
    <2>1. /\ registered' = registered \ OwnedBy({w})
          /\ assigned' = [q \in Request |-> IF q \in OwnedBy({w}) THEN None ELSE assigned[q]]
          /\ outstanding' = [v \in Worker |-> IF v \in {w} THEN 0 ELSE outstanding[v]]
          /\ UNCHANGED <<members, gen, closing>>
          /\ alive' = [alive EXCEPT ![w] = FALSE]
      BY <1>1 DEF SupervisorFindsExit, Take, flagVars
    <2>2. \A v \in members \ {w} : alive'[v] = alive[v]
      BY <2>1 DEF TypeInv, WorkersTyped
    <2>3. QED
      BY <2>1, <2>2, WorkTake
  <1>2. CASE SupervisorTakesAll
    BY <1>2, WorkTakeAll DEF SupervisorTakesAll, flagVars
  <1>3. CASE SupervisorFails \/ SupervisorDecides \/ SupervisorEnds \/ SupervisorGivesUp
    <2>1. /\ UNCHANGED <<registered, assigned, gen, members, outstanding, alive>>
          /\ closing' = closing \/ closing' = TRUE
      BY <1>3 DEF SupervisorFails, FailOne, SupervisorDecides, SupervisorEnds,
         SupervisorGivesUp, futureVars, workerVars, flagVars
    <2>2. QED
      BY <2>1, WorkFrame
  <1>4. CASE SupervisorKills
    <2>1. closing' /\ UNCHANGED <<registered, assigned, gen, members, outstanding>>
      BY <1>4 DEF SupervisorKills, ThreadInv, ClosingKnown, futureVars, flagVars
    <2>2. QED
      BY <2>1, WorkFrame
  <1>5. CASE SupervisorSeesReady
    <2>1. /\ UNCHANGED <<registered, assigned, gen, members, outstanding, closing>>
          /\ \A w \in members : alive'[w] = FALSE => alive[w] = FALSE
      BY <1>5 DEF SupervisorSeesReady, futureVars, flagVars, TypeInv, WorkersTyped
    <2>2. QED
      BY <2>1, WorkFrame
  <1>6. CASE SupervisorCleansUp
    <2>1. /\ UNCHANGED <<registered, assigned, gen, members, outstanding, closing>>
          /\ StopProcess(supWorker) \/ UNCHANGED alive
          /\ alive[supWorker] = FALSE
      BY <1>6 DEF SupervisorCleansUp, futureVars, flagVars, ThreadInv, Restarting
    <2>2. \A w \in members : alive'[w] = FALSE => alive[w] = FALSE
      <3>1. CASE StopProcess(supWorker)
        <4>1. \A w \in Worker : w # supWorker => alive'[w] = alive[w]
          BY <3>1, StopKeepsThreads
        <4>2. QED
          BY <2>1, <4>1 DEF TypeInv, WorkersTyped
      <3>2. CASE UNCHANGED alive
        BY <3>2
      <3>3. QED
        BY <2>1, <3>1, <3>2
    <2>3. QED
      BY <2>1, <2>2, WorkFrame
  <1>7. QED
    BY <1>1, <1>2, <1>3, <1>4, <1>5, <1>6, WorkRestarts DEF SupervisorStep

LEMMA WorkClose ==
    ASSUME TypeInv, ThreadInv, WorkInv, CloseBegins \/ CloseStep
    PROVE  WorkInv'
  <1>1. CASE CloseTakesAll
    BY <1>1, WorkTakeAll DEF CloseTakesAll, flagVars
  <1>2. CASE CloseBegins \/ CloseSignals \/ CloseStops \/ CloseFails
    <2>1. UNCHANGED <<registered, assigned, gen, members, outstanding>>
      BY <1>2 DEF CloseBegins, CloseSignals, CloseStops, CloseFails, FailOne, futureVars,
         workerVars
    <2>2. closing'
      BY <1>2 DEF CloseBegins, CloseSignals, CloseStops, CloseFails, ThreadInv, ClosingKnown,
         flagVars
    <2>3. QED
      BY <2>1, <2>2, WorkFrame
  <1>3. QED
    BY <1>1, <1>2 DEF CloseStep

LEMMA WorkLoad ==
    ASSUME TypeInv, ThreadInv, WorkInv, LoadLaunches \/ LoadEnds
    PROVE  WorkInv'
  <1>1. \A w \in members : w \in Worker /\ w \notin MembersOf(admGroup)
    BY DEF LoadLaunches, LoadEnds, ThreadInv, LaunchInv, MembersInGroups, LoadsNewGroup,
       MembersOf
  <1>2. UNCHANGED <<registered, assigned, outstanding, closing>>
    BY DEF LoadLaunches, LoadEnds, futureVars, flagVars
  <1>3. CASE LoadLaunches
    <2>1. /\ gen' = [w \in Worker |-> IF w \in MembersOf(admGroup) THEN 1 ELSE gen[w]]
          /\ UNCHANGED <<members, alive>>
      BY <1>3 DEF LoadLaunches
    <2>2. \A w \in members : gen'[w] = gen[w]
      BY <1>1, <2>1
    <2>3. CurrentAssigned'
      BY <1>2, <2>1, <2>2 DEF WorkInv, CurrentAssigned
    <2>4. \A w \in members : OwnedBy({w})' = OwnedBy({w})
      <3> TAKE w \in members
      <3>1. OwnedBy({w})' = {q \in registered : assigned[q] = <<w, gen[w]>>}
        BY <1>2, <2>2, OwnedOfNext
      <3>2. QED
        BY <3>1, OwnedOf
    <2>5. CountsExact' /\ OutsidersIdle' /\ DeadOwnNothing'
      BY <1>2, <2>1, <2>4 DEF WorkInv, CountsExact, OutsidersIdle, DeadOwnNothing
    <2>6. QED
      BY <2>3, <2>5 DEF WorkInv
  <1>4. CASE LoadEnds
    <2>1. /\ gen' = gen /\ members' = members \cup MembersOf(admGroup)
          /\ alive' = [w \in Worker |-> w \in MembersOf(admGroup) \/ alive[w]]
      BY <1>4 DEF LoadEnds
    <2>2. \A w : OwnedBy({w})' = OwnedBy({w})
      BY <1>2, <2>1, OwnedOf, OwnedOfNext
    <2>3. \A w \in MembersOf(admGroup) : OwnedBy({w}) = {} /\ outstanding[w] = 0
      <3>1. \A w \in MembersOf(admGroup) : w \in Worker \ members
        BY <1>1 DEF MembersOf
      <3>2. \A w \in MembersOf(admGroup) :
               \A q \in registered : assigned[q] # <<w, gen[w]>>
        BY <3>1 DEF WorkInv, CurrentAssigned
      <3>3. \A w \in MembersOf(admGroup) :
               OwnedBy({w}) = {q \in registered : assigned[q] = <<w, gen[w]>>}
        BY OwnedOf
      <3>4. \A w \in MembersOf(admGroup) : OwnedBy({w}) = {}
        BY <3>2, <3>3
      <3>5. QED
        BY <3>1, <3>4 DEF WorkInv, OutsidersIdle
    <2>4. CurrentAssigned' /\ OutsidersIdle'
      BY <1>2, <2>1 DEF WorkInv, CurrentAssigned, OutsidersIdle
    <2>5. CountsExact'
      BY <1>2, <2>1, <2>2, <2>3, FS_EmptySet DEF WorkInv, CountsExact
    <2>6. DeadOwnNothing'
      BY <1>1, <1>2, <2>1, <2>2, <2>3
         DEF WorkInv, DeadOwnNothing, TypeInv, WorkersTyped
    <2>7. QED
      BY <2>4, <2>5, <2>6 DEF WorkInv
  <1>5. QED
    BY <1>3, <1>4

LEMMA WorkAdmin ==
    ASSUME TypeInv, ThreadInv, WorkInv,
           AdminStep \/ (\E g \in Group : UnloadBegins(g) \/ LoadBegins(g))
    PROVE  WorkInv'
  <1>1. ASSUME NEW g \in Group, UnloadBegins(g) PROVE WorkInv'
    <2> DEFINE W == MembersOf(g)
    <2>1. W \in SUBSET Worker
      BY DEF MembersOf
    <2>2. /\ registered' = registered \ OwnedBy(W)
          /\ assigned' = [q \in Request |-> IF q \in OwnedBy(W) THEN None ELSE assigned[q]]
          /\ outstanding' = [w \in Worker |-> IF w \in W THEN 0 ELSE outstanding[w]]
          /\ members' = members \ W /\ UNCHANGED <<gen, closing>>
      BY <1>1 DEF UnloadBegins, Take, flagVars
    <2>3. \A w \in members \ W : alive'[w] = alive[w]
      BY <1>1 DEF UnloadBegins, TypeInv, WorkersTyped
    <2> HIDE DEF W
    <2>4. QED
      BY <2>1, <2>2, <2>3, WorkTake
  <1>2. CASE AdminDisposes
    <2>1. /\ UNCHANGED <<registered, assigned, gen, members, outstanding, closing>>
          /\ StopProcess(FirstOf(admTodo)) \/ UNCHANGED alive
      BY <1>2 DEF AdminDisposes, futureVars, flagVars
    <2>2. FirstOf(admTodo) \notin members
      BY <1>2, FirstOfIsMember DEF AdminDisposes, ThreadInv, Disposing, TypeInv, AdminTyped
    <2>3. \A w \in members : alive'[w] = alive[w]
      BY <2>1, <2>2, StopKeepsThreads DEF TypeInv, WorkersTyped
    <2>4. QED
      BY <2>1, <2>3, WorkFrame
  <1>3. CASE AdminFails \/ LoadFails \/ \E g \in Group : LoadBegins(g)
    <2>1. UNCHANGED <<registered, assigned, gen, members, outstanding, closing, alive>>
      BY <1>3 DEF AdminFails, FailOne, LoadFails, LoadBegins, futureVars, workerVars, flagVars
    <2>2. QED
      BY <2>1, WorkFrame
  <1>4. QED
    BY <1>1, <1>2, <1>3, WorkLoad DEF AdminStep

LEMMA WorkStep ==
    ASSUME TypeInv, HoldInv, ThreadInv, WorkInv, [Next]_vars
    PROVE  WorkInv'
  <1>1. CASE UNCHANGED vars
    BY <1>1, WorkFrame DEF vars, futureVars, workerVars, flagVars
  <1>2. ASSUME NEW w \in Worker,
               ProcessReady(w) \/ ProcessTakes(w) \/ ProcessFinishes(w) \/ ProcessDies(w)
        PROVE  WorkInv'
    <2>1. Others
      BY <1>2 DEF ProcessReady, ProcessTakes, ProcessFinishes, ProcessDies
    <2>2. QED
      BY <2>1, WorkFrame DEF Others, futureVars, workerVars, flagVars
  <1>3. CASE ResultStep
    <2>1. UNCHANGED <<gen, members, alive, closing>>
      BY <1>3 DEF ResultStep, ResultTaken, ResultSet, ResultLoopEnds, workerVars, flagVars
    <2>2. CASE ResultTaken
      <3>1. PICK q \in Request, a \in Launches : Matched(q, a) \/ Dropped(q, a)
        BY <2>2, ResultTakenEffect
      <3>2. CASE Matched(q, a)
        BY <2>1, <3>2, WorkMatched
      <3>3. CASE Dropped(q, a)
        BY <2>1, <3>3, WorkFrame DEF Dropped
      <3>4. QED
        BY <3>1, <3>2, <3>3
    <2>3. CASE ResultSet \/ ResultLoopEnds
      BY <2>1, <2>3, WorkFrame DEF ResultSet, ResultLoopEnds, workerVars, futureVars
    <2>4. QED
      BY <1>3, <2>2, <2>3 DEF ResultStep
  <1>4. CASE Next
    BY <1>2, <1>3, <1>4, WorkExecute, WorkSupervisor, WorkClose, WorkAdmin DEF Next
  <1>5. QED
    BY <1>1, <1>4

PoolInv == TypeInv /\ HoldInv /\ ThreadInv /\ WorkInv

LEMMA PoolAlways == Spec => []PoolInv
  <1>1. Init => PoolInv
    BY TypeStart, HoldStart, ThreadStart, WorkStart DEF PoolInv
  <1>2. PoolInv /\ [Next]_vars => PoolInv'
    BY TypeStep, HoldStep, ThreadStep, WorkStep DEF PoolInv
  <1>3. QED
    BY <1>1, <1>2, PTL DEF Spec

\* What execute balances on and what a result is matched against is never
\* stale: a registered request belongs to the present launch of a worker in
\* the pool, and each worker's counter is the number of its requests.
THEOREM AssignmentsAreCurrent == Spec => []AssignmentsCurrent
  <1>1. PoolInv => AssignmentsCurrent
    BY DEF PoolInv, WorkInv, CurrentAssigned, CountsExact, AssignmentsCurrent
  <1>2. QED
    BY <1>1, PoolAlways, PTL

-----------------------------------------------------------------------------
(* Requests inside a healthy worker.                                       *)
AliveProc == {"starting", "running", "survived"}

Reachable ==
    \A q \in registered, w \in Worker :
        assigned[q][1] = w /\ proc[w] \in AliveProc =>
           q \in inbox[w] \/ q = current[w] \/ <<q, assigned[q]>> \in results

LEMMA ReachableMeans == PoolInv /\ Reachable => RequestReachable
  <1> SUFFICES ASSUME PoolInv, Reachable, NEW q \in registered,
                      ProcessAlive(assigned[q][1])
               PROVE  \/ q \in inbox[assigned[q][1]] \cup {current[assigned[q][1]]}
                      \/ <<q, assigned[q]>> \in results
    BY DEF RequestReachable
  <1>1. assigned[q][1] \in Worker
    BY DEF PoolInv, TypeInv, WorkersTyped, WorkInv, CurrentAssigned
  <1>2. QED
    BY <1>1 DEF Reachable, ProcessAlive, AliveProc

\* A step that assigns nothing and revives no process: a process that is alive
\* after it has what it had.
LEMMA ReachFrame ==
    ASSUME Reachable,
           registered' \subseteq registered,
           \A q \in registered' : assigned'[q] = assigned[q],
           results' = results,
           \A w \in Worker : proc'[w] \in AliveProc =>
              proc[w] \in AliveProc /\ inbox'[w] = inbox[w] /\ current'[w] = current[w]
    PROVE  Reachable'
  BY DEF Reachable

\* A stopped process is gone or, if it survives, has what it had, like the others.
LEMMA StopKeepsOthers ==
    ASSUME TypeInv, NEW v, StopProcess(v)
    PROVE  \A w \in Worker : proc'[w] \in AliveProc =>
              proc[w] \in AliveProc /\ inbox'[w] = inbox[w] /\ current'[w] = current[w]
  <1>1. CASE ProcessGone(v)
    BY <1>1 DEF ProcessGone, TypeInv, ProcsTyped, AliveProc
  <1>2. CASE ProcessSurvives(v)
    BY <1>2 DEF ProcessSurvives, ProcessAlive, TypeInv, ProcsTyped, AliveProc
  <1>3. QED
    BY <1>1, <1>2 DEF StopProcess

LEMMA ReachExecute ==
    ASSUME PoolInv, Reachable, NEW q \in Request, Execute(q)
    PROVE  Reachable'
  <1>1. UNCHANGED <<proc, current, results>> /\ future[q] = "none"
    BY DEF Execute, resultVars
  <1>2. CASE UNCHANGED <<registered, assigned, inbox>>
    BY <1>1, <1>2, ReachFrame
  <1>3. ASSUME NEW w \in LiveWorkers,
               registered' = registered \cup {q},
               assigned' = [assigned EXCEPT ![q] = <<w, gen[w]>>],
               inbox' = [inbox EXCEPT ![w] = @ \cup {q}]
        PROVE  Reachable'
    <2>1. w \in Worker
      BY DEF LiveWorkers, PoolInv, TypeInv, WorkersTyped
    <2>2. assigned'[q] = <<w, gen[w]>> /\ \A r \in Request : r # q => assigned'[r] = assigned[r]
      BY <1>3 DEF PoolInv, TypeInv, FuturesTyped
    <2>3. q \in inbox'[w] /\ \A v \in Worker : inbox[v] \subseteq inbox'[v]
      BY <1>3, <2>1 DEF PoolInv, TypeInv, ProcsTyped
    <2> SUFFICES ASSUME NEW r \in registered', NEW v \in Worker, assigned'[r][1] = v,
                        proc'[v] \in AliveProc
                 PROVE  \/ r \in inbox'[v] \/ r = current'[v]
                        \/ <<r, assigned'[r]>> \in results'
      BY DEF Reachable
    <2>4. CASE r = q
      BY <2>2, <2>3, <2>4
    <2>5. CASE r # q
      <3>1. r \in registered /\ assigned'[r] = assigned[r]
        BY <1>3, <2>2, <2>5 DEF PoolInv, TypeInv, FuturesTyped
      <3>2. QED
        BY <1>1, <2>3, <3>1 DEF Reachable
    <2>6. QED
      BY <2>4, <2>5
  <1>4. QED
    BY <1>2, <1>3 DEF Execute

LEMMA ReachProcess ==
    ASSUME PoolInv, Reachable, NEW w \in Worker,
           ProcessReady(w) \/ ProcessTakes(w) \/ ProcessFinishes(w) \/ ProcessDies(w)
    PROVE  Reachable'
  <1>1. UNCHANGED <<registered, assigned, gen>>
    BY DEF ProcessReady, ProcessTakes, ProcessFinishes, ProcessDies, Others, futureVars,
       workerVars
  <1>2. CASE ProcessReady(w)
    <2>1. UNCHANGED <<inbox, current, results>> /\ proc[w] \in AliveProc
      BY <1>2 DEF ProcessReady, ProcessAlive, resultVars, AliveProc
    <2>2. \A v \in Worker : v # w => proc'[v] = proc[v]
      BY <1>2 DEF ProcessReady, PoolInv, TypeInv, ProcsTyped
    <2>3. QED
      BY <1>1, <2>1, <2>2, ReachFrame
  <1>3. CASE ProcessDies(w)
    <2>1. /\ results' = results /\ proc' = [proc EXCEPT ![w] = "exited"]
          /\ inbox' = [inbox EXCEPT ![w] = {}] /\ current' = [current EXCEPT ![w] = None]
      BY <1>3 DEF ProcessDies, resultVars
    <2>2. \A v \in Worker : proc'[v] \in AliveProc => v # w
      BY <2>1 DEF AliveProc, PoolInv, TypeInv, ProcsTyped
    <2>3. QED
      BY <1>1, <2>1, <2>2, ReachFrame DEF PoolInv, TypeInv, ProcsTyped
  <1>4. CASE ProcessTakes(w) \/ ProcessFinishes(w)
    <2>1. proc' = proc
      BY <1>4 DEF ProcessTakes, ProcessFinishes
    <2> SUFFICES ASSUME NEW q \in registered, NEW v \in Worker, assigned[q][1] = v,
                        proc[v] \in AliveProc
                 PROVE  \/ q \in inbox'[v] \/ q = current'[v]
                        \/ <<q, assigned[q]>> \in results'
      BY <1>1, <2>1 DEF Reachable
    <2>2. assigned[q] = <<v, gen[v]>>
      BY DEF PoolInv, WorkInv, CurrentAssigned
    <2>3. q \in inbox[v] \/ q = current[v] \/ <<q, assigned[q]>> \in results
      BY DEF Reachable
    <2>4. CASE ProcessTakes(w)
      <3>1. PICK r \in inbox[w] : /\ current' = [current EXCEPT ![w] = r]
                                  /\ inbox' = [inbox EXCEPT ![w] = @ \ {r}]
        BY <2>4 DEF ProcessTakes
      <3>2. current[w] = None /\ results' = results
        BY <2>4 DEF ProcessTakes, resultVars
      <3>3. q # None
        BY PoolAssumption DEF PoolInv, TypeInv, FuturesTyped
      <3>4. QED
        BY <2>3, <3>1, <3>2, <3>3 DEF PoolInv, TypeInv, ProcsTyped
    <2>5. CASE ProcessFinishes(w)
      <3>1. /\ current' = [current EXCEPT ![w] = None] /\ inbox' = inbox
            /\ results' = results \cup {<<current[w], <<w, gen[w]>>>>}
        BY <2>5 DEF ProcessFinishes
      <3>2. v # w => current'[v] = current[v]
        BY <3>1 DEF PoolInv, TypeInv, ProcsTyped
      <3>3. QED
        BY <2>2, <2>3, <3>1, <3>2
    <2>6. QED
      BY <1>4, <2>4, <2>5
  <1>5. QED
    BY <1>2, <1>3, <1>4

LEMMA ReachResult ==
    ASSUME PoolInv, Reachable, ResultStep
    PROVE  Reachable'
  <1>1. UNCHANGED <<proc, inbox, current>>
    BY DEF ResultStep, ResultTaken, ResultSet, ResultLoopEnds, procVars
  <1>2. CASE ResultTaken
    <2>1. PICK q \in Request, a \in Launches : Matched(q, a) \/ Dropped(q, a)
      BY <1>2, ResultTakenEffect DEF PoolInv
    <2>2. /\ registered' \subseteq registered
          /\ \A r \in registered' : assigned'[r] = assigned[r]
          /\ results' = results \ {<<q, a>>}
          /\ q \in registered' => assigned[q] # a
      BY <2>1 DEF Matched, Dropped, PoolInv, TypeInv, FuturesTyped
    <2> SUFFICES ASSUME NEW r \in registered', NEW v \in Worker, assigned'[r][1] = v,
                        proc'[v] \in AliveProc
                 PROVE  \/ r \in inbox'[v] \/ r = current'[v]
                        \/ <<r, assigned'[r]>> \in results'
      BY DEF Reachable
    <2>3. r \in registered /\ assigned'[r] = assigned[r]
      BY <2>2
    <2>4. <<r, assigned[r]>> # <<q, a>>
      BY <2>2
    <2>5. r \in inbox[v] \/ r = current[v] \/ <<r, assigned[r]>> \in results
      BY <1>1, <2>3 DEF Reachable
    <2>6. QED
      BY <1>1, <2>2, <2>3, <2>4, <2>5
  <1>3. CASE ResultSet \/ ResultLoopEnds
    <2>1. UNCHANGED <<registered, assigned, results>>
      BY <1>3 DEF ResultSet, ResultLoopEnds, futureVars
    <2>2. QED
      BY <1>1, <2>1, ReachFrame
  <1>4. QED
    BY <1>2, <1>3 DEF ResultStep

\* Taking requests from the table leaves the others as they were.
LEMMA TakeKeepsOthers ==
    ASSUME TypeInv, NEW W, Take(W) \/ TakeAll
    PROVE  /\ registered' \subseteq registered
           /\ \A q \in registered' : assigned'[q] = assigned[q]
  <1>1. CASE Take(W)
    <2>1. /\ registered' = registered \ OwnedBy(W)
          /\ assigned' = [q \in Request |-> IF q \in OwnedBy(W) THEN None ELSE assigned[q]]
      BY <1>1 DEF Take
    <2>2. QED
      BY <2>1 DEF TypeInv, FuturesTyped
  <1>2. CASE TakeAll
    BY <1>2 DEF TakeAll
  <1>3. QED
    BY <1>1, <1>2

\* A worker is relaunched with an empty queue, but then it owns no request.
LEMMA ReachRestarts ==
    ASSUME PoolInv, Reachable, NEW w \in Worker, SupervisorRestarts(w)
    PROVE  Reachable'
  <1>1. /\ UNCHANGED <<registered, assigned, results>> /\ ~closing
        /\ w \in members /\ ~alive[w]
        /\ proc' = [proc EXCEPT ![w] = "starting"]
        /\ inbox' = [inbox EXCEPT ![w] = {}]
        /\ current' = [current EXCEPT ![w] = None]
    BY DEF SupervisorRestarts, Supervised, Launch, futureVars, resultVars
  <1>2. alive[w] = FALSE
    BY <1>1 DEF PoolInv, TypeInv, WorkersTyped
  <1>3. OwnedBy({w}) = {}
    BY <1>1, <1>2 DEF PoolInv, WorkInv, DeadOwnNothing
  <1>4. ASSUME NEW q \in registered PROVE assigned[q][1] # w
    <2>1. PICK v \in members : assigned[q] = <<v, gen[v]>>
      BY DEF PoolInv, WorkInv, CurrentAssigned
    <2>2. OwnedBy({w}) = {r \in registered : assigned[r] = <<w, gen[w]>>}
      BY OwnedOf
    <2>3. v # w
      BY <1>3, <2>1, <2>2
    <2>4. QED
      BY <2>1, <2>3
  <1>5. \A v \in Worker : v # w =>
           proc'[v] = proc[v] /\ inbox'[v] = inbox[v] /\ current'[v] = current[v]
    BY <1>1 DEF PoolInv, TypeInv, ProcsTyped
  <1>6. QED
    BY <1>1, <1>4, <1>5 DEF Reachable

LEMMA ReachThreads ==
    ASSUME PoolInv, Reachable, SupervisorStep \/ CloseBegins \/ CloseStep
    PROVE  Reachable'
  <1>1. ASSUME \/ \E w \in Worker : SupervisorFindsExit(w)
               \/ SupervisorTakesAll \/ CloseTakesAll
        PROVE  Reachable'
    <2>1. (\E w \in Worker : Take({w})) \/ TakeAll
      BY <1>1 DEF SupervisorFindsExit, SupervisorTakesAll, CloseTakesAll
    <2>2. UNCHANGED <<proc, inbox, current, results>>
      BY <1>1 DEF SupervisorFindsExit, SupervisorTakesAll, CloseTakesAll, procVars, resultVars
    <2>3. QED
      BY <2>1, <2>2, TakeKeepsOthers, ReachFrame DEF PoolInv
  <1>2. ASSUME \/ SupervisorFails \/ SupervisorDecides \/ SupervisorEnds
               \/ SupervisorSeesReady \/ SupervisorGivesUp
               \/ CloseBegins \/ CloseSignals \/ CloseFails
        PROVE  Reachable'
    <2>1. UNCHANGED <<registered, assigned, results, proc, inbox, current>>
      BY <1>2 DEF SupervisorFails, SupervisorDecides, SupervisorEnds, SupervisorSeesReady,
         SupervisorGivesUp, CloseBegins, CloseSignals, CloseFails, FailOne, futureVars,
         resultVars, procVars
    <2>2. QED
      BY <2>1, ReachFrame
  <1>3. ASSUME SupervisorKills \/ SupervisorCleansUp \/ CloseStops
        PROVE  Reachable'
    <2>1. /\ UNCHANGED <<registered, assigned, results>>
          /\ (\E w : StopProcess(w)) \/ UNCHANGED procVars
      BY <1>3 DEF SupervisorKills, SupervisorCleansUp, CloseStops, futureVars, resultVars
    <2>2. QED
      BY <2>1, StopKeepsOthers, ReachFrame DEF PoolInv, procVars
  <1>4. QED
    BY <1>1, <1>2, <1>3, ReachRestarts DEF SupervisorStep, CloseStep

LEMMA ReachAdmin ==
    ASSUME PoolInv, Reachable,
           AdminStep \/ (\E g \in Group : UnloadBegins(g) \/ LoadBegins(g))
    PROVE  Reachable'
  <1>1. ASSUME NEW g \in Group, UnloadBegins(g) PROVE Reachable'
    <2>1. Take(MembersOf(g)) /\ UNCHANGED <<proc, inbox, current, results>>
      BY <1>1 DEF UnloadBegins, procVars, resultVars
    <2>2. QED
      BY <2>1, TakeKeepsOthers, ReachFrame DEF PoolInv
  <1>2. CASE AdminDisposes
    <2>1. /\ UNCHANGED <<registered, assigned, results>>
          /\ (\E w : StopProcess(w)) \/ UNCHANGED procVars
      BY <1>2 DEF AdminDisposes, futureVars, resultVars
    <2>2. QED
      BY <2>1, StopKeepsOthers, ReachFrame DEF PoolInv, procVars
  <1>3. ASSUME AdminFails \/ LoadEnds \/ LoadFails \/ \E g \in Group : LoadBegins(g)
        PROVE  Reachable'
    <2>1. UNCHANGED <<registered, assigned, results, proc, inbox, current>>
      BY <1>3 DEF AdminFails, LoadEnds, LoadFails, LoadBegins, FailOne, futureVars,
         resultVars, procVars
    <2>2. QED
      BY <2>1, ReachFrame
  <1>4. CASE LoadLaunches
    <2>1. /\ UNCHANGED <<registered, assigned, results, inbox, current>>
          /\ proc' = [w \in Worker |->
                IF w \in MembersOf(admGroup) THEN "starting" ELSE proc[w]]
      BY <1>4 DEF LoadLaunches, futureVars, resultVars
    <2>2. \A w \in members : w \notin MembersOf(admGroup)
      BY <1>4 DEF LoadLaunches, PoolInv, ThreadInv, LaunchInv, MembersInGroups, LoadsNewGroup,
         MembersOf
    <2>3. \A q \in registered : assigned[q][1] \notin MembersOf(admGroup)
      BY <2>2 DEF PoolInv, WorkInv, CurrentAssigned
    <2>4. QED
      BY <2>1, <2>3 DEF Reachable
  <1>5. QED
    BY <1>1, <1>2, <1>3, <1>4 DEF AdminStep

LEMMA ReachAlways == Spec => [](PoolInv /\ Reachable)
  <1>1. Init => Reachable
    BY DEF Init, Reachable
  <1>2. PoolInv /\ Reachable /\ [Next]_vars => Reachable'
    <2> SUFFICES ASSUME PoolInv, Reachable, [Next]_vars PROVE Reachable'
      OBVIOUS
    <2>1. CASE UNCHANGED vars
      BY <2>1 DEF vars, futureVars, procVars, resultVars, Reachable
    <2>2. CASE Next
      BY <2>2, ReachExecute, ReachProcess, ReachResult, ReachThreads, ReachAdmin DEF Next
    <2>3. QED
      BY <2>1, <2>2
  <1>3. QED
    BY <1>1, <1>2, PoolAlways, PTL DEF Spec

\* A registered request whose process lives is in its queue, in its handler or
\* among the results: no step of any thread loses it inside a healthy worker.
THEOREM NoRequestLostInWorker == Spec => []RequestReachable
  BY ReachableMeans, ReachAlways, PTL

-----------------------------------------------------------------------------
(* What close leaves.  It stops the workers of the pool one after another,  *)
(* and none is launched meanwhile.  A process outside the pool is one that  *)
(* the administrator is booting or has still to dispose of.                *)
UnstoppedProc == {"starting", "running"}

StoppedSoFar ==
    /\ closePc = "stop" => \A w \in members \ closeTodo : proc[w] \notin UnstoppedProc
    /\ closePc \in {"join", "failAll", "done"} => \A w \in members : proc[w] \notin UnstoppedProc
    /\ closePc \in {"failAll", "done"} => registered = {}

NoStrays ==
    \A w \in Worker \ members : proc[w] \in UnstoppedProc =>
       \/ admPc = "boot" /\ w \in MembersOf(admGroup)
       \/ admPc \in {"dispose", "raised"} /\ w \in admTodo

CloseInv == StoppedSoFar /\ NoStrays

LEMMA CloseMeans == CloseInv => CloseLeavesNothing
  BY DEF CloseInv, StoppedSoFar, NoStrays, CloseLeavesNothing, Unstopped, AboutToStop,
     Abandoned, UnstoppedProc

LEMMA CloseInvStart == Init => CloseInv
  BY DEF Init, CloseInv, StoppedSoFar, NoStrays, UnstoppedProc

\* A step of neither close nor the administrator that revives no process.
LEMMA CloseFrame ==
    ASSUME PoolInv, CloseInv,
           UNCHANGED <<members, closePc, closeTodo, admPc, admGroup, admTodo>>,
           registered' \subseteq registered,
           \A w \in Worker : proc'[w] \in UnstoppedProc => proc[w] \in UnstoppedProc
    PROVE  CloseInv'
  <1>1. \A w \in members : w \in Worker
    BY DEF PoolInv, TypeInv, WorkersTyped
  <1>2. MembersOf(admGroup)' = MembersOf(admGroup)
    BY DEF MembersOf
  <1>3. QED
    BY <1>1, <1>2 DEF CloseInv, StoppedSoFar, NoStrays

\* A step that stops a process, or does not touch them, starts none.
LEMMA StopRevivesNone ==
    ASSUME TypeInv, (\E v : StopProcess(v)) \/ UNCHANGED procVars
    PROVE  \A w \in Worker : proc'[w] \in UnstoppedProc => proc[w] \in UnstoppedProc
  BY DEF procVars, StopProcess, ProcessGone, ProcessSurvives, TypeInv, ProcsTyped,
     UnstoppedProc

LEMMA CloseWork ==
    ASSUME PoolInv, CloseInv,
           \/ \E q \in Request : Execute(q)
           \/ \E w \in Worker :
                 ProcessReady(w) \/ ProcessTakes(w) \/ ProcessFinishes(w) \/ ProcessDies(w)
           \/ ResultStep
    PROVE  CloseInv'
  <1>1. UNCHANGED <<members, closePc, closeTodo, admPc, admGroup, admTodo>>
    BY DEF Execute, ProcessReady, ProcessTakes, ProcessFinishes, ProcessDies, Others,
       ResultStep, ResultTaken, ResultSet, ResultLoopEnds, workerVars, admVars, closeVars
  <1>2. \A w \in Worker : proc'[w] \in UnstoppedProc => proc[w] \in UnstoppedProc
    BY DEF Execute, ProcessReady, ProcessTakes, ProcessFinishes, ProcessDies, ProcessAlive,
       ResultStep, ResultTaken, ResultSet, ResultLoopEnds, procVars, PoolInv, TypeInv,
       ProcsTyped, UnstoppedProc
  <1>3. ASSUME NEW q \in Request, Execute(q) PROVE CloseInv'
    <2>1. closePc # "idle" => registered' = registered
      BY <1>3 DEF Execute, PoolInv, ThreadInv, ClosingKnown, LaunchInv, ClosingRefuses
    <2>2. StoppedSoFar'
      BY <1>1, <1>2, <2>1 DEF CloseInv, StoppedSoFar, PoolInv, TypeInv, WorkersTyped
    <2>3. MembersOf(admGroup)' = MembersOf(admGroup)
      BY <1>1 DEF MembersOf
    <2>4. NoStrays'
      BY <1>1, <1>2, <2>3 DEF CloseInv, NoStrays
    <2>5. QED
      BY <2>2, <2>4 DEF CloseInv
  <1>4. CASE \E w \in Worker :
                ProcessReady(w) \/ ProcessTakes(w) \/ ProcessFinishes(w) \/ ProcessDies(w)
    <2>1. registered' = registered
      BY <1>4 DEF ProcessReady, ProcessTakes, ProcessFinishes, ProcessDies, Others, futureVars
    <2>2. QED
      BY <1>1, <1>2, <2>1, CloseFrame
  <1>5. CASE ResultStep
    <2>1. registered' \subseteq registered
      BY <1>5 DEF ResultStep, ResultTaken, ResultSet, ResultLoopEnds, futureVars
    <2>2. QED
      BY <1>1, <1>2, <2>1, CloseFrame
  <1>6. QED
    BY <1>3, <1>4, <1>5

LEMMA CloseSupervisor ==
    ASSUME PoolInv, CloseInv, SupervisorStep
    PROVE  CloseInv'
  <1>1. UNCHANGED <<members, closePc, closeTodo, admPc, admGroup, admTodo>>
    BY DEF SupervisorStep, SupervisorFindsExit, SupervisorRestarts, SupervisorFails,
       SupervisorDecides, SupervisorKills, SupervisorTakesAll, SupervisorEnds,
       SupervisorSeesReady, SupervisorGivesUp, SupervisorCleansUp, workerVars, closeVars,
       admVars
  <1>2. registered' \subseteq registered
    BY DEF SupervisorStep, SupervisorFindsExit, SupervisorRestarts, SupervisorFails,
       SupervisorDecides, SupervisorKills, SupervisorTakesAll, SupervisorEnds,
       SupervisorSeesReady, SupervisorGivesUp, SupervisorCleansUp, futureVars, Take, TakeAll,
       FailOne
  <1>3. ASSUME NEW w \in Worker, SupervisorRestarts(w) PROVE CloseInv'
    <2>1. /\ w \in members /\ ~closing /\ registered' = registered
          /\ proc' = [proc EXCEPT ![w] = "starting"]
      BY <1>3 DEF SupervisorRestarts, Supervised, Launch, futureVars
    <2>2. closePc = "idle"
      BY <2>1 DEF PoolInv, ThreadInv, ClosingKnown
    <2>3. StoppedSoFar'
      BY <1>1, <2>2 DEF StoppedSoFar
    <2>4. MembersOf(admGroup)' = MembersOf(admGroup)
      BY <1>1 DEF MembersOf
    <2>5. NoStrays'
      BY <1>1, <2>1, <2>4 DEF CloseInv, NoStrays, PoolInv, TypeInv, ProcsTyped
    <2>6. QED
      BY <2>3, <2>5 DEF CloseInv
  <1>4. ASSUME \/ \E w \in Worker : SupervisorFindsExit(w)
               \/ SupervisorFails \/ SupervisorDecides \/ SupervisorKills
               \/ SupervisorTakesAll \/ SupervisorEnds \/ SupervisorSeesReady
               \/ SupervisorGivesUp \/ SupervisorCleansUp
        PROVE  CloseInv'
    <2>1. (\E v : StopProcess(v)) \/ UNCHANGED procVars
      BY <1>4 DEF SupervisorFindsExit, SupervisorFails, SupervisorDecides, SupervisorKills,
         SupervisorTakesAll, SupervisorEnds, SupervisorSeesReady, SupervisorGivesUp,
         SupervisorCleansUp
    <2>2. QED
      BY <1>1, <1>2, <2>1, StopRevivesNone, CloseFrame DEF PoolInv
  <1>5. QED
    BY <1>3, <1>4 DEF SupervisorStep

LEMMA CloseClose ==
    ASSUME PoolInv, CloseInv, CloseBegins \/ CloseStep
    PROVE  CloseInv'
  <1>1. UNCHANGED <<members, admPc, admGroup, admTodo>>
    BY DEF CloseBegins, CloseStep, CloseSignals, CloseStops, CloseTakesAll, CloseFails,
       workerVars, admVars
  <1>2. \A w \in Worker : proc'[w] \in UnstoppedProc => proc[w] \in UnstoppedProc
    <2>1. (\E v : StopProcess(v)) \/ UNCHANGED procVars
      BY DEF CloseBegins, CloseStep, CloseSignals, CloseStops, CloseTakesAll, CloseFails
    <2>2. QED
      BY <2>1, StopRevivesNone DEF PoolInv
  <1>3. NoStrays'
    <2>1. MembersOf(admGroup)' = MembersOf(admGroup)
      BY <1>1 DEF MembersOf
    <2>2. QED
      BY <1>1, <1>2, <2>1 DEF CloseInv, NoStrays
  <1>4. \A w \in members : w \in Worker
    BY DEF PoolInv, TypeInv, WorkersTyped
  <1>5. ASSUME CloseBegins \/ CloseSignals PROVE StoppedSoFar'
    BY <1>1, <1>5 DEF CloseBegins, CloseSignals, CloseGoTo, StoppedSoFar
  <1>6. ASSUME CloseStops PROVE StoppedSoFar'
    <2>1. closePc = "stop"
      BY <1>6 DEF CloseStops
    <2>2. ASSUME closeTodo = {} PROVE StoppedSoFar'
      BY <1>1, <1>2, <1>4, <1>6, <2>1, <2>2 DEF CloseStops, CloseGoTo, CloseInv, StoppedSoFar
    <2>3. ASSUME closeTodo # {}, CanStop(FirstOf(closeTodo)) PROVE StoppedSoFar'
      <3> DEFINE v == FirstOf(closeTodo)
      <3>1. StopProcess(v) /\ closePc' = "stop" /\ closeTodo' = closeTodo \ {v}
        BY <1>6, <2>3 DEF CloseStops, CloseGoTo
      <3> HIDE DEF v
      <3>2. v \in Worker => proc'[v] \notin UnstoppedProc
        BY <3>1 DEF StopProcess, ProcessGone, ProcessSurvives, PoolInv, TypeInv, ProcsTyped,
           UnstoppedProc
      <3>3. QED
        BY <1>1, <1>2, <1>4, <2>1, <3>1, <3>2 DEF CloseInv, StoppedSoFar
    <2>4. ASSUME closeTodo # {}, ~CanStop(FirstOf(closeTodo)) PROVE StoppedSoFar'
      BY <1>6, <2>4 DEF CloseStops, CloseGoTo, StoppedSoFar
    <2>5. QED
      BY <2>2, <2>3, <2>4
  <1>7. ASSUME CloseTakesAll PROVE StoppedSoFar'
    <2>1. closePc = "join" /\ closePc' = "failAll" /\ registered' = {}
      BY <1>7 DEF CloseTakesAll, TakeAll
    <2>2. QED
      BY <1>1, <1>2, <1>4, <2>1 DEF CloseInv, StoppedSoFar
  <1>8. ASSUME CloseFails PROVE StoppedSoFar'
    <2>1. closePc = "failAll" /\ closePc' \in {"failAll", "done"} /\ registered' = registered
      BY <1>8 DEF CloseFails, FailOne, futureVars
    <2>2. QED
      BY <1>1, <1>2, <1>4, <2>1 DEF CloseInv, StoppedSoFar
  <1>9. StoppedSoFar'
    BY <1>5, <1>6, <1>7, <1>8 DEF CloseStep
  <1>10. QED
    BY <1>3, <1>9 DEF CloseInv

LEMMA CloseAdmin ==
    ASSUME PoolInv, CloseInv,
           AdminStep \/ (\E g \in Group : UnloadBegins(g) \/ LoadBegins(g))
    PROVE  CloseInv'
  <1>1. UNCHANGED <<closePc, closeTodo>> /\ registered' \subseteq registered
    BY DEF AdminStep, UnloadBegins, LoadBegins, AdminDisposes, AdminFails, LoadLaunches,
       LoadEnds, LoadFails, FailOne, Take, futureVars, closeVars
  <1>2. \A w \in members : w \in Worker
    BY DEF PoolInv, TypeInv, WorkersTyped
  <1>3. ASSUME UNCHANGED members,
               \A w \in members : proc'[w] \in UnstoppedProc => proc[w] \in UnstoppedProc
        PROVE  StoppedSoFar'
    BY <1>1, <1>3 DEF CloseInv, StoppedSoFar
  <1>4. ASSUME NEW g \in Group, UnloadBegins(g) PROVE CloseInv'
    <2>1. /\ ~closing /\ members' = members \ MembersOf(g) /\ proc' = proc
          /\ admPc = "idle" /\ admPc' = "dispose" /\ admTodo' = MembersOf(g)
      BY <1>4 DEF UnloadBegins, procVars
    <2>2. closePc' = "idle"
      BY <1>1, <2>1 DEF PoolInv, ThreadInv, ClosingKnown
    <2>3. QED
      BY <2>1, <2>2 DEF CloseInv, StoppedSoFar, NoStrays
  <1>5. ASSUME NEW g \in Group, LoadBegins(g) PROVE CloseInv'
    <2>1. UNCHANGED <<members, proc>> /\ admPc = "idle"
      BY <1>5 DEF LoadBegins, procVars, workerVars
    <2>2. StoppedSoFar'
      BY <1>3, <2>1
    <2>3. QED
      BY <2>1, <2>2 DEF CloseInv, NoStrays
  <1>6. CASE LoadLaunches
    <2>1. /\ admPc = "load" /\ admPc' = "boot" /\ UNCHANGED <<members, admGroup>>
          /\ proc' = [w \in Worker |->
                IF w \in MembersOf(admGroup) THEN "starting" ELSE proc[w]]
      BY <1>6 DEF LoadLaunches
    <2>2. \A w \in members : w \notin MembersOf(admGroup)
      BY <2>1 DEF PoolInv, ThreadInv, LaunchInv, MembersInGroups, LoadsNewGroup, MembersOf
    <2>3. StoppedSoFar'
      BY <1>2, <1>3, <2>1, <2>2
    <2>4. MembersOf(admGroup)' = MembersOf(admGroup)
      BY <2>1 DEF MembersOf
    <2>5. NoStrays'
      BY <2>1, <2>4 DEF CloseInv, NoStrays
    <2>6. QED
      BY <2>3, <2>5 DEF CloseInv
  <1>7. CASE LoadEnds
    <2>1. /\ ~closing /\ admPc = "boot" /\ members' = members \cup MembersOf(admGroup)
          /\ proc' = proc
      BY <1>7 DEF LoadEnds, procVars
    <2>2. closePc' = "idle"
      BY <1>1, <2>1 DEF PoolInv, ThreadInv, ClosingKnown
    <2>3. QED
      BY <2>1, <2>2 DEF CloseInv, StoppedSoFar, NoStrays
  <1>8. CASE LoadFails
    <2>1. /\ admPc = "boot" /\ admPc' = "dispose" /\ UNCHANGED <<members, proc>>
          /\ admTodo' = MembersOf(admGroup)
      BY <1>8 DEF LoadFails, procVars, workerVars
    <2>2. StoppedSoFar'
      BY <1>3, <2>1
    <2>3. QED
      BY <2>1, <2>2 DEF CloseInv, NoStrays
  <1>9. CASE AdminDisposes
    <2> DEFINE v == FirstOf(admTodo)
    <2>1. /\ admPc = "dispose" /\ members' = members
          /\ \/ StopProcess(v) /\ admTodo' = admTodo \ {v} /\ admPc' = "dispose"
             \/ UNCHANGED <<procVars, admTodo>> /\ admPc' = "raised"
      BY <1>9 DEF AdminDisposes
    <2> HIDE DEF v
    <2>2. \A w \in Worker : proc'[w] \in UnstoppedProc => proc[w] \in UnstoppedProc
      BY <2>1, StopRevivesNone DEF PoolInv
    <2>3. StopProcess(v) /\ v \in Worker => proc'[v] \notin UnstoppedProc
      BY DEF StopProcess, ProcessGone, ProcessSurvives, PoolInv, TypeInv, ProcsTyped,
         UnstoppedProc
    <2>4. StoppedSoFar'
      BY <1>2, <1>3, <2>1, <2>2
    <2>5. NoStrays'
      BY <2>1, <2>2, <2>3 DEF CloseInv, NoStrays
    <2>6. QED
      BY <2>4, <2>5 DEF CloseInv
  <1>10. CASE AdminFails
    <2>1. /\ admPc = "dispose" /\ admTodo = {} /\ UNCHANGED <<members, proc, admTodo>>
      BY <1>10 DEF AdminFails, procVars, workerVars
    <2>2. StoppedSoFar'
      BY <1>3, <2>1
    <2>3. QED
      BY <2>1, <2>2 DEF CloseInv, NoStrays
  <1>11. QED
    BY <1>4, <1>5, <1>6, <1>7, <1>8, <1>9, <1>10 DEF AdminStep

LEMMA CloseAlways == Spec => []CloseInv
  <1>1. PoolInv /\ CloseInv /\ [Next]_vars => CloseInv'
    <2> SUFFICES ASSUME PoolInv, CloseInv, [Next]_vars PROVE CloseInv'
      OBVIOUS
    <2>1. CASE UNCHANGED vars
      BY <2>1, CloseFrame
         DEF vars, futureVars, workerVars, procVars, closeVars, admVars
    <2>2. CASE Next
      BY <2>2, CloseWork, CloseSupervisor, CloseClose, CloseAdmin DEF Next
    <2>3. QED
      BY <2>1, <2>2
  <1>2. QED
    BY <1>1, CloseInvStart, PoolAlways, PTL DEF Spec

\* After a completed close no process of the pool runs but those that survived
\* terminate(), and its table holds no future; outside the pool only those run
\* that an administrator is about to stop, or abandoned when its unload raised:
\* whatever was restarting, loading or unloading when close was called.
THEOREM CloseIsThorough == Spec => []CloseLeavesNothing
  BY CloseMeans, CloseAlways, PTL

-----------------------------------------------------------------------------
(* The pool implements its port.  Only execute, the result loop and the     *)
(* three threads that fail futures touch a future; each of those holds it.  *)
LEMMA FailOneIsFinish ==
    ASSUME TypeInv, NEW q \in Request, FailOne(q), UNCHANGED accepting
    PROVE  [Port!Next]_Port!vars
  <1>1. CASE future[q] = "waiting"
    <2>1. future' = [future EXCEPT ![q] = "failed"]
      BY <1>1 DEF FailOne, TypeInv, FuturesTyped
    <2>2. QED
      BY <1>1, <2>1 DEF Port!Next, Port!Finish
  <1>2. CASE future[q] # "waiting"
    <2>1. future' = future
      BY <1>2 DEF FailOne, TypeInv, FuturesTyped
    <2>2. QED
      BY <2>1 DEF Port!vars
  <1>3. QED
    BY <1>1, <1>2

LEMMA PortStep ==
    ASSUME TypeInv, HoldInv, [Next]_vars
    PROVE  [Port!Next]_Port!vars
  <1>1. ASSUME NEW q \in Request, Execute(q) PROVE [Port!Next]_Port!vars
    BY <1>1 DEF Execute, flagVars, Port!Next, Port!Execute
  <1>2. CASE ResultSet
    <2>1. resultHeld \in Request /\ UNCHANGED accepting
      BY <1>2 DEF ResultSet, flagVars, HoldInv, HeldAtWork, TypeInv, ResultsTyped
    <2>2. future[resultHeld] = "waiting"
      BY <2>1 DEF HoldInv, HeldIffWaiting
    <2>3. PICK o \in {"ok", "failed"} : future' = [future EXCEPT ![resultHeld] = o]
      BY <1>2, <2>2 DEF ResultSet
    <2>4. Port!Finish(resultHeld)
      BY <2>1, <2>2, <2>3 DEF Port!Finish
    <2>5. QED
      BY <2>1, <2>4 DEF Port!Next
  <1>3. ASSUME SupervisorFails \/ CloseFails \/ AdminFails PROVE [Port!Next]_Port!vars
    <2>1. /\ UNCHANGED accepting
          /\ (\E q \in supHeld \cup closeHeld \cup admHeld : FailOne(q)) \/ UNCHANGED future
      BY <1>3 DEF SupervisorFails, CloseFails, AdminFails, flagVars, futureVars
    <2>2. supHeld \cup closeHeld \cup admHeld \subseteq Request
      BY DEF TypeInv, SupervisorTyped, CloseTyped, AdminTyped
    <2>3. QED
      BY <2>1, <2>2, FailOneIsFinish DEF Port!vars
  <1>4. ASSUME SupervisorDecides \/ CloseBegins PROVE [Port!Next]_Port!vars
    <2>1. UNCHANGED future /\ (accepting' = FALSE \/ UNCHANGED accepting)
      BY <1>4 DEF SupervisorDecides, CloseBegins, flagVars, futureVars
    <2>2. QED
      BY <2>1 DEF Port!vars, Port!Next, Port!StopAccepting
  <1>5. ASSUME \/ \E w \in Worker : \/ ProcessReady(w) \/ ProcessTakes(w)
                                    \/ ProcessFinishes(w) \/ ProcessDies(w)
               \/ ResultTaken \/ ResultLoopEnds \/ UNCHANGED vars
        PROVE  [Port!Next]_Port!vars
    <2>1. UNCHANGED <<future, accepting>>
      BY <1>5 DEF ProcessReady, ProcessTakes, ProcessFinishes, ProcessDies, Others,
         ResultTaken, ResultLoopEnds, vars, flagVars, futureVars
    <2>2. QED
      BY <2>1 DEF Port!vars
  <1>6. ASSUME \/ \E w \in Worker : SupervisorFindsExit(w) \/ SupervisorRestarts(w)
               \/ SupervisorKills \/ SupervisorTakesAll \/ SupervisorSeesReady
               \/ SupervisorGivesUp \/ SupervisorCleansUp
               \/ CloseSignals \/ CloseStops \/ CloseTakesAll
        PROVE  [Port!Next]_Port!vars
    <2>1. UNCHANGED <<future, accepting>>
      BY <1>6 DEF SupervisorFindsExit, SupervisorRestarts, SupervisorKills,
         SupervisorTakesAll, SupervisorSeesReady, SupervisorGivesUp, SupervisorCleansUp,
         CloseSignals, CloseStops, CloseTakesAll, Take, TakeAll, flagVars, futureVars
    <2>2. QED
      BY <2>1 DEF Port!vars
  <1>7. CASE SupervisorEnds
    <2>1. UNCHANGED future /\ (accepting' = FALSE \/ UNCHANGED accepting)
      BY <1>7 DEF SupervisorEnds, flagVars, futureVars
    <2>2. QED
      BY <2>1 DEF Port!vars, Port!Next, Port!StopAccepting
  <1>8. ASSUME \/ \E g \in Group : UnloadBegins(g) \/ LoadBegins(g)
               \/ AdminDisposes \/ LoadLaunches \/ LoadEnds \/ LoadFails
        PROVE  [Port!Next]_Port!vars
    <2>1. UNCHANGED <<future, accepting>>
      BY <1>8 DEF UnloadBegins, LoadBegins, AdminDisposes, LoadLaunches, LoadEnds, LoadFails,
         Take, flagVars, futureVars
    <2>2. QED
      BY <2>1 DEF Port!vars
  <1>9. QED
    BY <1>1, <1>2, <1>3, <1>4, <1>5, <1>6, <1>7, <1>8
       DEF Next, ResultStep, SupervisorStep, CloseStep, AdminStep

\* The pool implements the strategy port: a future is finished once and keeps
\* its outcome, by whichever thread held it, and a pool that stopped accepting
\* hands out failed futures only.
THEOREM PoolImplementsPort == Spec => ImplementsPort
  <1>1. Init => Port!Init
    BY DEF Init, Port!Init
  <1>2. TypeInv /\ HoldInv /\ [Next]_vars => [Port!Next]_Port!vars
    BY PortStep
  <1>3. Spec => Port!Spec
    BY <1>1, <1>2, HoldAlways, PTL DEF Spec, Port!Spec
  <1>4. QED
    BY <1>3 DEF ImplementsPort
=============================================================================
