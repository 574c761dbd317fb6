--------------------------- MODULE WorkerRouting ---------------------------
(***************************************************************************)
(* How ProcessPoolStrategy.execute (src/infly/runtime/strategy/            *)
(* process_pool.py) chooses a worker: smooth weighted round robin over the *)
(* groups that serve the handler, then the least busy worker of the group  *)
(* from a cursor on, then the next one if its queue refuses the request.   *)
(*                                                                         *)
(* execute holds self._lock, so one call runs at a time; but a process may *)
(* die, and the supervisor may mark a worker alive, between two looks of   *)
(* the call at the workers: its steps are actions of their own.  Module    *)
(* ProcessPool replaces all of this by a choice.                           *)
(***************************************************************************)
EXTENDS Integers, FiniteSets, Sequences, SequencesExt, Functions

CONSTANTS
    Group,          \* worker groups
    ProcessCount,   \* process_count of each group
    InitialOrder,   \* the groups the pool starts with, in the order of _groups
    Handler,        \* handler names
    Serves,         \* _handler_groups: the groups that serve a handler
    LateGroup,      \* the groups that are loaded and unloaded at run time
    MaxOutstanding, \* model bound on the unanswered requests of the pool
    Mortal,         \* the workers whose process may die
    PutMayFail,     \* may put_nowait raise?
    None            \* no group

Worker     == UNION {{g} \X (0 .. ProcessCount[g] - 1) : g \in Group}
GroupOf(w) == w[1]
Index(w)   == w[2]

ASSUME RoutingAssumption ==
    /\ IsFiniteSet(Group)
    /\ ProcessCount \in [Group -> Nat \ {0}]
    /\ InitialOrder \in Seq(Group) /\ IsInjective(InitialOrder)
    /\ Serves \in [Handler -> SUBSET Group]
    /\ LateGroup \subseteq Group
    /\ MaxOutstanding \in Nat
    /\ Mortal \subseteq Worker
    /\ PutMayFail \in BOOLEAN
    /\ None \notin Group

VARIABLES
    order,       \* _groups: the registered groups, in dict order
    smooth,      \* _smooth_weights
    cursor,      \* _group_cursors
    alive,       \* the workers whose alive flag is set
    up,          \* the workers whose process lives
    outstanding, \* the outstanding counters
    restarted,   \* the group of the worker the supervisor has just restarted
    pc,          \* where the call of execute is
    remaining,   \* remaining_groups
    chosen,      \* the group selected from them
    queue,       \* the workers of that group still to be offered the request
    steady,      \* history: workers live ever since the call began
    offered,     \* history: workers offered the request by this call
    passed,      \* history: how often in a row a candidate was not selected
    idle         \* history: requests its group took since a worker was offered
                 \* one, counted while the worker had none

poolVars  == <<order, alive, up, outstanding, restarted>>
callVars  == <<pc, remaining, chosen, queue, steady, offered>>
fairVars  == <<passed, idle>>
routeVars == <<smooth, cursor>>
vars      == <<poolVars, routeVars, callVars, fairVars>>

Workers(g) == {w \in Worker : GroupOf(w) = g}
Groups     == Range(order)

Init ==
    /\ order = InitialOrder
    /\ smooth = [g \in Group |-> 0]
    /\ cursor = [g \in Group |-> 0]
    /\ alive = {w \in Worker : GroupOf(w) \in Groups}
    /\ up = alive
    /\ outstanding = [w \in Worker |-> 0]
    /\ restarted = None
    /\ pc = "idle" /\ remaining = {} /\ chosen = None /\ queue = {}
    /\ steady = {} /\ offered = {}
    /\ passed = [g \in Group |-> 0]
    /\ idle = [w \in Worker |-> 0]

-----------------------------------------------------------------------------
\* _alive_workers_locked.
LiveWorkers(g) == {w \in Workers(g) : w \in alive \cap up}

\* The tie break of max: the earlier group in _groups.
Position(g) == CHOOSE i \in DOMAIN order : order[i] = g

(* The operators named Bug... are faulty variants of the definition that    *)
(* follows them.  No action uses them: each shows that a property notices   *)
(* the mistake.                                                            *)

\* The credit of the selected group is not taken away.
BugCharge(g, total) == 0

\* What the selected group pays: the weights of all candidates.
Charge(g, total) == total

\* execute looks for the groups with a live worker, and refuses without one.
Begin(h) ==
    LET candidates == {g \in Serves[h] \cap Groups : LiveWorkers(g) # {}}
    IN  /\ pc = "idle"
        /\ pc' = IF candidates = {} THEN "refused" ELSE "select"
        /\ remaining' = candidates
        /\ steady' = UNION {LiveWorkers(g) : g \in Serves[h] \cap Groups}
        /\ offered' = {}
        /\ UNCHANGED <<poolVars, routeVars, fairVars, chosen, queue>>

\* The credit saved up before is forgotten.
BugEarned(g) == IF g \in remaining THEN Cardinality(LiveWorkers(g)) ELSE 0

\* _select_group_locked: every candidate earns its number of live workers, and
\* the richest one pays what all of them earned.
Earned(g) == smooth[g] + (IF g \in remaining THEN Cardinality(LiveWorkers(g)) ELSE 0)

Richest(g) ==
    \A f \in remaining :
        \/ Earned(g) > Earned(f)
        \/ Earned(g) = Earned(f) /\ Position(g) <= Position(f)

Select ==
    LET total == Cardinality(UNION {LiveWorkers(g) : g \in remaining})
    IN  /\ pc = "select"
        /\ \E g \in remaining :
              /\ Richest(g)
              /\ chosen' = g
              /\ smooth' = [f \in Group |->
                    IF f = g THEN Earned(f) - Charge(f, total) ELSE Earned(f)]
              /\ passed' = [f \in Group |-> IF f = g THEN 0
                                            ELSE IF f \in remaining THEN passed[f] + 1
                                            ELSE passed[f]]
        /\ pc' = "order"
        /\ UNCHANGED <<poolVars, cursor, idle, remaining, queue, steady, offered>>

\* The cursor is not looked at.
BugOfferedBefore(w, v) ==
    \/ outstanding[w] < outstanding[v]
    \/ outstanding[w] = outstanding[v] /\ Index(w) <= Index(v)

\* The sort key of _ordered_workers_locked: the requests it has, then how far
\* it is from the cursor.  No key changes while the sorted list is walked.
Distance(w) == (Index(w) - cursor[GroupOf(w)]) % ProcessCount[GroupOf(w)]

OfferedBefore(w, v) ==
    \/ outstanding[w] < outstanding[v]
    \/ outstanding[w] = outstanding[v] /\ Distance(w) <= Distance(v)

Order ==
    /\ pc = "order"
    /\ queue' = LiveWorkers(chosen)
    /\ pc' = "offer"
    /\ UNCHANGED <<poolVars, routeVars, fairVars, remaining, chosen, steady, offered>>

First(w) == w \in queue /\ \A v \in queue : OfferedBefore(w, v)

\* The cursor runs past the last worker.
BugNextCursor(w) == Index(w) + 1

\* The next request starts behind the worker that took this one.
NextCursor(w) == (Index(w) + 1) % ProcessCount[GroupOf(w)]

\* put_nowait takes the request: it is the worker's, and the cursor moves on.
Assign(w) ==
    /\ pc = "offer"
    /\ First(w)
    /\ SumFunction(outstanding) < MaxOutstanding
    /\ outstanding' = [outstanding EXCEPT ![w] = @ + 1]
    /\ cursor' = [cursor EXCEPT ![chosen] = NextCursor(w)]
    /\ idle' = [v \in Worker |->
          IF v \in offered \cup {w} THEN 0
          ELSE IF v \in LiveWorkers(chosen) /\ outstanding[v] = 0 THEN idle[v] + 1
          ELSE idle[v]]
    /\ pc' = "idle" /\ remaining' = {} /\ chosen' = None /\ queue' = {}
    /\ steady' = {} /\ offered' = {}
    /\ UNCHANGED <<order, smooth, alive, up, restarted, passed>>

\* put_nowait raises: the counter is lowered again and the next worker tried.
PutFails(w) ==
    /\ pc = "offer"
    /\ First(w)
    /\ PutMayFail
    /\ offered' = offered \cup {w}
    /\ queue' = queue \ {w}
    /\ UNCHANGED <<poolVars, routeVars, fairVars, pc, remaining, chosen, steady>>

\* The first group that takes nothing ends the search.
BugGroupExhausted ==
    /\ pc = "offer"
    /\ queue = {}
    /\ pc' = "refused"
    /\ UNCHANGED <<poolVars, routeVars, fairVars, remaining, chosen, queue, steady, offered>>

\* No worker of the group took it: the next group is selected, or the request
\* is refused.
GroupExhausted ==
    /\ pc = "offer"
    /\ queue = {}
    /\ remaining' = remaining \ {chosen}
    /\ pc' = IF remaining' = {} THEN "refused" ELSE "select"
    /\ UNCHANGED <<poolVars, routeVars, fairVars, chosen, queue, steady, offered>>

\* execute returns the failed future.
Refused ==
    /\ pc = "refused"
    /\ pc' = "idle" /\ remaining' = {} /\ chosen' = None
    /\ steady' = {} /\ offered' = {}
    /\ UNCHANGED <<poolVars, routeVars, fairVars, queue>>

Call ==
    \/ \E h \in Handler : Begin(h)
    \/ Select \/ Order
    \/ \E w \in Worker : Assign(w) \/ PutFails(w)
    \/ GroupExhausted \/ Refused

-----------------------------------------------------------------------------
(* What happens to the workers.  A group whose workers change starts a new  *)
(* count of the requests that passed it, and so do the workers that changed. *)
Recount(g, changed) ==
    /\ passed' = [passed EXCEPT ![g] = 0]
    /\ idle' = [w \in Worker |-> IF w \in changed THEN 0 ELSE idle[w]]

\* A process dies, whoever holds the lock.
ProcessDies(w) ==
    /\ w \in Mortal \cap up
    /\ up' = up \ {w}
    /\ steady' = steady \ {w}
    /\ Recount(GroupOf(w), {w})
    /\ UNCHANGED <<order, alive, outstanding, restarted, routeVars, pc, remaining,
                   chosen, queue, offered>>

\* _handle_worker_exit, under the lock: the group loses its credit or debt.
\* The same thread restarts workers, one after the other.
WorkerExit(w) ==
    /\ pc = "idle"
    /\ restarted = None
    /\ w \in alive \ up
    /\ alive' = alive \ {w}
    /\ smooth' = [smooth EXCEPT ![GroupOf(w)] = 0]
    /\ outstanding' = [outstanding EXCEPT ![w] = 0]
    /\ Recount(GroupOf(w), {w})
    /\ UNCHANGED <<order, up, restarted, cursor, callVars>>

\* _restart_worker: launched under the lock, the process reports READY later
\* (the restarts that fail change nothing here) ...
Restart(w) ==
    /\ pc = "idle"
    /\ restarted = None
    /\ GroupOf(w) \in Groups
    /\ w \notin alive \cup up
    /\ up' = up \cup {w}
    /\ restarted' = w
    /\ UNCHANGED <<order, alive, outstanding, routeVars, callVars, fairVars>>

\* ... when the flag is set without the lock ...
RestartReady ==
    /\ restarted \in up \ alive
    /\ alive' = alive \cup {restarted}
    /\ Recount(GroupOf(restarted), {restarted})
    /\ UNCHANGED <<order, up, outstanding, restarted, routeVars, callVars>>

\* ... and then, under the lock again, the group's credit is cleared.
RestartDone ==
    /\ pc = "idle"
    /\ restarted # None
    /\ restarted \in alive \/ restarted \notin up
    /\ restarted' = None
    /\ IF restarted \in alive
       THEN /\ smooth' = [smooth EXCEPT ![GroupOf(restarted)] = 0]
            /\ Recount(GroupOf(restarted), {restarted})
       ELSE UNCHANGED <<smooth, fairVars>>
    /\ UNCHANGED <<order, alive, up, outstanding, cursor, callVars>>

\* The result loop takes an answer of w.
Answer(w) ==
    /\ pc = "idle"
    /\ outstanding[w] > 0
    /\ outstanding' = [outstanding EXCEPT ![w] = @ - 1]
    /\ UNCHANGED <<order, alive, up, restarted, routeVars, callVars, fairVars>>

\* unregister_worker_group forgets the group's cursor and credit ...
Unload(g) ==
    /\ pc = "idle"
    /\ g \in Groups \cap LateGroup
    /\ order' = RemoveAt(order, Position(g))
    /\ alive' = alive \ Workers(g)
    /\ up' = up \ Workers(g)
    /\ outstanding' = [w \in Worker |-> IF w \in Workers(g) THEN 0 ELSE outstanding[w]]
    /\ smooth' = [smooth EXCEPT ![g] = 0]
    /\ cursor' = [cursor EXCEPT ![g] = 0]
    /\ Recount(g, Workers(g))
    /\ UNCHANGED <<restarted, callVars>>

\* ... and register_worker_group puts it, with live workers, behind the others.
Load(g) ==
    /\ pc = "idle"
    /\ g \notin Groups
    /\ order' = Append(order, g)
    /\ alive' = alive \cup Workers(g)
    /\ up' = up \cup Workers(g)
    /\ UNCHANGED <<outstanding, restarted, routeVars, callVars, fairVars>>

Change ==
    \/ \E w \in Worker : ProcessDies(w) \/ WorkerExit(w) \/ Restart(w) \/ Answer(w)
    \/ RestartReady \/ RestartDone
    \/ \E g \in Group : Unload(g) \/ Load(g)

Next == Call \/ Change

Spec == Init /\ [][Next]_vars

-----------------------------------------------------------------------------
(* Properties.                                                             *)
\* Each variable has its type; a cursor is the index of a worker, and no
\* counter of a worker falls below zero.
RoutingTypeOK ==
    /\ order \in Seq(Group)
    /\ smooth \in [Group -> Int]
    /\ \A g \in Group : cursor[g] \in 0 .. ProcessCount[g] - 1
    /\ alive \in SUBSET Worker /\ up \in SUBSET Worker
    /\ outstanding \in [Worker -> Nat]
    /\ restarted \in Worker \cup {None}
    /\ pc \in {"idle", "select", "order", "offer", "refused"}
    /\ remaining \in SUBSET Group /\ chosen \in Group \cup {None}
    /\ queue \in SUBSET Worker
    /\ steady \in SUBSET Worker /\ offered \in SUBSET Worker
    /\ passed \in [Group -> Nat] /\ idle \in [Worker -> Nat]

\* A request is refused only when no worker would have it: each worker of the
\* handler that lived from the beginning of the call to its end was offered it.
RefusedByAll == pc = "refused" => steady \subseteq offered

\* The credits stay bounded, although each death and each restart wipes out
\* the credit or the debt of one group alone, so that they no longer add up to
\* zero: no old credit buys a burst of requests later.  The bound is the number
\* of other groups times the processes of the two largest groups: one large
\* group makes every group it competes with swing as far as itself.
Pairs       == {fg \in Group \X Group : fg[1] # fg[2]}
TwoLargest  == Max({0} \cup {ProcessCount[fg[1]] + ProcessCount[fg[2]] : fg \in Pairs})
CreditBound == TwoLargest * (Cardinality(Group) - 1)

CreditBounded ==
    \A g \in Group : -CreditBound <= smooth[g] /\ smooth[g] <= CreditBound

\* No group starves: as long as its own workers do not change, a group that is
\* a candidate is passed over a bounded number of times in a row, whatever the
\* other groups, the other handlers and the failing queues do: it gains credit
\* each time, from the largest debt to the largest credit at most.
NoGroupStarves == \A g \in Group : passed[g] <= 2 * CreditBound

\* No worker idles beside a busy group: before a live worker without requests
\* is offered one, each other process of its group gets at most one.
NoWorkerIdles ==
    \A w \in Worker : idle[w] < ProcessCount[GroupOf(w)]
=============================================================================
