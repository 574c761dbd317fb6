---------------------------- MODULE TaskBackend ----------------------------
(***************************************************************************)
(* InMemoryTaskBackend (src/infly/runtime/task_backend.py): the store of   *)
(* task records behind the scheduler.  Every method of the class runs      *)
(* under the one lock self._lock, so each method is one atomic action.     *)
(*                                                                         *)
(* A record is abstracted to its status: the request, the result, the      *)
(* error and the timestamps are payload that no method branches on.        *)
(*                                                                         *)
(* The action operators (Submit, Pull, Read, UpdateStatus) are also the    *)
(* vocabulary of module Scheduler, which EXTENDS this one.                 *)
(***************************************************************************)
EXTENDS Integers, FiniteSets

CONSTANTS
    Task,        \* the task ids a client may use
    Priority,    \* the priorities a client may ask for, a set of integers
    RetainLimit, \* max_retained_terminal_tasks, where 0 keeps every record
    MaxSequence  \* model bound on the two sequence counters

ASSUME TaskAssumption     == IsFiniteSet(Task)
ASSUME PriorityAssumption == Priority \subseteq Int
ASSUME LimitAssumption    == RetainLimit \in Nat
ASSUME SequenceAssumption == MaxSequence \in Nat

VARIABLES
    status,           \* _records: the status of each record, "absent" if none
    pending,          \* _pending: the heap, as the set of its entries
    finishedAt,       \* _terminal_finished_at, Unset if the id has no entry
    readTasks,        \* _read_terminal_tasks
    sequence,         \* _sequence
    terminalSequence  \* _terminal_sequence

backendVars ==
    <<status, pending, finishedAt, readTasks, sequence, terminalSequence>>

Terminal == {"COMPLETED", "FAILED"}
Live     == {"PENDING", "RUNNING"}
Status   == Live \cup Terminal
Unset    == -1

HeapEntry == [prio : Priority, seq : Nat, id : Task]

BackendTypeOK ==
    /\ status \in [Task -> Status \cup {"absent"}]
    /\ pending \in SUBSET HeapEntry
    /\ finishedAt \in [Task -> Nat \cup {Unset}]
    /\ readTasks \in SUBSET Task
    /\ sequence \in Nat
    /\ terminalSequence \in Nat

BackendInit ==
    /\ status = [t \in Task |-> "absent"]
    /\ pending = {}
    /\ finishedAt = [t \in Task |-> Unset]
    /\ readTasks = {}
    /\ sequence = 0
    /\ terminalSequence = 0

TerminalTasks == {t \in Task : status[t] \in Terminal}

-----------------------------------------------------------------------------
(* The heap orders entries by (-priority, sequence): urgent first, then    *)
(* first come first served.                                                *)
PulledBefore(e, f) ==
    \/ e.prio > f.prio
    \/ e.prio = f.prio /\ e.seq <= f.seq

(* The operators named Bug... are faulty variants of the definition that    *)
(* follows them.  No action uses them: each shows that a property notices   *)
(* the mistake.                                                            *)

\* The heap key is negated twice.
BugSubmitNegates(t, p) ==
    /\ status[t] = "absent"
    /\ status' = [status EXCEPT ![t] = "PENDING"]
    /\ pending' = pending \cup {[prio |-> -p, seq |-> sequence, id |-> t]}
    /\ sequence' = sequence + 1
    /\ UNCHANGED <<finishedAt, readTasks, terminalSequence>>

\* submit: refused (ValueError) when the id has a record.
Submit(t, p) ==
    /\ status[t] = "absent"
    /\ status' = [status EXCEPT ![t] = "PENDING"]
    /\ pending' = pending \cup {[prio |-> p, seq |-> sequence, id |-> t]}
    /\ sequence' = sequence + 1
    /\ UNCHANGED <<finishedAt, readTasks, terminalSequence>>

\* pull: pop the least heap entry, whatever the status of its record.
Pull(e) ==
    /\ e \in pending
    /\ \A f \in pending : PulledBefore(e, f)
    /\ pending' = pending \ {e}
    /\ UNCHANGED <<status, finishedAt, readTasks, sequence, terminalSequence>>

\* read without consume: deep copy of a terminal record, remembered as read.
ReadKeep(t) ==
    /\ status[t] \in Terminal
    /\ readTasks' = readTasks \cup {t}
    /\ UNCHANGED <<status, pending, finishedAt, sequence, terminalSequence>>

\* The record is handed out and stays.
BugConsumeKeeps(t) ==
    /\ status[t] \in Terminal
    /\ readTasks' = readTasks \ {t}
    /\ UNCHANGED <<status, pending, finishedAt, sequence, terminalSequence>>

\* The record goes and its finish stamp stays.
BugConsumeLeavesStamp(t) ==
    /\ status[t] \in Terminal
    /\ status' = [status EXCEPT ![t] = "absent"]
    /\ readTasks' = readTasks \ {t}
    /\ UNCHANGED <<pending, finishedAt, sequence, terminalSequence>>

\* read with consume: the record leaves the backend with its index entries.
ReadConsume(t) ==
    /\ status[t] \in Terminal
    /\ status' = [status EXCEPT ![t] = "absent"]
    /\ finishedAt' = [finishedAt EXCEPT ![t] = Unset]
    /\ readTasks' = readTasks \ {t}
    /\ UNCHANGED <<pending, sequence, terminalSequence>>

Read(t, consume) == IF consume THEN ReadConsume(t) ELSE ReadKeep(t)

-----------------------------------------------------------------------------
(* Pruning.  Terminal records leave in the order (read first, then oldest  *)
(* finish) until at most RetainLimit remain.  The sort key in the code is  *)
(* (monotonic_ns, sequence); the clock never goes back and the sequence is *)
(* taken under the same lock, so the order is that of the sequence.        *)
BugNewestFirst(t, u, fin, read) ==
    \/ t \in read /\ u \notin read
    \/ (t \in read <=> u \in read) /\ fin[t] > fin[u]

BugReadIgnored(t, u, fin, read) == fin[t] < fin[u]

EvictedBefore(t, u, fin, read) ==
    \/ t \in read /\ u \notin read
    \/ (t \in read <=> u \in read) /\ fin[t] < fin[u]

BugOneTooMany(terminal, fin, read) ==
    IF RetainLimit = 0
    THEN {}
    ELSE {t \in terminal :
            Cardinality({u \in terminal : EvictedBefore(t, u, fin, read)})
                > RetainLimit}

\* The ids outside the last RetainLimit in eviction order.
Evicted(terminal, fin, read) ==
    IF RetainLimit = 0
    THEN {}
    ELSE {t \in terminal :
            Cardinality({u \in terminal : EvictedBefore(t, u, fin, read)})
                >= RetainLimit}

\* A terminal status stamps the record once and prunes.
UpdateTerminal(t, s) ==
    LET fresh    == finishedAt[t] = Unset
        fin      == IF fresh THEN [finishedAt EXCEPT ![t] = terminalSequence]
                             ELSE finishedAt
        evicted  == Evicted(TerminalTasks \cup {t}, fin, readTasks)
    IN  /\ status[t] # "absent"
        /\ status' = [u \in Task |-> IF u \in evicted THEN "absent"
                                     ELSE IF u = t THEN s ELSE status[u]]
        /\ finishedAt' = [u \in Task |-> IF u \in evicted THEN Unset ELSE fin[u]]
        /\ readTasks' = readTasks \ evicted
        /\ terminalSequence' =
              IF fresh THEN terminalSequence + 1 ELSE terminalSequence
        /\ UNCHANGED <<pending, sequence>>

\* A live status takes the record back out of the terminal index.
UpdateLive(t, s) ==
    /\ status[t] # "absent"
    /\ status' = [status EXCEPT ![t] = s]
    /\ finishedAt' = [finishedAt EXCEPT ![t] = Unset]
    /\ readTasks' = readTasks \ {t}
    /\ UNCHANGED <<pending, sequence, terminalSequence>>

\* update_status: KeyError when the id has no record (the guard).
UpdateStatus(t, s) ==
    IF s \in Terminal THEN UpdateTerminal(t, s) ELSE UpdateLive(t, s)

-----------------------------------------------------------------------------
(* The backend on its own, driven by every sequence of legal calls.  The   *)
(* bounds on the two counters are the model's: Python integers grow.       *)
BackendNext ==
    \/ \E t \in Task, p \in Priority : sequence < MaxSequence /\ Submit(t, p)
    \/ \E e \in pending : Pull(e)
    \/ \E t \in Task, consume \in BOOLEAN : Read(t, consume)
    \/ \E t \in Task, s \in Terminal :
          terminalSequence < MaxSequence /\ UpdateStatus(t, s)
    \/ \E t \in Task, s \in Live : UpdateStatus(t, s)

BackendSpec == BackendInit /\ [][BackendNext]_backendVars

-----------------------------------------------------------------------------
(* Safety.                                                                 *)

\* The three views of "finished" agree: exactly the terminal records have a
\* finish stamp (or the sort in _prune_terminal_records_locked raises
\* KeyError), only terminal records are marked read, and no two records share
\* a stamp or hold one from the future.
IndexConsistent ==
    /\ \A t \in Task : finishedAt[t] # Unset <=> status[t] \in Terminal
    /\ readTasks \subseteq TerminalTasks
    /\ \A t \in Task : finishedAt[t] < terminalSequence
    /\ \A t, u \in TerminalTasks : finishedAt[t] = finishedAt[u] => t = u

\* A positive limit bounds the finished records that stay in memory, after
\* every call and not only after a prune.
RetentionBound ==
    RetainLimit > 0 => Cardinality(TerminalTasks) <= RetainLimit

\* A record that still has work to do is never dropped, and neither is one in
\* the very step that finishes it, whatever the limit and the other records.
LiveNeverDropped ==
    [][\A t \in Task : status[t] \in Live => status'[t] # "absent"]_backendVars

\* A step that drops a finished record nobody has read leaves no record that
\* was read, and none that finished earlier, behind (a consuming read apart,
\* which drops the one record it returns).
UnreadEvictedLast ==
    [][\A t, u \in Task :
          /\ status[t] \in Terminal
          /\ t \notin readTasks
          /\ status'[t] = "absent"
          /\ terminalSequence' # terminalSequence
          /\ status[u] \in Terminal
          /\ u \in readTasks \/ finishedAt[u] < finishedAt[t]
          => status'[u] = "absent"]_backendVars
=============================================================================
