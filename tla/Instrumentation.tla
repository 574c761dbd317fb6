-------------------------- MODULE Instrumentation --------------------------
(***************************************************************************)
(* RuntimeInstrumentation (src/infly/runtime/observability.py): the task   *)
(* counters behind metrics_snapshot and the Prometheus text.  Each record_ *)
(* method updates the counters under self._lock and then calls the trace   *)
(* sinks, which are the user's code: what happens when one raises is up to *)
(* the caller (RecordSubmission and StartTask in module Scheduler).        *)
(* Latencies are payload.                                                  *)
(***************************************************************************)
EXTENDS Naturals

VARIABLES
    submittedTotal,  \* _submitted_total
    startedTotal,    \* _started_total
    finishedTotal,   \* _completed_total and _failed_total, by status
    inflight,        \* _inflight_tasks, the gauge
    submittedAt      \* the ids with an entry in _submitted_at

metricsVars ==
    <<submittedTotal, startedTotal, finishedTotal, inflight, submittedAt>>

MetricsInit ==
    /\ submittedTotal = 0
    /\ startedTotal = 0
    /\ finishedTotal = [s \in {"COMPLETED", "FAILED"} |-> 0]
    /\ inflight = 0
    /\ submittedAt = {}

\* Faulty variant: the gauge is not raised.
BugGaugeNotRaised(t) ==
    /\ submittedTotal' = submittedTotal + 1
    /\ submittedAt' = submittedAt \cup {t}
    /\ UNCHANGED <<startedTotal, finishedTotal, inflight>>

RecordSubmitted(t) ==
    /\ submittedTotal' = submittedTotal + 1
    /\ inflight' = inflight + 1
    /\ submittedAt' = submittedAt \cup {t}
    /\ UNCHANGED <<startedTotal, finishedTotal>>

RecordStarted ==
    /\ startedTotal' = startedTotal + 1
    /\ UNCHANGED <<submittedTotal, finishedTotal, inflight, submittedAt>>

\* record_completed and record_failed: _finish decrements the gauge only
\* above zero, whether or not the id was ever recorded as submitted.
RecordFinished(t, s) ==
    /\ finishedTotal' = [finishedTotal EXCEPT ![s] = @ + 1]
    /\ inflight' = IF inflight > 0 THEN inflight - 1 ELSE 0
    /\ submittedAt' = submittedAt \ {t}
    /\ UNCHANGED <<submittedTotal, startedTotal>>
=============================================================================
