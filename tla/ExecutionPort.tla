--------------------------- MODULE ExecutionPort ---------------------------
(***************************************************************************)
(* What the scheduler relies on from an execution strategy (the protocol   *)
(* ExecutionStrategy of src/infly/core/ports.py): execute hands out one    *)
(* future per request, a future is finished once and keeps its result, and *)
(* a strategy that stopped accepting hands out failed futures only.  What  *)
(* close does with futures that are left is no part of it: that they are   *)
(* all finished is liveness, FuturesFinish of module ProcessPool, and only *)
(* promised as long as nothing raised.                                     *)
(* Module ProcessPool is shown to implement this specification.            *)
(***************************************************************************)
CONSTANT Request

VARIABLES
    future,    \* each request's future: "none", "waiting", "ok" or "failed"
    accepting  \* does the strategy take new requests?

vars == <<future, accepting>>

Init == future = [q \in Request |-> "none"] /\ accepting = TRUE

Execute(q) ==
    /\ future[q] = "none"
    /\ \/ accepting /\ future' = [future EXCEPT ![q] = "waiting"]
       \/ future' = [future EXCEPT ![q] = "failed"]
    /\ UNCHANGED accepting

Finish(q) ==
    /\ future[q] = "waiting"
    /\ \E o \in {"ok", "failed"} : future' = [future EXCEPT ![q] = o]
    /\ UNCHANGED accepting

StopAccepting == accepting' = FALSE /\ UNCHANGED future

Next == StopAccepting \/ \E q \in Request : Execute(q) \/ Finish(q)

Spec == Init /\ [][Next]_vars
=============================================================================
