--------------------------- MODULE MCProcessPool ---------------------------
(* Small pools: how workers are spread over groups, and the groups' modes. *)
EXTENDS ProcessPool, TLC

CONSTANTS q1, q2, g1, g2, g3

OneRequest  == {q1}
TwoRequests == {q1, q2}
OneGroup    == {g1}
TwoGroups   == {g1, g2}
ThreeGroups == {g1, g2, g3}
SecondGroup == {g2}
NoGroup     == {}

\* The worker whose process may outlive terminate().
Second == {2}
Third  == {3}

\* One group of every worker; the first worker in a group of its own; or each.
Together == [w \in 1 .. NumWorkers |-> g1]
Apart    == [w \in 1 .. NumWorkers |-> IF w = 1 THEN g1 ELSE g2]
Alone    == [w \in 1 .. NumWorkers |-> <<g1, g2, g3>>[w]]

\* The first group restarts its workers, the second shuts the pool down and
\* the third goes on without the worker it lost; or the other way round.
Restart  == [g \in Group |-> "restart"]
Mixed    == [g \in Group |-> IF g = g1 THEN "restart"
                            ELSE IF g = g2 THEN "shutdown" ELSE "degrade"]
Reversed == [g \in Group |-> IF g = g1 THEN "shutdown" ELSE "restart"]

Symmetry == Permutations(TwoRequests)
=============================================================================
