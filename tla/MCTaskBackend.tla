--------------------------- MODULE MCTaskBackend ---------------------------
(* TaskBackend on three ids, two priorities and a retention limit of two.  *)
EXTENDS TaskBackend, TLC

CONSTANTS t1, t2, t3

MCTask     == {t1, t2, t3}
MCPriority == {0, 1}
Symmetry   == Permutations(MCTask)
=============================================================================
