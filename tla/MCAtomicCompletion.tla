------------------------- MODULE MCAtomicCompletion -------------------------
(* AtomicCompletion over every pair of check rows of a test and a scan     *)
(* with one decision, and every pair of decisions with one check row.      *)
EXTENDS AtomicCompletion, TLC

CONSTANTS t1, t2

MCTrees     == {t1, t2}
\* At most two checks, two decisions and three rows in all.
MCRoom(n, m) == n < 2 /\ m < 2 /\ n + m < 3
MCSymmetry  == Permutations(MCTrees)
=============================================================================
