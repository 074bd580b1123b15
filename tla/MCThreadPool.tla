---------------------------- MODULE MCThreadPool ----------------------------
(* Instances of ThreadPool for TLC.                                        *)
EXTENDS ThreadPool, TLC

CONSTANTS main, host, w1, w2, t1, t2, t3

\* main spawns everything.
FlatParent == [t \in Tasks |-> main]

\* main spawns t1 and t2; the code of t1 spawns t3.
NestedParent == [t \in Tasks |-> IF t = t3 THEN t1 ELSE main]

Symmetry == Permutations(Workers)
=============================================================================
