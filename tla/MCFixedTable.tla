---------------------------- MODULE MCFixedTable ----------------------------
(* Instances of FixedTable for TLC.                                        *)
EXTENDS FixedTable, TLC

CONSTANTS key, tag, t1, t2, t3, t4, t5

\* t4 is another string object with the characters of t1.
Strings == [x \in Values |-> IF x = t4 THEN t1 ELSE x]

\* t1 and t2 share a bucket of the index.
Collide == [x \in Values |-> IF x \in {t1, t2} THEN 1 ELSE 2]
=============================================================================
