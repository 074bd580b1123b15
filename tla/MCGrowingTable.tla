--------------------------- MODULE MCGrowingTable ---------------------------
(* Instances of GrowingTable for TLC.                                      *)
EXTENDS GrowingTable, TLC

CONSTANTS key, note, u, v, w

\* Every value says something of its own, as integers do.
Plain == [x \in Values |-> x]

\* u and v are two string objects with the same characters.
Strings == [x \in Values |-> IF x = v THEN u ELSE x]

Symmetry == Permutations(Values)
=============================================================================
