------------------------------ MODULE RowStore ------------------------------
(***************************************************************************)
(* What a Lucid table promises the program that holds row references: a    *)
(* row has an identity of its own, never reissued; it keeps its cells      *)
(* until the program writes them, whatever happens to other rows or to the *)
(* storage; once it is removed no reference reads anything from it; and    *)
(* the structural version counts the changes of the row set.               *)
(* GrowingTable is shown to implement this specification.                  *)
(***************************************************************************)
EXTENDS Naturals

CONSTANTS Ids,      \* identities of rows
          Columns, Values,
          Seed      \* the rows the table starts with

VARIABLES rows,     \* the readable rows: a function on a set of identities
          used,     \* the identities issued so far
          version   \* T.VERSION()

vars == <<rows, used, version>>

Init == rows = Seed /\ used = DOMAIN Seed /\ version = 0

Add(id, row) ==
  /\ id \notin used
  /\ rows' = [i \in DOMAIN rows \union {id} |-> IF i = id THEN row ELSE rows[i]]
  /\ used' = used \union {id}
  /\ version' = version + 1

\* REMOVE drops one row, CLEAR every row.
Drop(ids) ==
  /\ rows' = [i \in DOMAIN rows \ ids |-> rows[i]]
  /\ version' = version + 1
  /\ UNCHANGED used

Write(id, col, v) ==
  /\ rows' = [rows EXCEPT ![id][col] = v]
  /\ UNCHANGED <<used, version>>

Next ==
  \/ \E id \in Ids, row \in [Columns -> Values] : Add(id, row)
  \/ \E id \in DOMAIN rows : Drop({id})
  \/ Drop(DOMAIN rows)
  \/ \E id \in DOMAIN rows, col \in Columns, v \in Values : Write(id, col, v)

Spec == Init /\ [][Next]_vars
=============================================================================
