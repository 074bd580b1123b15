----------------------------- MODULE TableObject -----------------------------
(***************************************************************************)
(* What every TableObject has, whatever its m_kind: columns with their     *)
(* attributes, and cells.  GrowingTable and FixedTable are its kinds.      *)
(***************************************************************************)
EXTENDS Naturals, FiniteSets

CONSTANTS
  Columns,
  Unique,      \* the @unique columns, @primary implies it
  Frozen,      \* the @readonly columns
  Values,      \* the values of cells: two strings are two values
  Text,        \* Text[v]: what v says; strings may say the same
  None

ASSUME ColumnAssumption ==
  /\ Unique \subseteq Columns /\ Frozen \subseteq Columns
  /\ DOMAIN Text = Values
  /\ None \notin Nat /\ None \notin Values

VARIABLE cells    \* m_cells, from slots to rows
=============================================================================
