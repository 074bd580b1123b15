----------------------------- MODULE FixedTable -----------------------------
(***************************************************************************)
(* A @fixed or @readonly table: TableObject with m_kind = Fixed or         *)
(* Readonly.  Its rows are given and never come or go; what changes is     *)
(* their cells and, with them, the hash index of the @primary column.      *)
(***************************************************************************)
EXTENDS TableObject

CONSTANTS
  Kind,        \* "Fixed" or "Readonly"
  RowCount,    \* the number of rows
  Primary,     \* the @primary column, or None
  Hash         \* Hash[x]: hashValue of a value that says x

FixedSlots == 0 .. RowCount - 1
Table == [FixedSlots -> [Columns -> Values]]

ASSUME FixedAssumption ==
  /\ Kind \in {"Fixed", "Readonly"}
  /\ RowCount \in Nat
  /\ Primary \in Unique \union {None} /\ None \notin Columns
  /\ \A v \in Values : Hash[Text[v]] \in Nat

VARIABLE index    \* m_primary->entries: pairs of a hash and a slot

fixedVars == <<cells, index>>

FixedTypeOK ==
  /\ cells \in Table
  /\ index \subseteq Nat \X FixedSlots

HashOf(v) == Hash[Text[v]]

NoDuplicatesIn(c, table) ==
  \A s, t \in FixedSlots : s # t => Text[table[s][c]] # Text[table[t][c]]

\* Sema has rejected initial rows with duplicate keys.
FixedInit ==
  /\ cells \in {table \in Table : \A c \in Unique : NoDuplicatesIn(c, table)}
  /\ index = IF Primary = None THEN {} ELSE {<<HashOf(cells[s][Primary]), s>> : s \in FixedSlots}

-----------------------------------------------------------------------------

\* findPrimary: the slots whose entry has the key's hash and whose cell then
\* says the same.
Matches(key) ==
  {s \in FixedSlots : <<HashOf(key), s>> \in index /\ Text[cells[s][Primary]] = Text[key]}

ByPrimary(key) == IF Matches(key) = {} THEN None ELSE CHOOSE s \in Matches(key) : TRUE

\* The write would make a duplicate.  A @primary column asks the index, which
\* compares what values say; another @unique column is scanned for the value
\* itself.
Clashes(slot, c, v) ==
  \/ c = Primary /\ ByPrimary(v) \notin {None, slot}
  \/ c \in Unique /\ c # Primary /\ \E s \in FixedSlots \ {slot} : cells[s][c] = v

\* Mutant of Reindexed: the old key's entry stays.
ReindexedKept(slot, v) == index \union {<<HashOf(v), slot>>}

\* The row's entry moves from its old key's hash to the new one's.
Reindexed(slot, v) ==
  (index \ {<<HashOf(cells[slot][Primary]), slot>>}) \union {<<HashOf(v), slot>>}

\* Mutant of FixedSetCell: the index is not updated.
SetUnindexed(slot, c, v) ==
  /\ Kind # "Readonly" /\ c \notin Frozen
  /\ cells[slot][c] # v
  /\ ~Clashes(slot, c, v)
  /\ cells' = [cells EXCEPT ![slot][c] = v]
  /\ UNCHANGED index

FixedSetCell(slot, c, v) ==
  /\ Kind # "Readonly" /\ c \notin Frozen
  /\ cells[slot][c] # v
  /\ ~Clashes(slot, c, v)
  /\ index' = IF c = Primary THEN Reindexed(slot, v) ELSE index
  /\ cells' = [cells EXCEPT ![slot][c] = v]

FixedNext == \E slot \in FixedSlots, c \in Columns, v \in Values : FixedSetCell(slot, c, v)

FixedSpec == FixedInit /\ [][FixedNext]_fixedVars

-----------------------------------------------------------------------------
(* Properties                                                              *)

\* by<Column> finds the row with the key, and nothing for a key no row has,
\* after any writes of keys and with any collisions of their hashes; two
\* string objects with the same characters are the same key.
LookupExact ==
  Primary # None =>
    \A v \in Values :
      LET found == ByPrimary(v) IN
        IF \E s \in FixedSlots : Text[cells[s][Primary]] = Text[v]
        THEN found # None /\ Text[cells[found][Primary]] = Text[v]
        ELSE found = None

\* The index has one entry for each row: a key that was written away leaves
\* nothing behind.
IndexTight == Primary # None => \A s \in FixedSlots : Cardinality({e \in index : e[2] = s}) = 1

\* "Because the check is per write, two rows cannot swap keys directly"
\* (LucidGrammar.md:412): no two rows ever say the same in the @primary column.
KeysDistinct == Primary # None => NoDuplicatesIn(Primary, cells)

\* No two rows hold the same value in a @unique column, which is "no two rows
\* share a value" (LucidGrammar.md:404) for every type but strings.
ValuesDistinct == \A c \in Unique, s, t \in FixedSlots : s # t => cells[s][c] # cells[t][c]

\* Keys are found, are distinct and stay so, whatever writes move them.
KeysSound == FixedTypeOK /\ LookupExact /\ KeysDistinct /\ ValuesDistinct
=============================================================================
