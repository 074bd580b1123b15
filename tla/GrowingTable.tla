---------------------------- MODULE GrowingTable ----------------------------
(***************************************************************************)
(* A growing table: TableObject with m_kind = Growing.                     *)
(*                                                                         *)
(* Rows live in numbered slots.  A live slot carries the generation its    *)
(* row was stamped with; a dead slot that is on the free list carries, in  *)
(* the same field, the number of the next free slot.  A row reference is a *)
(* pair {slot, generation}, and stands for the row as long as              *)
(* isLiveRowRef says so.                                                   *)
(*                                                                         *)
(* addRow's checks of m_primary do not appear: makeGrowing never creates   *)
(* it, so a @primary column is scanned like a @unique one.                 *)
(***************************************************************************)
EXTENDS TableObject, Sequences, Functions

CONSTANTS
  Reserve,     \* @reserve(N)
  GenMod,      \* 2^32: a slot's generation is a uint32_t
  CounterMax,  \* 2^64 - 1: m_generationCounter is a uint64_t
  MaxAdds, MaxVersion   \* bounds of the model

Links == Nat \union {None}

ASSUME TableAssumption ==
  /\ IsFiniteSet(Values)
  /\ Reserve \in Nat /\ MaxAdds \in Nat /\ MaxVersion \in Nat
  /\ GenMod \in Nat \ {0} /\ CounterMax \in Nat \ {0}
  /\ None \notin [cap : Nat, cur : Links, head : Links, tail : Links]

VARIABLES
  capacity,    \* m_capacity
  slots,       \* m_slots: generation and live
  freeHead,    \* m_freeListHead; None is UINT32_MAX
  counter,     \* m_generationCounter
  floor,       \* m_resetFloor
  liveCount,   \* m_liveCount
  version,     \* m_version
  walk,        \* the local variables of a shrink in its loop, or None
  issued       \* history: issued[i] is the slot of the i-th row added

vars == <<capacity, slots, cells, freeHead, counter, floor, liveCount, version, walk, issued>>

Slots == 0 .. capacity - 1
Rows == [Columns -> Values]
NoRow == [c \in Columns |-> None]

TypeOK ==
  /\ capacity \in Nat
  /\ slots \in [Slots -> [gen : Links, live : BOOLEAN]]
  /\ cells \in [Slots -> Rows \union {NoRow}]
  /\ freeHead \in Slots \union {None}
  /\ counter \in Nat /\ floor \in Nat /\ liveCount \in Nat /\ version \in Nat
  /\ walk = None \/ walk \in [cap : 0 .. capacity, cur : Slots \union {None},
                              head : Slots \union {None}, tail : Slots \union {None}]
  /\ issued \in Seq(Nat)

\* A free list of all the slots below n, in ascending order.
FreeChain(n) ==
  [s \in 0 .. n - 1 |-> [gen |-> IF s + 1 < n THEN s + 1 ELSE None, live |-> FALSE]]

Init ==
  /\ capacity = Reserve
  /\ slots = FreeChain(Reserve)
  /\ cells = [s \in Slots |-> NoRow]
  /\ freeHead = IF Reserve > 0 THEN 0 ELSE None
  /\ counter = 1 /\ floor = 0 /\ liveCount = 0 /\ version = 0
  /\ walk = None
  /\ issued = <<>>

-----------------------------------------------------------------------------
(* Queries                                                                 *)

LiveSlots == {s \in Slots : slots[s].live}

\* Mutant of IsLiveRowRef: the generation is not compared.
IsLiveSlot(slot, gen) == slot \in LiveSlots /\ slots[slot].gen >= floor

IsLiveRowRef(slot, gen) ==
  slot \in LiveSlots /\ slots[slot].gen = gen /\ slots[slot].gen >= floor

\* Some live row other than slot s holds v, the same object, in column c.
Taken(c, v, s) == \E t \in LiveSlots \ {s} : cells[t][c] = v

-----------------------------------------------------------------------------
(* addRow                                                                  *)

\* A duplicate throws before anything has changed.
Admits(row) ==
  /\ walk = None
  /\ \A c \in Unique : ~Taken(c, row[c], None)

\* The arrays after m_slots and m_cells grew; the new slots are linked to no
\* free list.
GrownCapacity == IF capacity = 0 THEN 4 ELSE 2 * capacity
GrownSlots ==
  [s \in 0 .. GrownCapacity - 1 |-> IF s \in Slots THEN slots[s] ELSE [gen |-> 0, live |-> FALSE]]
GrownCells ==
  [s \in 0 .. GrownCapacity - 1 |-> IF s \in Slots THEN cells[s] ELSE NoRow]

\* The row goes into a slot of the arrays S and C.
Stamp(slot, S, C, row) ==
  /\ counter < CounterMax /\ Len(issued) < MaxAdds
  /\ slots' = [S EXCEPT ![slot] = [gen |-> counter % GenMod, live |-> TRUE]]
  /\ cells' = [C EXCEPT ![slot] = row]
  /\ counter' = counter + 1
  /\ liveCount' = liveCount + 1
  /\ version' = version + 1
  /\ issued' = Append(issued, slot)
  /\ UNCHANGED <<floor, walk>>

AddReuse(row) ==
  /\ Admits(row)
  /\ freeHead # None
  /\ freeHead' = slots[freeHead].gen
  /\ Stamp(freeHead, slots, cells, row)
  /\ UNCHANGED capacity

AddGrow(row) ==
  /\ Admits(row)
  /\ freeHead = None
  /\ capacity' = GrownCapacity
  /\ Stamp(capacity, GrownSlots, GrownCells, row)
  /\ UNCHANGED freeHead

\* GenerationExhaustedError is thrown when a slot has already been taken.
AddExhausted(row) ==
  /\ Admits(row)
  /\ counter = CounterMax
  /\ \/ /\ freeHead # None
        /\ freeHead' = slots[freeHead].gen
        /\ UNCHANGED <<capacity, slots, cells>>
     \/ /\ freeHead = None /\ capacity <= 2 * MaxAdds
        /\ capacity' = GrownCapacity
        /\ slots' = GrownSlots
        /\ cells' = GrownCells
        /\ UNCHANGED freeHead
  /\ UNCHANGED <<counter, floor, liveCount, version, walk, issued>>

-----------------------------------------------------------------------------
(* removeRow, clear                                                        *)

\* Mutant of RemoveRow: the free list's head is moved before it is linked.
RemoveSelfLinked(slot) ==
  /\ walk = None /\ slot \in LiveSlots
  /\ slots' = [slots EXCEPT ![slot] = [gen |-> slot, live |-> FALSE]]
  /\ freeHead' = slot
  /\ liveCount' = liveCount - 1
  /\ version' = version + 1
  /\ UNCHANGED <<capacity, cells, counter, floor, walk, issued>>

\* What dropping its cells leaves in a dead row is never read.
RemoveRow(slot) ==
  /\ walk = None /\ slot \in LiveSlots
  /\ slots' = [slots EXCEPT ![slot] = [gen |-> freeHead, live |-> FALSE]]
  /\ freeHead' = slot
  /\ liveCount' = liveCount - 1
  /\ version' = version + 1
  /\ UNCHANGED <<capacity, cells, counter, floor, walk, issued>>

ClearRows ==
  /\ walk = None /\ version < MaxVersion
  /\ floor' = counter
  /\ slots' = FreeChain(capacity)
  /\ freeHead' = IF capacity > 0 THEN 0 ELSE None
  /\ liveCount' = 0
  /\ version' = version + 1
  /\ UNCHANGED <<capacity, cells, counter, walk, issued>>

-----------------------------------------------------------------------------
(* shrink: find the new capacity, rebuild the free list in one loop, trim  *)

\* Mutant of ShrinkStart: as many slots are kept as there are rows.
ShrinkToCount ==
  /\ walk = None
  /\ liveCount < capacity
  /\ walk' = [cap |-> liveCount, cur |-> freeHead, head |-> None, tail |-> None]
  /\ UNCHANGED <<capacity, slots, cells, freeHead, counter, floor, liveCount, version, issued>>

\* The slots from cap up are dead, and cap is the least such.
ShrinkStart ==
  /\ walk = None
  /\ \E cap \in 0 .. capacity - 1 :
       /\ \A s \in LiveSlots : s < cap
       /\ cap > 0 => cap - 1 \in LiveSlots
       /\ walk' = [cap |-> cap, cur |-> freeHead, head |-> None, tail |-> None]
  /\ UNCHANGED <<capacity, slots, cells, freeHead, counter, floor, liveCount, version, issued>>

\* One turn of the loop: the free slot cur is kept, or left out.
ShrinkKeep ==
  /\ walk # None
  /\ walk.cur # None /\ walk.cur < walk.cap
  /\ slots' = IF walk.tail = None THEN slots ELSE [slots EXCEPT ![walk.tail].gen = walk.cur]
  /\ walk' = [walk EXCEPT !.cur = slots[walk.cur].gen,
                          !.head = IF walk.head = None THEN walk.cur ELSE walk.head,
                          !.tail = walk.cur]
  /\ UNCHANGED <<capacity, cells, freeHead, counter, floor, liveCount, version, issued>>

\* Mutant of ShrinkSkip: the loop advances only past the slots it keeps.
ShrinkStuck ==
  /\ walk # None
  /\ walk.cur # None /\ walk.cur >= walk.cap
  /\ UNCHANGED vars

ShrinkSkip ==
  /\ walk # None
  /\ walk.cur # None /\ walk.cur >= walk.cap
  /\ walk' = [walk EXCEPT !.cur = slots[walk.cur].gen]
  /\ UNCHANGED <<capacity, slots, cells, freeHead, counter, floor, liveCount, version, issued>>

ShrinkTrim ==
  /\ walk # None /\ walk.cur = None
  /\ slots' = [s \in 0 .. walk.cap - 1 |->
                 IF s = walk.tail THEN [slots[s] EXCEPT !.gen = None] ELSE slots[s]]
  /\ cells' = [s \in 0 .. walk.cap - 1 |-> cells[s]]
  /\ freeHead' = walk.head
  /\ capacity' = walk.cap
  /\ walk' = None
  /\ UNCHANGED <<counter, floor, liveCount, version, issued>>

-----------------------------------------------------------------------------
(* setCell                                                                 *)

\* A duplicate throws and changes nothing.
SetCell(slot, c, v) ==
  /\ walk = None /\ slot \in LiveSlots /\ c \notin Frozen
  /\ cells[slot][c] # v
  /\ c \in Unique => ~Taken(c, v, slot)
  /\ cells' = [cells EXCEPT ![slot][c] = v]
  /\ UNCHANGED <<capacity, slots, freeHead, counter, floor, liveCount, version, walk, issued>>

-----------------------------------------------------------------------------
ShrinkLoop == ShrinkKeep \/ ShrinkSkip \/ ShrinkTrim

Next ==
  \/ \E row \in Rows : AddReuse(row) \/ AddGrow(row) \/ AddExhausted(row)
  \/ \E slot \in Slots : RemoveRow(slot)
  \/ \E slot \in Slots, c \in Columns, v \in Values : SetCell(slot, c, v)
  \/ ClearRows \/ ShrinkStart \/ ShrinkLoop

Spec == Init /\ [][Next]_vars

\* A call of shrink runs to its end.
FairSpec == Spec /\ WF_vars(ShrinkLoop)

-----------------------------------------------------------------------------
(* Properties                                                              *)

\* The reference addRow returned for the i-th row, which the program may have
\* kept in any variable or cell, reads that row.
Readable(i) == IsLiveRowRef(issued[i], i % GenMod)

\* The i-th row is still there: its slot is live and no later row took it.
Present(i) ==
  /\ issued[i] \in LiveSlots
  /\ \A j \in DOMAIN issued : j > i => issued[j] # issued[i]

\* "A stale reference can never alias the slot's next occupant"
\* (LucidGrammar.md:267), and a row that is there can be read: whatever was
\* removed, cleared, trimmed and added since a reference was taken,
\* isLiveRowRef accepts it exactly as long as its own row is in the table.
RefsTrackRows == \A i \in DOMAIN issued : Readable(i) <=> Present(i)

\* chain[n]: the slot reached from m_freeListHead after n links.
Chain ==
  LET chain[n \in 0 .. capacity] ==
        IF n = 0 THEN freeHead
        ELSE LET last == chain[n - 1] IN IF last = None THEN None ELSE slots[last].gen
  IN chain

\* The free list, threaded through the generation field of dead slots, always
\* ends, so it visits no slot twice, and visits only dead ones: no ADD takes
\* the slot of a live row, and no slot is handed out twice.
FreeListSound ==
  walk = None =>
    LET chain == Chain IN
      /\ chain[capacity] = None
      /\ \A n \in 0 .. capacity : chain[n] # None => chain[n] \in Slots \ LiveSlots

\* COUNT is the number of rows.
CountExact == liveCount = Cardinality(LiveSlots)

\* "No two rows share a value in this column" (LucidGrammar.md:404).
NoDuplicates ==
  \A c \in Unique, s, t \in LiveSlots :
    s # t => Text[cells[s][c]] # Text[cells[t][c]]

\* After CLEAR slots are handed out in ascending order (LucidGrammar.md:268):
\* a table filled since, and not removed from, iterates in the order its rows
\* were added.
FillsInOrder ==
  LET recent == {i \in DOMAIN issued : i >= floor} IN
    (\A i \in recent : Present(i)) =>
      \A i, j \in recent : i < j => issued[i] < issued[j]

\* "A later ADD reuses a dead slot before growing the array"
\* (LucidGrammar.md:312).
ReusesBeforeGrowing == [][capacity' > capacity => LiveSlots = Slots]_vars

\* The program reads a table through its references: what they yield is a
\* RowStore, in which only the program's own operations change a row, the
\* version a view remembers goes stale with the row set, and SHRINK changes
\* nothing.
Store == INSTANCE RowStore WITH
  Ids  <- 1 .. MaxAdds,
  Seed <- [i \in {} |-> NoRow],
  rows <- [i \in {j \in DOMAIN issued : Readable(j)} |-> cells[issued[i]]],
  used <- DOMAIN issued

ImplementsRowStore == Store!Spec

\* SHRINK returns: its walk of the free list comes to an end.
ShrinkReturns == walk # None ~> walk = None

\* The rows, their count, their order after a CLEAR and their keys are what the
\* program put there, and every reference it ever took agrees.
RowsSound == TypeOK /\ RefsTrackRows /\ CountExact /\ NoDuplicates /\ FillsInOrder
=============================================================================
