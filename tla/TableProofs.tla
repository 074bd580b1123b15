---------------------------- MODULE TableProofs ----------------------------
(***************************************************************************)
(* Tables, for any columns and values.                                     *)
(*                                                                         *)
(* A growing table, of any capacity and with any number of rows added, as  *)
(* long as that number stays below GenMod and values that say the same are *)
(* the same (the two places where the code differs are in the README): row *)
(* references, COUNT, @unique columns, the order of rows, and that it      *)
(* implements RowStore.  What an ADD does depends on the free list, which  *)
(* is threaded through the slots: the invariant IInv says that some set of *)
(* dead slots is closed under its links, and how a shrink under way has    *)
(* cut that set in two.                                                    *)
(*                                                                         *)
(* A table of given rows, with any hash function: lookups by key.  The     *)
(* invariant FixedInv adds to the properties that the index holds exactly  *)
(* the entries of the keys the rows have now.                              *)
(***************************************************************************)
EXTENDS GrowingTable, FixedTable, FiniteSetTheorems, WellFoundedInduction, TLAPS

-----------------------------------------------------------------------------
(* Induction over the numbers, with a set in the place of the predicate.   *)

\* A set of numbers that is not empty has a least one.
LEMMA Least ==
  ASSUME NEW T \in SUBSET Nat, T # {}
  PROVE  \E m \in T : \A n \in T : m <= n
<1> DEFINE R == {p \in Nat \X Nat : p[1] < p[2]}
<1>1. R = OpToRel(<, Nat)
  BY DEF OpToRel
<1>2. IsWellFoundedOn(R, Nat)
  BY <1>1, NatLessThanWellFounded
<1>3. \E x \in T : \A y \in T : ~ (<<y, x>> \in R)
  <2> HIDE DEF R
  <2> QED BY <1>2, WFMin
<1>4. PICK x \in T : \A y \in T : ~ (<<y, x>> \in R)
  BY <1>3
<1>5. ASSUME NEW y \in T PROVE x <= y
  <2>1. ~ (<<y, x>> \in R)
    BY <1>4
  <2>2. <<y, x>> \in Nat \X Nat /\ <<y, x>>[1] = y /\ <<y, x>>[2] = x
    OBVIOUS
  <2> QED BY <2>1, <2>2
<1> QED BY <1>5

\* The numbers up to m are in every set that has zero and, with a number below
\* m, the next one.
LEMMA UpTo ==
  ASSUME NEW m \in Nat, NEW S, 0 \in S, \A n \in 0 .. m - 1 : n \in S => n + 1 \in S
  PROVE  0 .. m \subseteq S
<1>1. SUFFICES ASSUME (0 .. m) \ S # {} PROVE FALSE
  OBVIOUS
<1>2. PICK n \in (0 .. m) \ S : \A k \in (0 .. m) \ S : n <= k
  <2> DEFINE T == (0 .. m) \ S
  <2>1. T \in SUBSET Nat /\ T # {}
    BY <1>1
  <2> HIDE DEF T
  <2>2. \E k \in T : \A l \in T : k <= l
    BY <2>1, Least
  <2> QED BY <2>2 DEF T
<1>3. n # 0 /\ n - 1 \in 0 .. m - 1
  BY <1>2
<1>4. n - 1 \in S
  BY <1>2, <1>3
<1> QED BY <1>2, <1>3, <1>4

\* All the numbers are in every set that has zero and, with each, the next.
LEMMA NatInd ==
  ASSUME NEW S, 0 \in S, \A n \in Nat : n \in S => n + 1 \in S
  PROVE  Nat \subseteq S
<1> SUFFICES ASSUME NEW m \in Nat PROVE m \in S
  OBVIOUS
<1>1. 0 .. m \subseteq S
  BY UpTo
<1> QED BY <1>1

-----------------------------------------------------------------------------
(* Recursion *)

\* The first n values of a recursion from x.
Partial(n, S, x, step) ==
  {g \in [0 .. n -> S] : g[0] = x /\ \A k \in 0 .. n - 1 : g[k + 1] = step[k][g[k]]}

\* They exist.
LEMMA PartialExists ==
  ASSUME NEW S, NEW x \in S, NEW step \in [Nat -> [S -> S]], NEW n \in Nat
  PROVE  Partial(n, S, x, step) # {}
<1> DEFINE T == {m \in Nat : Partial(m, S, x, step) # {}}
<1>1. 0 \in T
  <2>1. [k \in 0 .. 0 |-> x] \in Partial(0, S, x, step)
    BY DEF Partial
  <2> QED BY <2>1
<1>2. ASSUME NEW m \in Nat, m \in T PROVE m + 1 \in T
  <2>1. PICK g : g \in Partial(m, S, x, step)
    BY <1>2
  <2>2. g \in [0 .. m -> S] /\ g[0] = x /\ \A k \in 0 .. m - 1 : g[k + 1] = step[k][g[k]]
    BY <2>1 DEF Partial
  <2> DEFINE h == [k \in 0 .. m + 1 |-> IF k = m + 1 THEN step[m][g[m]] ELSE g[k]]
  <2>3. step[m][g[m]] \in S
    BY <2>2
  <2>4. h \in [0 .. m + 1 -> S] /\ h[0] = x
    BY <2>2, <2>3
  <2>5. ASSUME NEW k \in 0 .. m PROVE h[k + 1] = step[k][h[k]]
    BY <2>2
  <2>6. h \in Partial(m + 1, S, x, step)
    <3>1. 0 .. m + 1 - 1 = 0 .. m
      OBVIOUS
    <3> HIDE DEF h
    <3> QED BY <2>4, <2>5, <3>1 DEF Partial
  <2> QED BY <2>6
<1>3. Nat \subseteq T
  <2> HIDE DEF T
  <2> QED BY <1>1, <1>2, NatInd
<1> QED BY <1>3

\* And agree with each other.
LEMMA PartialAgree ==
  ASSUME NEW S, NEW x \in S, NEW step \in [Nat -> [S -> S]], NEW n \in Nat, NEW m \in Nat,
         NEW g \in Partial(n, S, x, step), NEW h \in Partial(m, S, x, step), n <= m
  PROVE  \A k \in 0 .. n : g[k] = h[k]
<1> DEFINE T == {k \in 0 .. n : g[k] = h[k]}
<1>1. 0 \in T
  BY DEF Partial
<1>2. ASSUME NEW k \in 0 .. n - 1, k \in T PROVE k + 1 \in T
  <2>1. g[k + 1] = step[k][g[k]]
    BY DEF Partial
  <2>2. k \in 0 .. m - 1 /\ k + 1 \in 0 .. n
    OBVIOUS
  <2>3. h[k + 1] = step[k][h[k]]
    BY <2>2 DEF Partial
  <2> QED BY <1>2, <2>1, <2>2, <2>3
<1>3. 0 .. n \subseteq T
  <2> HIDE DEF T
  <2> QED BY <1>1, <1>2, UpTo
<1> QED BY <1>3

\* All of them.
Follows(f, S, x, step) ==
  f \in [Nat -> S] /\ f[0] = x /\ \A n \in Nat : f[n + 1] = step[n][f[n]]

\* There is a function with a given first value and, at each number, what step
\* makes of the value before.
LEMMA Recursion ==
  ASSUME NEW S, NEW x \in S, NEW step \in [Nat -> [S -> S]]
  PROVE  \E f : Follows(f, S, x, step)
<1> DEFINE g == [n \in Nat |-> CHOOSE p \in Partial(n, S, x, step) : TRUE]
           f == [n \in Nat |-> g[n][n]]
<1>1. ASSUME NEW n \in Nat PROVE g[n] \in Partial(n, S, x, step)
  BY PartialExists
<1> HIDE DEF g
<1>2. ASSUME NEW n \in Nat PROVE f[n] \in S
  BY <1>1 DEF Partial
<1>3. f[0] = x
  BY <1>1 DEF Partial
<1>4. ASSUME NEW n \in Nat PROVE f[n + 1] = step[n][f[n]]
  <2>1. g[n + 1][n + 1] = step[n][g[n + 1][n]]
    <3>1. g[n + 1] \in Partial(n + 1, S, x, step)
      BY <1>1
    <3>2. n \in 0 .. n + 1 - 1
      OBVIOUS
    <3>3. PICK q : q = g[n + 1]
      OBVIOUS
    <3>4. q \in Partial(n + 1, S, x, step)
      BY <3>1, <3>3
    <3>5. q[n + 1] = step[n][q[n]]
      BY <3>2, <3>4 DEF Partial
    <3> QED BY <3>3, <3>5
  <2>2. g[n][n] = g[n + 1][n]
    <3>1. g[n] \in Partial(n, S, x, step) /\ g[n + 1] \in Partial(n + 1, S, x, step)
      BY <1>1
    <3>2. n + 1 \in Nat /\ n <= n + 1 /\ n \in 0 .. n
      OBVIOUS
    <3>3. PICK p : p = g[n]
      OBVIOUS
    <3>4. PICK q : q = g[n + 1]
      OBVIOUS
    <3>5. p \in Partial(n, S, x, step) /\ q \in Partial(n + 1, S, x, step)
      BY <3>1, <3>3, <3>4
    <3>6. n \in Nat /\ n + 1 \in Nat /\ n <= n + 1
      BY <3>2
    <3>7. \A k \in 0 .. n : p[k] = q[k]
      BY <3>5, <3>6, PartialAgree
    <3> QED BY <3>2, <3>3, <3>4, <3>7
  <2>3. f[n + 1] = g[n + 1][n + 1] /\ f[n] = g[n][n]
    OBVIOUS
  <2> QED BY <2>1, <2>2, <2>3
<1>5. f \in [Nat -> S]
  BY <1>2
<1>6. Follows(f, S, x, step)
  <2> HIDE DEF f
  <2> QED BY <1>3, <1>4, <1>5 DEF Follows
<1> QED BY <1>6


\* Fewer rows are added than a generation can count.
GenFits == MaxAdds < GenMod

\* Values are told apart by what they say.
TextFaithful == \A v, w \in Values : Text[v] = Text[w] => v = w

\* The identity of an ADD is the counter it is stamped with; every clear
\* raises the floor to it.
Counted == counter = Len(issued) + 1 /\ floor <= counter /\ Len(issued) <= MaxAdds

\* A live slot carries the number of the last row added to it, and its cells.
Owned ==
  \A s \in LiveSlots :
    /\ slots[s].gen \in DOMAIN issued /\ slots[s].gen >= floor
    /\ issued[slots[s].gen] = s
    /\ \A j \in DOMAIN issued : j > slots[s].gen => issued[j] # s
    /\ cells[s] \in Rows

Keyed == \A c \in Unique, s, t \in LiveSlots : s # t => cells[s][c] # cells[t][c]

\* The rows added since the last clear, all of which are still there.
Recent == {i \in DOMAIN issued : i >= floor}
Undisturbed == \A i \in Recent : Present(i)
Rising == Undisturbed => \A i, j \in Recent : i < j => issued[i] < issued[j]

\* The links of the slots, without the one out of tail.
Succ(tail) == [s \in Slots |-> IF s = tail THEN None ELSE slots[s].gen]

\* A list from head that visits slots of F only, and none of them twice.  F
\* may have other slots, which are as unreachable as if they were not in it.
Threaded(F, head, next) ==
  /\ head \in F \union {None}
  /\ \A s \in F : next[s] \in F \union {None}
  /\ \A s \in F : next[s] # None => next[s] # head
  /\ \A s, t \in F : next[s] = next[t] /\ next[s] # None => s = t

\* The list visits all of F, from the least slot up.
Ascends(F, head, next) ==
  /\ \A t \in F : head # None /\ head <= t
  /\ \A s \in F : next[s] # None => s < next[s]
  /\ \A s, t \in F : s < t => next[s] # None /\ next[s] <= t

Above(F) == \A i \in Recent, s \in F : issued[i] < s

\* Between calls the free list is a list of dead slots.
FreeList(F) ==
  /\ F \subseteq Slots \ LiveSlots
  /\ Threaded(F, freeHead, Succ(None))
  /\ Undisturbed => Ascends(F, freeHead, Succ(None)) /\ Above(F)

\* In a shrink the list is cut in two: K is kept, R is still to be walked.
Walk(K, R) ==
  /\ K \subseteq Slots \ LiveSlots /\ R \subseteq Slots \ LiveSlots
  /\ K \intersect R = {} /\ \A s \in K : s < walk.cap
  /\ Threaded(K, walk.head, Succ(walk.tail))
  /\ Threaded(R, walk.cur, Succ(None))
  /\ walk.tail \in K \union {None}
  /\ walk.tail = None => K = {}
  /\ walk.head = None => walk.tail = None
  /\ Undisturbed =>
       /\ Ascends(K, walk.head, Succ(walk.tail)) /\ Above(K)
       /\ Ascends(R, walk.cur, Succ(None)) /\ Above(R)
       /\ \A k \in K, r \in R : k < r

Listed ==
  IF walk = None
  THEN \E F \in SUBSET Slots : FreeList(F)
  ELSE /\ \A s \in LiveSlots : s < walk.cap
       /\ \E K, R \in SUBSET Slots : Walk(K, R)

IInv == TypeOK /\ Counted /\ Owned /\ Keyed /\ Rising /\ CountExact /\ Listed

-----------------------------------------------------------------------------
(* Lists                                                                   *)

\* The rest of a list is a list.
LEMMA Pop ==
  ASSUME NEW F, NEW next, NEW head \in F, None \notin F, Threaded(F, head, next)
  PROVE  Threaded(F \ {head}, next[head], next)
BY DEF Threaded

\* What is left of a list in order is in order, above the slot it lost.
LEMMA PopAscends ==
  ASSUME NEW F \in SUBSET Nat, NEW next, NEW head \in F, Threaded(F, head, next),
         Ascends(F, head, next)
  PROVE  /\ Ascends(F \ {head}, next[head], next)
         /\ \A t \in F \ {head} : head < t
BY DEF Ascends, Threaded

\* A slot that is on no list becomes the head of one.
LEMMA Push ==
  ASSUME NEW F, NEW head, NEW next, NEW after, NEW s, s \notin F, s # None,
         Threaded(F, head, next),
         \A t \in F : after[t] = next[t], after[s] = head
  PROVE  Threaded(F \union {s}, s, after)
BY DEF Threaded

\* Or it becomes the end of one.
LEMMA PushBack ==
  ASSUME NEW K, None \notin K, NEW head, NEW tail \in K \union {None},
         NEW next, NEW after, NEW c, c \notin K, c # None,
         Threaded(K, head, next),
         tail = None => K = {}, head = None => tail = None,
         tail # None => next[tail] = None /\ after[tail] = c,
         \A t \in K \ {tail} : after[t] = next[t], after[c] = None
  PROVE  Threaded(K \union {c}, IF head = None THEN c ELSE head, after)
BY DEF Threaded

\* A slot above all of a list in order keeps it in order at its end.
LEMMA PushBackAscends ==
  ASSUME NEW K \in SUBSET Nat, None \notin K, NEW head, NEW tail \in K \union {None},
         NEW next, NEW after, NEW c \in Nat, c # None,
         Threaded(K, head, next), Ascends(K, head, next), \A k \in K : k < c,
         tail = None => K = {}, head = None => tail = None,
         tail # None => next[tail] = None /\ after[tail] = c,
         \A t \in K \ {tail} : after[t] = next[t], after[c] = None
  PROVE  Ascends(K \union {c}, IF head = None THEN c ELSE head, after)
<1> DEFINE first == IF head = None THEN c ELSE head
<1>1. \A k \in K : tail \in K /\ k <= tail
  BY DEF Ascends
<1>2. \A t \in K \union {c} : first # None /\ first <= t
  BY <1>1 DEF Ascends, Threaded
<1>3. \A s \in K \union {c} : after[s] # None => s < after[s]
  BY <1>1 DEF Ascends
<1>4. ASSUME NEW s \in K \union {c}, NEW t \in K \union {c}, s < t
      PROVE  after[s] # None /\ after[s] <= t
  <2>1. s \in K
    BY <1>4
  <2>2. CASE s = tail
    BY <1>1, <1>4, <2>1, <2>2
  <2>3. CASE s # tail
    <3>1. s < tail /\ tail \in K
      BY <1>1, <2>1, <2>3
    <3>2. next[s] # None /\ next[s] \in K /\ next[s] <= tail
      BY <2>1, <3>1 DEF Ascends, Threaded
    <3>3. CASE t \in K
      BY <1>4, <2>1, <2>3, <3>3 DEF Ascends
    <3>4. CASE t = c
      <4>1. tail < c /\ next[s] \in Nat /\ tail \in Nat
        BY <3>1, <3>2
      <4> QED BY <2>1, <2>3, <3>2, <3>4, <4>1
    <3> QED BY <1>4, <3>3, <3>4
  <2> QED BY <2>2, <2>3
<1> QED BY <1>2, <1>3, <1>4 DEF Ascends

\* A list is made of the links of its own slots.
LEMMA SameLinks ==
  ASSUME NEW F, NEW head, NEW next, NEW after, \A s \in F : after[s] = next[s]
  PROVE  /\ Threaded(F, head, next) <=> Threaded(F, head, after)
         /\ Ascends(F, head, next) <=> Ascends(F, head, after)
BY DEF Threaded, Ascends

\* The head of one list becomes the end of another.
LEMMA Moved ==
  ASSUME NEW K, NEW R, NEW h, NEW t \in K \union {None}, NEW c \in R,
         None \notin K, None \notin R, c \notin K,
         NEW next, NEW rest, NEW after, NEW left,
         t = None => K = {}, h = None => t = None,
         t # None => next[t] = None /\ after[t] = c,
         \A s \in K \ {t} : after[s] = next[s], after[c] = None,
         \A s \in R \ {c} : left[s] = rest[s],
         Threaded(K, h, next), Threaded(R, c, rest)
  PROVE  /\ Threaded(K \union {c}, IF h = None THEN c ELSE h, after)
         /\ Threaded(R \ {c}, rest[c], left)
<1>1. c # None
  OBVIOUS
<1>2. Threaded(K \union {c}, IF h = None THEN c ELSE h, after)
  BY <1>1, PushBack
<1>3. Threaded(R \ {c}, rest[c], rest)
  BY Pop
<1>4. Threaded(R \ {c}, rest[c], left)
  BY <1>3, SameLinks
<1> QED BY <1>2, <1>4

\* The cut between two lists in order moves up.
LEMMA MovedAscends ==
  ASSUME NEW K \in SUBSET Nat, NEW R \in SUBSET Nat, NEW h, NEW t \in K \union {None},
         NEW c \in R, None \notin K, None \notin R, c \notin K,
         NEW next, NEW rest, NEW after, NEW left,
         t = None => K = {}, h = None => t = None,
         t # None => next[t] = None /\ after[t] = c,
         \A s \in K \ {t} : after[s] = next[s], after[c] = None,
         \A s \in R \ {c} : left[s] = rest[s],
         Threaded(K, h, next), Threaded(R, c, rest), Ascends(K, h, next), Ascends(R, c, rest),
         \A k \in K, r \in R : k < r
  PROVE  /\ Ascends(K \union {c}, IF h = None THEN c ELSE h, after)
         /\ Ascends(R \ {c}, rest[c], left)
         /\ \A k \in K \union {c}, r \in R \ {c} : k < r
<1>1. c # None /\ c \in Nat /\ \A k \in K : k < c
  OBVIOUS
<1>2. Ascends(K \union {c}, IF h = None THEN c ELSE h, after)
  BY <1>1, PushBackAscends
<1>3. Ascends(R \ {c}, rest[c], rest) /\ \A r \in R \ {c} : c < r
  BY PopAscends
<1>4. Ascends(R \ {c}, rest[c], left)
  BY <1>3, SameLinks
<1> QED BY <1>2, <1>3, <1>4

\* FreeChain is a list of all the slots, in order.
LEMMA Chained ==
  ASSUME NEW n \in Nat, NEW next,
         \A s \in 0 .. n - 1 : next[s] = IF s + 1 < n THEN s + 1 ELSE None
  PROVE  /\ Threaded(0 .. n - 1, IF n > 0 THEN 0 ELSE None, next)
         /\ Ascends(0 .. n - 1, IF n > 0 THEN 0 ELSE None, next)
<1> USE TableAssumption, ColumnAssumption
<1>1. Threaded(0 .. n - 1, IF n > 0 THEN 0 ELSE None, next)
  BY DEF Threaded
<1>2. Ascends(0 .. n - 1, IF n > 0 THEN 0 ELSE None, next)
  BY DEF Ascends
<1> QED BY <1>1, <1>2

-----------------------------------------------------------------------------
(* Slots and rows                                                          *)

\* Slots are numbers, and a table has finitely many.
LEMMA SlotFacts ==
  ASSUME TypeOK
  PROVE  /\ Slots \subseteq Nat /\ None \notin Slots
         /\ LiveSlots \subseteq Slots /\ IsFiniteSet(LiveSlots)
<1>1. capacity \in Nat
  BY DEF TypeOK
<1>2. IsFiniteSet(Slots)
  BY <1>1, FS_Interval DEF Slots
<1>3. LiveSlots \subseteq Slots
  BY DEF LiveSlots
<1>4. Slots \subseteq Nat /\ None \notin Slots
  BY <1>1, TableAssumption, ColumnAssumption DEF Slots
<1> QED BY <1>2, <1>3, <1>4, FS_Subset

\* The i-th row is there exactly if its slot carries its number.
LEMMA PresentFacts ==
  ASSUME IInv, NEW i \in DOMAIN issued
  PROVE  Present(i) <=> issued[i] \in LiveSlots /\ slots[issued[i]].gen = i
<1>1. DOMAIN issued = 1 .. Len(issued) /\ Len(issued) \in Nat
  BY DEF IInv, TypeOK
<1>2. ASSUME issued[i] \in LiveSlots, slots[issued[i]].gen = i PROVE Present(i)
  BY <1>2 DEF IInv, Owned, Present
<1>3. ASSUME Present(i) PROVE slots[issued[i]].gen = i
  <2> DEFINE g == slots[issued[i]].gen
  <2>1. issued[i] \in LiveSlots /\ \A j \in DOMAIN issued : j > i => issued[j] # issued[i]
    BY <1>3 DEF Present
  <2>2. /\ g \in DOMAIN issued /\ issued[g] = issued[i]
        /\ \A j \in DOMAIN issued : j > g => issued[j] # issued[i]
    BY <2>1 DEF IInv, Owned
  <2>3. ~(g > i) /\ ~(i > g)
    BY <2>1, <2>2
  <2> QED BY <1>1, <2>2, <2>3
<1> QED BY <1>2, <1>3 DEF Present

\* n, S and C are the table's arrays, or longer ones with the same rows.
Extends(n, S, C) ==
  /\ n \in Nat /\ n >= capacity
  /\ S \in [0 .. n - 1 -> [gen : Links, live : BOOLEAN]]
  /\ C \in [0 .. n - 1 -> Rows \union {NoRow}]
  /\ \A s \in Slots : S[s] = slots[s] /\ C[s] = cells[s]
  /\ \A s \in 0 .. n - 1 : s \notin Slots => ~S[s].live

\* What AddReuse and AddGrow have in common.
Adds(n, S, C, slot, row) ==
  /\ Extends(n, S, C) /\ capacity' = n
  /\ slot \in 0 .. n - 1 /\ slot \notin LiveSlots
  /\ row \in Rows /\ Admits(row) /\ Stamp(slot, S, C, row)

\* The number of the new row fits in a generation.
LEMMA StampNumber ==
  ASSUME IInv, GenFits, Len(issued) < MaxAdds
  PROVE  counter % GenMod = Len(issued) + 1 /\ counter = Len(issued) + 1
<1>1. counter = Len(issued) + 1 /\ Len(issued) \in Nat
  BY DEF IInv, Counted, TypeOK
<1>2. counter \in Nat /\ GenMod \in Nat /\ counter < GenMod
  BY <1>1, TableAssumption, ColumnAssumption DEF GenFits
<1> QED BY <1>1, <1>2

\* What the variables are after an ADD.
LEMMA AddShape ==
  ASSUME IInv, GenFits, NEW n, NEW S, NEW C, NEW slot, NEW row, Adds(n, S, C, slot, row)
  PROVE  LET new == Len(issued) + 1 IN
         /\ Slots' = 0 .. n - 1 /\ Slots \subseteq Slots'
         /\ slots' \in [Slots' -> [gen : Links, live : BOOLEAN]]
         /\ cells' \in [Slots' -> Rows \union {NoRow}]
         /\ \A s \in Slots \ {slot} : slots'[s] = slots[s] /\ cells'[s] = cells[s]
         /\ slots'[slot] = [gen |-> new, live |-> TRUE] /\ cells'[slot] = row
         /\ LiveSlots' = LiveSlots \union {slot}
         /\ issued' \in Seq(Nat) /\ Len(issued') = new
         /\ DOMAIN issued = 1 .. Len(issued) /\ DOMAIN issued' = 1 .. new /\ Len(issued) \in Nat
         /\ \A i \in DOMAIN issued : issued'[i] = issued[i]
         /\ issued'[new] = slot
         /\ counter = new /\ counter' = new + 1 /\ floor' = floor /\ walk = None /\ walk' = walk
<1> DEFINE new == Len(issued) + 1
<1> USE DEF Adds, Extends
<1>1. Len(issued) < MaxAdds
  BY DEF Stamp
<1>2. counter % GenMod = new /\ counter = new /\ new \in Nat /\ Len(issued) \in Nat
  BY <1>1, StampNumber DEF IInv, TypeOK
<1>3. Slots' = 0 .. n - 1 /\ Slots \subseteq Slots'
  BY DEF Slots, IInv, TypeOK
<1>4. slots' = [S EXCEPT ![slot] = [gen |-> new, live |-> TRUE]]
  BY <1>2 DEF Stamp
<1>5. cells' = [C EXCEPT ![slot] = row]
  BY DEF Stamp
<1>6. slots' \in [Slots' -> [gen : Links, live : BOOLEAN]]
  BY <1>2, <1>3, <1>4 DEF Links
<1>7. cells' \in [Slots' -> Rows \union {NoRow}]
  BY <1>3, <1>5
<1>8. \A s \in Slots \ {slot} : slots'[s] = slots[s] /\ cells'[s] = cells[s]
  BY <1>3, <1>4, <1>5
<1>9. slots'[slot] = [gen |-> new, live |-> TRUE] /\ cells'[slot] = row
  BY <1>3, <1>4, <1>5
<1>10. LiveSlots' = LiveSlots \union {slot}
  <2>1. \A s \in Slots' \ {slot} : slots'[s] = S[s]
    BY <1>3, <1>4
  <2>2. slots'[slot].live
    BY <1>9
  <2> QED BY <1>3, <2>1, <2>2 DEF LiveSlots
<1>11. /\ issued' \in Seq(Nat) /\ Len(issued') = new
       /\ DOMAIN issued = 1 .. Len(issued) /\ DOMAIN issued' = 1 .. new
       /\ \A i \in DOMAIN issued : issued'[i] = issued[i]
       /\ issued'[new] = slot
  <2>1. issued \in Seq(Nat) /\ slot \in Nat /\ issued' = Append(issued, slot)
    BY DEF Stamp, IInv, TypeOK
  <2> QED BY <2>1
<1>12. counter' = new + 1 /\ floor' = floor /\ walk = None /\ walk' = walk
  BY <1>2 DEF Stamp, Admits
<1> QED BY <1>2, <1>3, <1>6, <1>7, <1>8, <1>9, <1>10, <1>11, <1>12

-----------------------------------------------------------------------------
(* addRow                                                                  *)

\* The slot is the new row's from now on, and the others' are theirs.
LEMMA AddOwned ==
  ASSUME IInv, GenFits, NEW n, NEW S, NEW C, NEW slot, NEW row, Adds(n, S, C, slot, row)
  PROVE  Counted' /\ Owned'
<1> DEFINE new == Len(issued) + 1
<1>1. Counted'
  BY AddShape, TableAssumption, ColumnAssumption DEF IInv, Counted, TypeOK, Adds, Stamp
<1>2. floor' <= new
  BY AddShape DEF IInv, Counted
<1>3. row \in Rows
  BY DEF Adds
<1>4. ASSUME NEW s \in LiveSlots'
      PROVE  /\ slots'[s].gen \in DOMAIN issued' /\ slots'[s].gen >= floor'
             /\ issued'[slots'[s].gen] = s
             /\ \A j \in DOMAIN issued' : j > slots'[s].gen => issued'[j] # s
             /\ cells'[s] \in Rows
  <2>1. CASE s = slot
    <3>1. slots'[s].gen = new /\ cells'[s] = row /\ issued'[new] = s /\ DOMAIN issued' = 1 .. new
          /\ new \in Nat /\ new >= 1
      BY <2>1, AddShape
    <3> QED BY <1>2, <1>3, <3>1, AddShape DEF IInv, TypeOK
  <2>2. CASE s # slot
    <3>1. s \in LiveSlots /\ s \in Slots \ {slot}
      BY <1>4, <2>2, AddShape DEF LiveSlots
    <3>2. slots'[s] = slots[s] /\ cells'[s] = cells[s]
      BY <3>1, AddShape
    <3>3. /\ slots[s].gen \in DOMAIN issued /\ slots[s].gen >= floor
          /\ issued[slots[s].gen] = s
          /\ \A j \in DOMAIN issued : j > slots[s].gen => issued[j] # s
          /\ cells[s] \in Rows
      BY <3>1 DEF IInv, Owned
    <3>4. \A j \in DOMAIN issued' : j \in DOMAIN issued \/ j = new
      BY AddShape
    <3>5. DOMAIN issued \subseteq DOMAIN issued'
      BY AddShape
    <3> QED BY <2>2, <3>2, <3>3, <3>4, <3>5, AddShape
  <2> QED BY <2>1, <2>2
<1> QED BY <1>1, <1>4 DEF Owned

\* A row that was admitted shares no key.
LEMMA AddKeyed ==
  ASSUME IInv, GenFits, NEW n, NEW S, NEW C, NEW slot, NEW row, Adds(n, S, C, slot, row)
  PROVE  Keyed'
<1>1. ASSUME NEW c \in Unique, NEW t \in LiveSlots PROVE cells[t][c] # row[c]
  <2>1. ~Taken(c, row[c], None)
    BY DEF Adds, Admits
  <2> QED BY <2>1, SlotFacts DEF Taken, IInv
<1>2. \A s \in LiveSlots : cells'[s] = cells[s]
  BY AddShape, SlotFacts DEF Adds, IInv
<1>3. LiveSlots' = LiveSlots \union {slot} /\ cells'[slot] = row
  BY AddShape
<1> QED BY <1>1, <1>2, <1>3 DEF IInv, Keyed

\* An ADD keeps the types, as long as the free list's head is a slot.
LEMMA AddTypes ==
  ASSUME IInv, GenFits, NEW n, NEW S, NEW C, NEW slot, NEW row, Adds(n, S, C, slot, row),
         freeHead' \in Slots' \union {None}
  PROVE  TypeOK'
<1>1. capacity' \in Nat
  BY DEF Adds, Extends
<1>2. counter' \in Nat /\ floor' \in Nat
  BY AddShape DEF IInv, TypeOK
<1>3. liveCount' \in Nat /\ version' \in Nat
  BY DEF Adds, Stamp, IInv, TypeOK
<1>4. slots' \in [Slots -> [gen : Links, live : BOOLEAN]]'
  BY AddShape DEF Links
<1>5. cells' \in [Slots -> Rows \union {NoRow}]'
  BY AddShape DEF Rows, NoRow
<1>6. walk' = None /\ issued' \in Seq(Nat)
  BY AddShape
<1> QED BY <1>1, <1>2, <1>3, <1>4, <1>5, <1>6 DEF TypeOK

\* liveCount goes up with the rows.
LEMMA AddCount ==
  ASSUME IInv, GenFits, NEW n, NEW S, NEW C, NEW slot, NEW row, Adds(n, S, C, slot, row)
  PROVE  CountExact'
<1>1. Cardinality(LiveSlots \union {slot}) = Cardinality(LiveSlots) + 1
  BY SlotFacts, FS_AddElement DEF Adds, IInv
<1> QED BY <1>1, AddShape DEF IInv, CountExact, Adds, Stamp

\* If all the rows since the last clear are there with the new one, they were.
LEMMA AddUndisturbed ==
  ASSUME IInv, GenFits, NEW n, NEW S, NEW C, NEW slot, NEW row, Adds(n, S, C, slot, row)
  PROVE  /\ Recent' = Recent \union {Len(issued) + 1}
         /\ Undisturbed' => Undisturbed
<1> DEFINE new == Len(issued) + 1
<1>1. floor <= new /\ new \in Nat /\ floor \in Nat
  BY AddShape DEF IInv, Counted, TypeOK
<1>2. Recent' = Recent \union {new}
  <2>1. DOMAIN issued' = DOMAIN issued \union {new}
    <3>1. DOMAIN issued = 1 .. Len(issued) /\ DOMAIN issued' = 1 .. new /\ Len(issued) \in Nat
      BY AddShape
    <3> QED BY <3>1
  <2> QED BY <1>1, <2>1, AddShape DEF Recent
<1>3. ASSUME Undisturbed', NEW i \in Recent PROVE Present(i)
  <2>1. i \in DOMAIN issued /\ i \in Recent' /\ new > i /\ new \in DOMAIN issued'
    BY <1>2, AddShape DEF Recent
  <2>2. /\ issued'[i] \in LiveSlots'
        /\ \A j \in DOMAIN issued' : j > i => issued'[j] # issued'[i]
    BY <1>3, <2>1 DEF Undisturbed, Present
  <2>3. issued'[i] # slot
    BY <2>1, <2>2, AddShape
  <2>4. issued[i] \in LiveSlots
    BY <2>1, <2>2, <2>3, AddShape
  <2>5. \A j \in DOMAIN issued : j > i => issued[j] # issued[i]
    <3>1. DOMAIN issued \subseteq DOMAIN issued'
      BY AddShape
    <3> QED BY <2>1, <2>2, <3>1, AddShape
  <2> QED BY <2>4, <2>5 DEF Present
<1> QED BY <1>2, <1>3 DEF Undisturbed

\* The order is kept by a slot above those handed out since the last clear.
LEMMA AddRising ==
  ASSUME IInv, GenFits, NEW n, NEW S, NEW C, NEW slot, NEW row, Adds(n, S, C, slot, row),
         NEW F, slot \notin F, Undisturbed => Above({slot}) /\ Above(F) /\ \A t \in F : slot < t
  PROVE  /\ Rising'
         /\ Undisturbed' => Above(F)'
<1> DEFINE new == Len(issued) + 1
<1> SUFFICES ASSUME Undisturbed'
             PROVE  /\ \A i, j \in Recent' : i < j => issued'[i] < issued'[j]
                    /\ \A i \in Recent', t \in F : issued'[i] < t
  BY DEF Rising, Above
<1>1. Undisturbed /\ Recent' = Recent \union {new}
  BY AddUndisturbed
<1>2. \A i \in Recent : issued'[i] = issued[i] /\ issued[i] < slot /\ i < new
  BY <1>1, AddShape DEF Above, Recent
<1>3. \A i, j \in Recent : i < j => issued[i] < issued[j]
  BY <1>1 DEF IInv, Rising
<1>4. issued'[new] = slot
  BY AddShape
<1>5. \A i \in Recent : i \in Nat /\ new \in Nat
  BY AddShape DEF Recent
<1>6. \A i, j \in Recent' : i < j => issued'[i] < issued'[j]
  BY <1>1, <1>2, <1>3, <1>4, <1>5
<1>7. \A i \in Recent', t \in F : issued'[i] < t
  BY <1>1, <1>2, <1>4 DEF Above
<1> QED BY <1>6, <1>7

\* A step that changes no live slot and adds no row.
Quiet ==
  /\ LiveSlots' = LiveSlots /\ \A s \in LiveSlots : slots'[s] = slots[s]
  /\ UNCHANGED <<issued, counter, floor, liveCount>>

\* Rows, their number and their order are as they were.
LEMMA QuietFacts ==
  ASSUME IInv, Quiet
  PROVE  /\ Counted' /\ CountExact' /\ Rising'
         /\ Undisturbed' <=> Undisturbed
         /\ \A F : Above(F)' <=> Above(F)
<1>1. Recent' = Recent
  BY DEF Quiet, Recent
<1>2. \A i : Present(i)' <=> Present(i)
  BY DEF Quiet, Present
<1>3. Undisturbed' <=> Undisturbed
  BY <1>1, <1>2 DEF Undisturbed
<1>4. \A F : Above(F)' <=> Above(F)
  BY <1>1 DEF Above, Quiet
<1>5. Rising'
  BY <1>1, <1>3 DEF Rising, Quiet, IInv
<1> QED BY <1>3, <1>4, <1>5 DEF IInv, Quiet, Counted, CountExact

\* If it leaves their cells alone as well, only the lists are left to look at.
Silent == Quiet /\ (\A s \in LiveSlots : cells'[s] = cells[s]) /\ version' = version

\* And so are keys and the owners of slots.
LEMMA SilentFacts ==
  ASSUME IInv, Silent
  PROVE  /\ Counted' /\ CountExact' /\ Rising' /\ Owned' /\ Keyed'
         /\ Undisturbed' <=> Undisturbed
         /\ \A F : Above(F)' <=> Above(F)
<1>1. Owned' /\ Keyed'
  BY DEF IInv, Silent, Quiet, Owned, Keyed, Rows
<1> QED BY <1>1, QuietFacts DEF Silent

\* Between calls there is a free list.
LEMMA PickFreeList == ASSUME IInv, walk = None PROVE \E F \in SUBSET Slots : FreeList(F)
BY DEF IInv, Listed

\* An ADD that reuses a slot takes a dead one.
LEMMA ReuseAdds ==
  ASSUME IInv, NEW row \in Rows, AddReuse(row)
  PROVE  Adds(capacity, slots, cells, freeHead, row)
<1>1. PICK F \in SUBSET Slots : FreeList(F)
  BY PickFreeList DEF AddReuse, Admits
<1>2. freeHead \in Slots \ LiveSlots
  BY <1>1 DEF FreeList, Threaded, AddReuse
<1>3. Extends(capacity, slots, cells)
  BY DEF Extends, IInv, TypeOK, Slots
<1> QED BY <1>2, <1>3 DEF Adds, AddReuse, Slots

\* The free list loses its head to the row.
LEMMA AddReuseInv ==
  ASSUME IInv, GenFits, NEW row \in Rows, AddReuse(row)
  PROVE  IInv'
<1>1. walk = None /\ walk' = None /\ freeHead # None /\ freeHead' = slots[freeHead].gen
  BY DEF AddReuse, Admits, Stamp
<1>2. PICK F \in SUBSET Slots : FreeList(F)
  BY <1>1, PickFreeList
<1>3. freeHead \in F /\ freeHead \in Slots \ LiveSlots /\ None \notin F /\ F \in SUBSET Nat
  BY <1>1, <1>2, SlotFacts DEF FreeList, Threaded, IInv
<1>4. Adds(capacity, slots, cells, freeHead, row)
  BY ReuseAdds
<1> PICK G : G = F \ {freeHead}
  OBVIOUS
<1> DEFINE next == Succ(None)
<1>5. next[freeHead] = freeHead'
  BY <1>1, <1>3, SlotFacts DEF Succ, IInv
<1>6. Threaded(G, freeHead', next)
  BY <1>2, <1>3, <1>5, Pop DEF FreeList
<1>7. Undisturbed => Ascends(G, freeHead', next) /\ \A t \in G : freeHead < t
  BY <1>2, <1>3, <1>5, PopAscends DEF FreeList
<1>8. \A s \in G : Succ(None)'[s] = next[s]
  BY <1>2, <1>4, AddShape DEF Succ
<1>9. Undisturbed => Above({freeHead}) /\ Above(G)
  BY <1>2, <1>3 DEF FreeList, Above
<1>10. Undisturbed' => Undisturbed /\ Above(G)'
  BY <1>4, <1>7, <1>9, AddUndisturbed, AddRising
<1>11. Rising'
  BY <1>4, <1>7, <1>9, AddRising
<1>12. FreeList(G)'
  <2>1. Threaded(G, freeHead, Succ(None))' /\ (Undisturbed' => Ascends(G, freeHead, Succ(None))')
    BY <1>6, <1>7, <1>8, <1>10, SameLinks
  <2>2. G \subseteq Slots' \ LiveSlots'
    BY <1>2, <1>4, AddShape DEF FreeList
  <2> QED BY <1>10, <2>1, <2>2 DEF FreeList
<1>13. Listed'
  <2>1. G \in SUBSET Slots'
    BY <1>4, AddShape
  <2> QED BY <1>1, <1>12, <2>1 DEF Listed
<1>14. TypeOK'
  <2>1. freeHead' \in Slots' \union {None}
    BY <1>4, <1>6, AddShape DEF Threaded
  <2> QED BY <1>4, <2>1, AddTypes
<1> QED BY <1>4, <1>11, <1>13, <1>14, AddOwned, AddKeyed, AddCount DEF IInv

\* Rows that are there are in slots below the capacity.
LEMMA BelowCapacity == ASSUME IInv, Undisturbed PROVE Above({capacity})
BY SlotFacts DEF IInv, TypeOK, Undisturbed, Present, Above, LiveSlots, Slots

\* The arrays grow without touching a row.
LEMMA GrownExtends ==
  ASSUME TypeOK
  PROVE  /\ Extends(GrownCapacity, GrownSlots, GrownCells)
         /\ capacity \in 0 .. GrownCapacity - 1 /\ GrownCapacity \in Nat
<1>1. capacity \in Nat /\ GrownCapacity \in Nat /\ GrownCapacity > capacity
  BY DEF TypeOK, GrownCapacity
<1>2. GrownSlots \in [0 .. GrownCapacity - 1 -> [gen : Links, live : BOOLEAN]]
  BY DEF GrownSlots, TypeOK, Links
<1>3. GrownCells \in [0 .. GrownCapacity - 1 -> Rows \union {NoRow}]
  BY DEF GrownCells, TypeOK
<1>4. Slots \subseteq 0 .. GrownCapacity - 1
  BY <1>1 DEF Slots
<1>5. \A s \in Slots : GrownSlots[s] = slots[s] /\ GrownCells[s] = cells[s]
  BY <1>4 DEF GrownSlots, GrownCells
<1>6. \A s \in 0 .. GrownCapacity - 1 : s \notin Slots => ~GrownSlots[s].live
  BY DEF GrownSlots
<1> QED BY <1>1, <1>2, <1>3, <1>5, <1>6 DEF Extends

\* An ADD that grows the table takes the first slot beyond it.
LEMMA GrowAdds ==
  ASSUME IInv, NEW row \in Rows, AddGrow(row)
  PROVE  Adds(GrownCapacity, GrownSlots, GrownCells, capacity, row) /\ capacity \notin Slots
<1>1. capacity \notin Slots /\ capacity \notin LiveSlots
  BY SlotFacts DEF Slots, IInv, TypeOK
<1> QED BY <1>1, GrownExtends DEF Adds, AddGrow, IInv

\* The free list stays empty; the other new slots are on no list.
LEMMA AddGrowInv ==
  ASSUME IInv, GenFits, NEW row \in Rows, AddGrow(row)
  PROVE  IInv'
<1>1. walk = None /\ walk' = None /\ freeHead = None /\ freeHead' = None
  BY DEF AddGrow, Admits, Stamp
<1>2. PICK F \in SUBSET Slots : FreeList(F)
  BY <1>1, PickFreeList
<1>3. capacity \notin Slots /\ capacity \notin F
  BY <1>2, GrowAdds
<1>4. Adds(GrownCapacity, GrownSlots, GrownCells, capacity, row)
  BY GrowAdds
<1>5. Undisturbed => F = {}
  BY <1>1, <1>2 DEF FreeList, Ascends
<1>6. Undisturbed => Above({capacity}) /\ Above(F) /\ \A t \in F : capacity < t
  BY <1>2, <1>5, BelowCapacity DEF FreeList
<1>7. Rising' /\ (Undisturbed' => Undisturbed /\ Above(F)')
  BY <1>3, <1>4, <1>6, AddRising, AddUndisturbed
<1>8. \A s \in F : Succ(None)'[s] = Succ(None)[s]
  BY <1>2, <1>3, <1>4, AddShape DEF Succ
<1>9. FreeList(F)'
  <2>1. Threaded(F, freeHead, Succ(None))' /\ (Undisturbed' => Ascends(F, freeHead, Succ(None))')
    BY <1>1, <1>2, <1>7, <1>8, SameLinks DEF FreeList
  <2>2. F \subseteq Slots' \ LiveSlots'
    BY <1>2, <1>3, <1>4, AddShape DEF FreeList
  <2> QED BY <1>7, <2>1, <2>2 DEF FreeList
<1>10. Listed'
  <2>1. F \in SUBSET Slots'
    BY <1>2, <1>4, AddShape
  <2> QED BY <1>1, <1>9, <2>1 DEF Listed
<1>11. TypeOK'
  BY <1>1, <1>4, AddTypes
<1> QED BY <1>4, <1>7, <1>10, <1>11, AddOwned, AddKeyed, AddCount DEF IInv

\* The slot an exhausted ADD has taken off the list is lost, no more.
LEMMA AddExhaustedInv ==
  ASSUME IInv, NEW row \in Rows, AddExhausted(row)
  PROVE  IInv' /\ Silent
<1>1. walk = None /\ walk' = None
  BY DEF AddExhausted, Admits
<1>2. PICK F \in SUBSET Slots : FreeList(F)
  BY <1>1, PickFreeList
<1>3. CASE freeHead # None /\ freeHead' = slots[freeHead].gen /\ UNCHANGED <<capacity, slots, cells>>
  <2>1. Silent
    BY <1>3 DEF Silent, Quiet, AddExhausted, LiveSlots, Slots
  <2>2. freeHead \in F /\ None \notin F /\ F \in SUBSET Nat
    BY <1>2, <1>3, SlotFacts DEF FreeList, Threaded, IInv
  <2> PICK G : G = F \ {freeHead}
    OBVIOUS
  <2> DEFINE next == Succ(None)
  <2>3. next[freeHead] = freeHead'
    BY <1>2, <1>3, <2>2, SlotFacts DEF Succ, IInv
  <2>4. Threaded(G, freeHead', next)
    BY <1>2, <2>2, <2>3, Pop DEF FreeList
  <2>5. Undisturbed => Ascends(G, freeHead', next) /\ Above(G)
    BY <1>2, <2>2, <2>3, PopAscends DEF FreeList, Above
  <2>6. Succ(None)' = next /\ Slots' = Slots /\ LiveSlots' = LiveSlots
    BY <1>3 DEF Succ, Slots, LiveSlots
  <2>7. FreeList(G)'
    <3>1. Threaded(G, freeHead, Succ(None))'
      BY <2>4, <2>6
    <3>2. Undisturbed' => Ascends(G, freeHead, Succ(None))' /\ Above(G)'
      BY <2>1, <2>5, <2>6, SilentFacts
    <3>3. G \subseteq Slots' \ LiveSlots'
      BY <1>2, <2>6 DEF FreeList
    <3> QED BY <3>1, <3>2, <3>3 DEF FreeList
  <2>8. Listed'
    BY <1>1, <1>2, <2>6, <2>7 DEF Listed
  <2>9. TypeOK'
    <3>1. freeHead' \in Slots' \union {None}
      BY <1>2, <2>4, <2>6 DEF Threaded
    <3> QED BY <1>1, <1>3, <2>6, <3>1 DEF TypeOK, IInv, AddExhausted, Rows, NoRow, Links
  <2> QED BY <2>1, <2>8, <2>9, SilentFacts DEF IInv
<1>4. CASE /\ freeHead = None /\ capacity' = GrownCapacity /\ slots' = GrownSlots
           /\ cells' = GrownCells /\ UNCHANGED freeHead
  <2>1. Extends(GrownCapacity, GrownSlots, GrownCells) /\ Slots' = 0 .. GrownCapacity - 1
    BY <1>4, GrownExtends DEF IInv, Slots
  <2>2. Slots \subseteq Slots'
    BY <2>1 DEF Extends, Slots, IInv, TypeOK
  <2>3. Silent
    BY <1>4, <2>1, <2>2 DEF Silent, Quiet, AddExhausted, LiveSlots, Extends
  <2>4. \A s \in F : Succ(None)'[s] = Succ(None)[s]
    BY <1>2, <1>4, <2>1, <2>2 DEF Succ, Extends
  <2>5. FreeList(F)'
    <3>1. Threaded(F, freeHead, Succ(None))'
      BY <1>2, <1>4, <2>4, SameLinks DEF FreeList
    <3>2. Undisturbed' => Ascends(F, freeHead, Succ(None))' /\ Above(F)'
      BY <1>2, <1>4, <2>3, <2>4, SameLinks, SilentFacts DEF FreeList
    <3>3. F \subseteq Slots' \ LiveSlots'
      BY <1>2, <2>2, <2>3 DEF FreeList, Silent, Quiet
    <3> QED BY <3>1, <3>2, <3>3 DEF FreeList
  <2>6. Listed'
    BY <1>1, <1>2, <2>2, <2>5 DEF Listed
  <2>7. TypeOK'
    <3>1. capacity' \in Nat /\ freeHead' \in Slots' \union {None}
      BY <1>4, <2>1 DEF Extends
    <3>2. slots' \in [Slots -> [gen : Links, live : BOOLEAN]]'
      BY <1>4, <2>1 DEF Extends, Links
    <3>3. cells' \in [Slots -> Rows \union {NoRow}]'
      BY <1>4, <2>1 DEF Extends, Rows, NoRow
    <3> QED BY <1>1, <3>1, <3>2, <3>3 DEF TypeOK, IInv, AddExhausted
  <2> QED BY <2>3, <2>6, <2>7, SilentFacts DEF IInv
<1> QED BY <1>3, <1>4 DEF AddExhausted

-----------------------------------------------------------------------------
(* removeRow, clear, setCell                                               *)

\* The slot of a removed row becomes the head of the free list.
LEMMA RemoveRowInv ==
  ASSUME IInv, NEW slot \in Slots, RemoveRow(slot)
  PROVE  IInv'
<1>1. /\ walk = None /\ walk' = None /\ slot \in LiveSlots /\ freeHead' = slot
      /\ capacity' = capacity /\ cells' = cells /\ counter' = counter /\ floor' = floor
      /\ issued' = issued
  BY DEF RemoveRow
<1>2. /\ slots' \in [Slots -> [gen : Links, live : BOOLEAN]]
      /\ slots'[slot] = [gen |-> freeHead, live |-> FALSE]
      /\ \A s \in Slots \ {slot} : slots'[s] = slots[s]
  <2>1. freeHead \in Links /\ slots \in [Slots -> [gen : Links, live : BOOLEAN]]
    BY SlotFacts DEF IInv, TypeOK, Links
  <2> QED BY <2>1 DEF RemoveRow
<1>3. Slots' = Slots /\ LiveSlots' = LiveSlots \ {slot}
  BY <1>1, <1>2 DEF Slots, LiveSlots
<1>4. PICK F \in SUBSET Slots : FreeList(F)
  BY <1>1, PickFreeList
<1>5. slot \notin F /\ slot # None
  BY <1>1, <1>4, SlotFacts DEF FreeList, IInv
<1>6. Owned' /\ Keyed'
  BY <1>1, <1>2, <1>3, SlotFacts DEF IInv, Owned, Keyed, Rows
<1>7. ~Undisturbed'
  <2> DEFINE g == slots[slot].gen
  <2>1. g \in DOMAIN issued /\ g >= floor /\ issued[g] = slot
    BY <1>1 DEF IInv, Owned
  <2>2. g \in Recent'
    BY <1>1, <2>1 DEF Recent
  <2>3. issued'[g] \notin LiveSlots'
    BY <1>1, <1>3, <2>1
  <2> QED BY <2>2, <2>3 DEF Undisturbed, Present
<1>8. FreeList(F \union {slot})'
  <2> PICK G : G = F \union {slot}
    OBVIOUS
  <2>1. \A t \in F : Succ(None)'[t] = Succ(None)[t]
    BY <1>2, <1>3, <1>4, <1>5 DEF Succ
  <2>2. Succ(None)'[slot] = freeHead
    BY <1>2, <1>3, <1>5 DEF Succ
  <2>3. Threaded(G, slot, Succ(None)')
    BY <1>4, <1>5, <2>1, <2>2, Push DEF FreeList
  <2>4. G \subseteq Slots' \ LiveSlots'
    BY <1>3, <1>4 DEF FreeList
  <2> QED BY <1>1, <1>7, <2>3, <2>4 DEF FreeList
<1>9. Listed'
  BY <1>1, <1>3, <1>4, <1>8 DEF Listed
<1>10. CountExact' /\ liveCount' \in Nat
  <2>1. /\ Cardinality(LiveSlots \ {slot}) = Cardinality(LiveSlots) - 1
        /\ Cardinality(LiveSlots) \in Nat /\ Cardinality(LiveSlots \ {slot}) \in Nat
    BY <1>1, SlotFacts, FS_RemoveElement, FS_CardinalityType DEF IInv
  <2> QED BY <1>3, <2>1 DEF IInv, CountExact, RemoveRow
<1>11. TypeOK'
  BY <1>1, <1>2, <1>3, <1>10 DEF TypeOK, IInv, RemoveRow, Rows, NoRow, Links
<1>12. Counted' /\ Rising'
  BY <1>1, <1>7 DEF IInv, Counted, Rising
<1> QED BY <1>6, <1>9, <1>10, <1>11, <1>12 DEF IInv

\* A clear leaves nothing live, and the whole of the slots on the list.
LEMMA ClearRowsInv ==
  ASSUME IInv, ClearRows
  PROVE  IInv'
<1>1. /\ walk = None /\ walk' = None /\ floor' = counter /\ slots' = FreeChain(capacity)
      /\ freeHead' = (IF capacity > 0 THEN 0 ELSE None) /\ liveCount' = 0
      /\ capacity' = capacity /\ cells' = cells /\ counter' = counter /\ issued' = issued
  BY DEF ClearRows
<1>2. Slots' = Slots /\ LiveSlots' = {} /\ capacity \in Nat
  BY <1>1 DEF Slots, LiveSlots, FreeChain, IInv, TypeOK
<1>3. Recent' = {}
  BY <1>1 DEF Recent, IInv, Counted, TypeOK
<1>4. \A s \in 0 .. capacity - 1 :
        Succ(None)'[s] = IF s + 1 < capacity THEN s + 1 ELSE None
  BY <1>1, <1>2, SlotFacts DEF Succ, FreeChain, IInv, Slots
<1>5. FreeList(Slots)'
  <2>1. Threaded(Slots, freeHead, Succ(None))' /\ Ascends(Slots, freeHead, Succ(None))'
    BY <1>1, <1>2, <1>4, Chained DEF Slots
  <2> QED BY <1>2, <1>3, <2>1 DEF FreeList, Above
<1>6. Listed'
  BY <1>1, <1>5 DEF Listed
<1>7. CountExact'
  BY <1>1, <1>2, FS_EmptySet DEF CountExact
<1>8. TypeOK'
  <2>1. slots' \in [Slots -> [gen : Links, live : BOOLEAN]]'
    BY <1>1, <1>2 DEF FreeChain, Slots, Links
  <2>2. freeHead' \in Slots' \union {None}
    BY <1>1, <1>2 DEF Slots
  <2> QED BY <1>1, <1>2, <2>1, <2>2 DEF TypeOK, IInv, ClearRows, Rows, NoRow
<1>9. Counted' /\ Owned' /\ Keyed' /\ Rising'
  BY <1>1, <1>2, <1>3 DEF IInv, Counted, Owned, Keyed, Rising, TypeOK
<1> QED BY <1>6, <1>7, <1>8, <1>9 DEF IInv

\* A write changes a cell of a row, and no list.
LEMMA SetCellInv ==
  ASSUME IInv, NEW slot \in Slots, NEW c \in Columns, NEW v \in Values, SetCell(slot, c, v)
  PROVE  IInv'
<1>1. /\ walk = None /\ walk' = None /\ slot \in LiveSlots
      /\ c \in Unique => ~Taken(c, v, slot)
      /\ UNCHANGED <<capacity, slots, freeHead, counter, floor, liveCount, version, issued>>
  BY DEF SetCell
<1>2. Quiet
  BY <1>1 DEF Quiet, LiveSlots, Slots
<1>3. cells[slot] \in Rows
  BY <1>1 DEF IInv, Owned
<1>4. /\ cells' \in [Slots -> Rows \union {NoRow}] /\ cells'[slot] \in Rows
      /\ \A s \in Slots \ {slot} : cells'[s] = cells[s]
      /\ \A d \in Columns : cells'[slot][d] = IF d = c THEN v ELSE cells[slot][d]
  <2>1. cells' = [cells EXCEPT ![slot][c] = v] /\ cells \in [Slots -> Rows \union {NoRow}]
    BY DEF SetCell, IInv, TypeOK
  <2>2. [cells[slot] EXCEPT ![c] = v] \in Rows
    BY <1>3 DEF Rows
  <2> QED BY <1>3, <2>1, <2>2 DEF Rows
<1>5. TypeOK'
  BY <1>1, <1>4 DEF TypeOK, IInv, Slots, Rows, NoRow, Links
<1>6. LiveSlots' = LiveSlots /\ LiveSlots \subseteq Slots
  BY <1>2 DEF Quiet, LiveSlots
<1>7. Owned'
  BY <1>1, <1>4, <1>6 DEF IInv, Owned, Rows
<1>8. Keyed'
  <2> SUFFICES ASSUME NEW d \in Unique, NEW s \in LiveSlots, NEW t \in LiveSlots, s # t
               PROVE  cells'[s][d] # cells'[t][d]
    BY <1>6 DEF Keyed
  <2>1. d \in Columns /\ cells[s][d] # cells[t][d]
    BY TableAssumption, ColumnAssumption DEF IInv, Keyed
  <2>2. d = c => \A r \in LiveSlots \ {slot} : cells[r][c] # v
    BY <1>1 DEF Taken
  <2> QED BY <1>4, <1>6, <2>1, <2>2
<1>9. Listed'
  <2>1. PICK F \in SUBSET Slots : FreeList(F)
    BY <1>1, PickFreeList
  <2>2. Slots' = Slots /\ Succ(None)' = Succ(None) /\ freeHead' = freeHead
    BY <1>1 DEF Slots, Succ
  <2>3. FreeList(F)'
    BY <1>2, <1>6, <2>1, <2>2, QuietFacts DEF FreeList
  <2> QED BY <1>1, <2>2, <2>3 DEF Listed
<1> QED BY <1>2, <1>5, <1>7, <1>8, <1>9, QuietFacts DEF IInv

-----------------------------------------------------------------------------
(* shrink                                                                  *)

\* A walk is never taken for the absence of one.
LEMMA WalkNotNone ==
  ASSUME TypeOK, NEW w \in [cap : 0 .. capacity, cur : Slots \union {None},
                            head : Slots \union {None}, tail : Slots \union {None}]
  PROVE  w # None
BY SlotFacts, TableAssumption, ColumnAssumption DEF TypeOK, Links

\* In the loop the walk says where the slots that are kept end.
LEMMA PickWalk ==
  ASSUME IInv, walk # None
  PROVE  /\ walk \in [cap : 0 .. capacity, cur : Slots \union {None},
                      head : Slots \union {None}, tail : Slots \union {None}]
         /\ \A s \in LiveSlots : s < walk.cap
         /\ \E K, R \in SUBSET Slots : Walk(K, R)
BY DEF IInv, TypeOK, Listed

\* At the start nothing has been walked yet.
LEMMA ShrinkStartInv ==
  ASSUME IInv, ShrinkStart
  PROVE  IInv' /\ Silent
<1>1. PICK cap \in 0 .. capacity - 1 :
        /\ \A s \in LiveSlots : s < cap
        /\ walk' = [cap |-> cap, cur |-> freeHead, head |-> None, tail |-> None]
  BY DEF ShrinkStart
<1>2. /\ walk = None
      /\ UNCHANGED <<capacity, slots, cells, freeHead, counter, floor, liveCount, version, issued>>
  BY DEF ShrinkStart
<1>3. Silent /\ Slots' = Slots /\ Succ(None)' = Succ(None)
  BY <1>2 DEF Silent, Quiet, LiveSlots, Slots, Succ
<1>4. PICK F \in SUBSET Slots : FreeList(F)
  BY <1>2, PickFreeList
<1>5. walk'.cap = cap /\ walk'.cur = freeHead /\ walk'.head = None /\ walk'.tail = None
  BY <1>1
<1>6. TypeOK' /\ walk' # None
  <2>1. walk' \in [cap : 0 .. capacity, cur : Slots \union {None},
                   head : Slots \union {None}, tail : Slots \union {None}]
    BY <1>1 DEF IInv, TypeOK
  <2>2. walk' # None
    BY <2>1, WalkNotNone DEF IInv
  <2> QED BY <1>2, <1>3, <2>1, <2>2 DEF TypeOK, IInv, Rows, NoRow, Links
<1>7. Walk({}, F)'
  <2>1. F \subseteq Slots' \ LiveSlots'
    BY <1>3, <1>4 DEF FreeList, Silent, Quiet
  <2>2. Threaded(F, walk.cur, Succ(None))'
    BY <1>3, <1>4, <1>5 DEF FreeList
  <2>3. Undisturbed' => Ascends(F, walk.cur, Succ(None))' /\ Above(F)'
    BY <1>3, <1>4, <1>5, SilentFacts DEF FreeList
  <2>4. Threaded({}, walk.head, Succ(walk.tail))' /\ Ascends({}, walk.head, Succ(walk.tail))'
    BY <1>5 DEF Threaded, Ascends
  <2> QED BY <1>5, <2>1, <2>2, <2>3, <2>4 DEF Walk, Above
<1>8. Listed'
  BY <1>1, <1>3, <1>4, <1>5, <1>6, <1>7 DEF Listed, Silent, Quiet
<1> QED BY <1>2, <1>3, <1>6, <1>8, SilentFacts DEF IInv

\* The turn of the loop that keeps a slot moves it from one part to the other.
LEMMA ShrinkKeepInv ==
  ASSUME IInv, ShrinkKeep
  PROVE  IInv' /\ Silent
<1>1. /\ walk # None /\ walk.cur # None /\ walk.cur < walk.cap
      /\ slots' = (IF walk.tail = None THEN slots ELSE [slots EXCEPT ![walk.tail].gen = walk.cur])
      /\ UNCHANGED <<capacity, cells, freeHead, counter, floor, liveCount, version, issued>>
  BY DEF ShrinkKeep
<1>2. walk \in [cap : 0 .. capacity, cur : Slots \union {None},
                head : Slots \union {None}, tail : Slots \union {None}]
      /\ \A s \in LiveSlots : s < walk.cap
  BY <1>1, PickWalk
<1>3. PICK K \in SUBSET Slots, R \in SUBSET Slots : Walk(K, R)
  BY <1>1, PickWalk
<1>c. PICK c : c = walk.cur
  OBVIOUS
<1>t. PICK t : t = walk.tail
  OBVIOUS
<1>h. PICK h : h = walk.head
  OBVIOUS
<1>l. PICK L : L = K \union {c}
  OBVIOUS
<1>g. PICK G : G = R \ {c}
  OBVIOUS
<1>4. /\ c \in R /\ c \notin K /\ c \in Slots \ LiveSlots /\ c \in Nat /\ c # None
      /\ None \notin R /\ None \notin K /\ K \in SUBSET Nat /\ R \in SUBSET Nat
      /\ t \in K \union {None} /\ (t = None => K = {}) /\ (h = None => t = None)
  BY <1>1, <1>3, <1>c, <1>t, <1>h, SlotFacts DEF Walk, Threaded, IInv
<1>5. /\ slots \in [Slots -> [gen : Links, live : BOOLEAN]]
      /\ slots' \in [Slots -> [gen : Links, live : BOOLEAN]]
      /\ \A s \in Slots \ {t} : slots'[s] = slots[s]
      /\ t # None => slots'[t].gen = c /\ slots'[t].live = slots[t].live
  <2>1. slots \in [Slots -> [gen : Links, live : BOOLEAN]]
    BY DEF IInv, TypeOK
  <2>2. c \in Links
    BY <1>4 DEF Links
  <2>3. t # None => t \in Slots
    BY <1>2, <1>t
  <2> QED BY <1>1, <1>c, <1>t, <2>1, <2>2, <2>3
<1>6. Slots' = Slots /\ LiveSlots' = LiveSlots
  BY <1>1, <1>3, <1>4, <1>5 DEF Slots, LiveSlots
<1>7. Silent
  BY <1>1, <1>3, <1>4, <1>5, <1>6 DEF Silent, Quiet, Walk, LiveSlots
<1>8. /\ walk' = [walk EXCEPT !.cur = slots[c].gen, !.head = IF h = None THEN c ELSE h, !.tail = c]
      /\ walk'.cap = walk.cap /\ walk'.cur = slots[c].gen /\ walk'.tail = c
      /\ walk'.head = IF h = None THEN c ELSE h
  BY <1>2, <1>c, <1>h DEF ShrinkKeep
<1>ns. PICK next : next = Succ(t)
  OBVIOUS
<1>rs. PICK rest : rest = Succ(None)
  OBVIOUS
<1>as. PICK after : after = Succ(c)'
  OBVIOUS
<1>ls. PICK left : left = Succ(None)'
  OBVIOUS
<1>9. /\ \A s \in Slots : next[s] = IF s = t THEN None ELSE slots[s].gen
      /\ \A s \in Slots : rest[s] = slots[s].gen
      /\ \A s \in Slots : after[s] = IF s = c THEN None ELSE slots'[s].gen
      /\ \A s \in Slots : left[s] = slots'[s].gen
  BY <1>6, <1>ns, <1>rs, <1>as, <1>ls, SlotFacts DEF Succ, IInv
<1>10. /\ t # None => next[t] = None /\ after[t] = c
       /\ \A s \in K \ {t} : after[s] = next[s]
       /\ after[c] = None
       /\ \A s \in R \ {c} : left[s] = rest[s]
  <2>1. K \intersect R = {} /\ K \subseteq Slots /\ R \subseteq Slots
    BY <1>3 DEF Walk
  <2>2. t # None => t \in K /\ t \in Slots /\ t # c
    BY <1>4, <2>1
  <2>3. t # None => next[t] = None /\ after[t] = c
    BY <1>5, <1>9, <2>2
  <2>4. \A s \in K \ {t} : after[s] = next[s]
    BY <1>4, <1>5, <1>9, <2>1
  <2>5. after[c] = None
    BY <1>4, <1>9
  <2>6. \A s \in R \ {c} : s # t
    BY <1>4, <2>1
  <2>7. \A s \in R \ {c} : left[s] = rest[s]
    BY <1>5, <1>9, <2>1, <2>6
  <2> QED BY <2>3, <2>4, <2>5, <2>7
<1>11. Threaded(K, h, next) /\ Threaded(R, c, rest)
  BY <1>3, <1>c, <1>t, <1>h, <1>ns, <1>rs DEF Walk
<1>12. rest[c] = walk'.cur
  BY <1>4, <1>8, <1>9
<1>13. Threaded(L, walk'.head, after) /\ Threaded(G, walk'.cur, left)
  <2>1. /\ Threaded(K \union {c}, IF h = None THEN c ELSE h, after)
        /\ Threaded(R \ {c}, rest[c], left)
    BY <1>4, <1>10, <1>11, Moved
  <2> QED BY <1>8, <1>12, <1>l, <1>g, <2>1
<1>14. ASSUME Undisturbed
       PROVE  /\ Ascends(L, walk'.head, after) /\ Above(L)
              /\ Ascends(G, walk'.cur, left) /\ Above(G)
              /\ \A k \in L, r \in G : k < r
  <2>1. /\ Ascends(K, h, next) /\ Ascends(R, c, rest) /\ Above(K) /\ Above(R)
        /\ \A k \in K, r \in R : k < r
    BY <1>3, <1>14, <1>c, <1>t, <1>h, <1>ns, <1>rs DEF Walk
  <2>2. /\ Ascends(L, walk'.head, after) /\ Ascends(G, walk'.cur, left)
        /\ \A k \in L, r \in G : k < r
    <3>1. /\ Ascends(K \union {c}, IF h = None THEN c ELSE h, after)
          /\ Ascends(R \ {c}, rest[c], left)
          /\ \A k \in K \union {c}, r \in R \ {c} : k < r
      BY <1>4, <1>10, <1>11, <2>1, MovedAscends
    <3> QED BY <1>8, <1>12, <1>l, <1>g, <3>1
  <2>3. Above(L) /\ Above(G)
    BY <1>4, <1>l, <1>g, <2>1 DEF Above
  <2> QED BY <2>2, <2>3
<1>15. Walk(L, G)'
  <2>1. L \subseteq Slots' \ LiveSlots' /\ G \subseteq Slots' \ LiveSlots' /\ L \intersect G = {}
    BY <1>3, <1>4, <1>6, <1>l, <1>g DEF Walk
  <2>2. \A s \in L : s < walk'.cap
    BY <1>1, <1>3, <1>8, <1>c, <1>l DEF Walk
  <2>3. walk'.tail \in L /\ walk'.tail # None /\ Succ(walk.tail)' = after
    BY <1>4, <1>8, <1>l, <1>as
  <2>4. Undisturbed' =>
          /\ Ascends(L, walk'.head, after) /\ Above(L)'
          /\ Ascends(G, walk'.cur, left) /\ Above(G)'
          /\ \A k \in L, r \in G : k < r
    BY <1>7, <1>14, SilentFacts
  <2>5. walk'.head # None
    BY <1>4, <1>8
  <2> QED BY <1>ls, <1>13, <2>1, <2>2, <2>3, <2>4, <2>5 DEF Walk
<1>16. TypeOK' /\ walk' # None
  <2>1. walk'.cur \in Slots \union {None} /\ walk'.head \in Slots \union {None}
    <3>1. G \subseteq Slots /\ L \subseteq Slots
      BY <1>3, <1>4, <1>l, <1>g
    <3>2. walk'.cur \in G \union {None} /\ walk'.head \in L \union {None}
      BY <1>13 DEF Threaded
    <3> QED BY <3>1, <3>2
  <2>2. walk' \in [cap : 0 .. capacity, cur : Slots \union {None},
                   head : Slots \union {None}, tail : Slots \union {None}]
    BY <1>2, <1>4, <1>8, <2>1
  <2>3. walk' # None
    BY <2>2, WalkNotNone DEF IInv
  <2> QED BY <1>1, <1>5, <1>6, <2>2, <2>3 DEF TypeOK, IInv, Rows, NoRow, Links
<1>17. Listed'
  <2>1. L \in SUBSET Slots' /\ G \in SUBSET Slots'
    BY <1>3, <1>4, <1>6, <1>l, <1>g
  <2>2. \A s \in LiveSlots' : s < walk'.cap
    BY <1>2, <1>6, <1>8
  <2> QED BY <1>15, <1>16, <2>1, <2>2 DEF Listed
<1> QED BY <1>1, <1>7, <1>16, <1>17, SilentFacts DEF IInv

\* The turn that leaves a slot out only walks on.
LEMMA ShrinkSkipInv ==
  ASSUME IInv, ShrinkSkip
  PROVE  IInv' /\ Silent
<1>1. /\ walk # None /\ walk.cur # None /\ walk.cur >= walk.cap
      /\ UNCHANGED <<capacity, slots, cells, freeHead, counter, floor, liveCount, version, issued>>
  BY DEF ShrinkSkip
<1>2. walk \in [cap : 0 .. capacity, cur : Slots \union {None},
                head : Slots \union {None}, tail : Slots \union {None}]
      /\ \A s \in LiveSlots : s < walk.cap
  BY <1>1, PickWalk
<1>3. PICK K \in SUBSET Slots, R \in SUBSET Slots : Walk(K, R)
  BY <1>1, PickWalk
<1>c. PICK c : c = walk.cur
  OBVIOUS
<1>g. PICK G : G = R \ {c}
  OBVIOUS
<1>4. c \in R /\ c \in Slots /\ None \notin R /\ R \in SUBSET Nat
  BY <1>1, <1>3, <1>c, SlotFacts DEF Walk, Threaded, IInv
<1>5. /\ walk'.cap = walk.cap /\ walk'.cur = slots[c].gen
      /\ walk'.tail = walk.tail /\ walk'.head = walk.head
  BY <1>2, <1>c DEF ShrinkSkip
<1>6. Silent /\ Slots' = Slots /\ \A t : Succ(t)' = Succ(t)
  BY <1>1 DEF Silent, Quiet, LiveSlots, Slots, Succ
<1>rs. PICK rest : rest = Succ(None)
  OBVIOUS
<1>7. rest[c] = walk'.cur
  BY <1>4, <1>5, <1>rs, SlotFacts DEF Succ, IInv
<1>8. Threaded(R, c, rest)
  BY <1>3, <1>c, <1>rs DEF Walk
<1>9. Threaded(G, walk'.cur, rest)
  BY <1>4, <1>7, <1>8, <1>g, Pop
<1>10. Undisturbed => Ascends(G, walk'.cur, rest) /\ Above(G)
  <2> SUFFICES ASSUME Undisturbed PROVE Ascends(G, walk'.cur, rest) /\ Above(G)
    OBVIOUS
  <2>1. Ascends(R, c, rest) /\ Above(R)
    BY <1>3, <1>c, <1>rs DEF Walk
  <2>2. Ascends(G, walk'.cur, rest)
    BY <1>4, <1>7, <1>8, <1>g, <2>1, PopAscends
  <2> QED BY <1>g, <2>1, <2>2 DEF Above
<1>11. Walk(K, G)'
  <2>1. /\ K \subseteq Slots' \ LiveSlots' /\ G \subseteq Slots' \ LiveSlots'
        /\ K \intersect G = {} /\ \A s \in K : s < walk'.cap
    BY <1>3, <1>5, <1>6, <1>g DEF Walk, Silent, Quiet
  <2>2. Succ(walk.tail)' = Succ(walk.tail) /\ Succ(None)' = rest
    BY <1>1, <1>5, <1>6, <1>rs DEF Succ, Slots
  <2>3. Undisturbed' =>
          /\ Ascends(K, walk'.head, Succ(walk.tail)) /\ Above(K)'
          /\ Ascends(G, walk'.cur, rest) /\ Above(G)'
          /\ \A k \in K, r \in G : k < r
    BY <1>3, <1>5, <1>6, <1>10, <1>g, SilentFacts DEF Walk
  <2>4. Threaded(K, walk'.head, Succ(walk.tail))
    BY <1>3, <1>5 DEF Walk
  <2>5. /\ walk'.tail \in K \union {None} /\ (walk'.tail = None => K = {})
        /\ (walk'.head = None => walk'.tail = None)
    BY <1>3, <1>5 DEF Walk
  <2> QED BY <1>9, <2>1, <2>2, <2>3, <2>4, <2>5 DEF Walk
<1>12. TypeOK' /\ walk' # None
  <2>1. walk'.cur \in Slots \union {None}
    BY <1>3, <1>9, <1>g DEF Threaded
  <2>2. walk' \in [cap : 0 .. capacity, cur : Slots \union {None},
                   head : Slots \union {None}, tail : Slots \union {None}]
    BY <1>2, <1>5, <2>1 DEF ShrinkSkip
  <2>3. walk' # None
    BY <2>2, WalkNotNone DEF IInv
  <2> QED BY <1>1, <1>6, <2>2, <2>3 DEF TypeOK, IInv, Rows, NoRow, Links
<1>13. Listed'
  <2>1. K \in SUBSET Slots' /\ G \in SUBSET Slots'
    BY <1>3, <1>6, <1>g
  <2>2. \A s \in LiveSlots' : s < walk'.cap
    BY <1>2, <1>5, <1>6 DEF Silent, Quiet
  <2> QED BY <1>11, <1>12, <2>1, <2>2 DEF Listed
<1> QED BY <1>1, <1>6, <1>12, <1>13, SilentFacts DEF IInv

\* At the end of the loop what was kept is the free list, and all the rows
\* are below the new capacity.
LEMMA ShrinkTrimInv ==
  ASSUME IInv, ShrinkTrim
  PROVE  IInv' /\ Silent
<1>1. /\ walk # None /\ walk.cur = None /\ walk' = None
      /\ freeHead' = walk.head /\ capacity' = walk.cap
      /\ UNCHANGED <<counter, floor, liveCount, version, issued>>
  BY DEF ShrinkTrim
<1>2. walk \in [cap : 0 .. capacity, cur : Slots \union {None},
                head : Slots \union {None}, tail : Slots \union {None}]
      /\ \A s \in LiveSlots : s < walk.cap
  BY <1>1, PickWalk
<1>3. PICK K \in SUBSET Slots, R \in SUBSET Slots : Walk(K, R)
  BY <1>1, PickWalk
<1>4. Slots' = 0 .. walk.cap - 1 /\ Slots' \subseteq Slots /\ capacity' \in Nat /\ LiveSlots \subseteq Slots'
      /\ K \subseteq Slots' /\ walk.cap \in Nat
  BY <1>1, <1>2, <1>3, SlotFacts DEF Slots, Walk, IInv, TypeOK
<1>5. /\ slots' \in [Slots' -> [gen : Links, live : BOOLEAN]]
      /\ cells' \in [Slots' -> Rows \union {NoRow}]
      /\ \A s \in Slots' : /\ slots'[s].gen = (IF s = walk.tail THEN None ELSE slots[s].gen)
                           /\ slots'[s].live = slots[s].live
                           /\ s # walk.tail => slots'[s] = slots[s]
                           /\ cells'[s] = cells[s]
  <2>1. slots \in [Slots -> [gen : Links, live : BOOLEAN]] /\ cells \in [Slots -> Rows \union {NoRow}]
    BY DEF IInv, TypeOK
  <2>2. /\ slots' = [s \in Slots' |-> IF s = walk.tail THEN [slots[s] EXCEPT !.gen = None] ELSE slots[s]]
        /\ cells' = [s \in Slots' |-> cells[s]]
    BY <1>4 DEF ShrinkTrim
  <2>3. None \in Links
    BY DEF Links
  <2> QED BY <1>4, <2>1, <2>2, <2>3
<1>6. LiveSlots' = LiveSlots
  BY <1>4, <1>5 DEF LiveSlots
<1>7. Silent
  BY <1>1, <1>3, <1>4, <1>5, <1>6, SlotFacts DEF Silent, Quiet, Walk, IInv
<1>8. \A s \in K : Succ(None)'[s] = Succ(walk.tail)[s]
  BY <1>4, <1>5, SlotFacts DEF Succ, IInv
<1>9. FreeList(K)'
  <2>1. Threaded(K, freeHead', Succ(None)')
    BY <1>1, <1>3, <1>8, SameLinks DEF Walk
  <2>2. Undisturbed' => Ascends(K, freeHead', Succ(None)') /\ Above(K)'
    BY <1>1, <1>3, <1>7, <1>8, SameLinks, SilentFacts DEF Walk
  <2> QED BY <1>3, <1>4, <1>6, <2>1, <2>2 DEF FreeList, Walk
<1>10. TypeOK'
  <2>1. freeHead' \in Slots' \union {None}
    BY <1>1, <1>3, <1>4 DEF Walk, Threaded
  <2> QED BY <1>1, <1>4, <1>5, <2>1 DEF TypeOK, IInv, Rows, NoRow, Links
<1>11. Listed'
  BY <1>1, <1>4, <1>9 DEF Listed
<1> QED BY <1>7, <1>10, <1>11, SilentFacts DEF IInv

-----------------------------------------------------------------------------
(* The invariant and what follows from it                                  *)

\* An empty table has all its reserved slots on the free list.
LEMMA InitInv == Init => IInv
<1> SUFFICES ASSUME Init PROVE IInv
  OBVIOUS
<1>1. /\ capacity = Reserve /\ slots = FreeChain(Reserve) /\ cells = [s \in Slots |-> NoRow]
      /\ freeHead = (IF Reserve > 0 THEN 0 ELSE None) /\ walk = None /\ issued = <<>>
      /\ counter = 1 /\ floor = 0 /\ liveCount = 0 /\ version = 0 /\ Reserve \in Nat
  BY TableAssumption, ColumnAssumption DEF Init
<1>2. Slots = 0 .. Reserve - 1 /\ LiveSlots = {} /\ Recent = {} /\ issued \in Seq(Nat)
      /\ Len(issued) = 0 /\ DOMAIN issued = {}
  BY <1>1 DEF Slots, LiveSlots, FreeChain, Recent
<1>3. \A s \in 0 .. Reserve - 1 : Succ(None)[s] = IF s + 1 < Reserve THEN s + 1 ELSE None
  BY <1>1, <1>2, TableAssumption, ColumnAssumption DEF Succ, FreeChain
<1>4. FreeList(Slots)
  <2>1. /\ Threaded(0 .. Reserve - 1, freeHead, Succ(None))
        /\ Ascends(0 .. Reserve - 1, freeHead, Succ(None))
    BY <1>1, <1>3, Chained
  <2> QED BY <1>2, <2>1 DEF FreeList, Above
<1>5. TypeOK
  <2>1. slots \in [Slots -> [gen : Links, live : BOOLEAN]]
    BY <1>1, <1>2 DEF FreeChain, Links
  <2>2. freeHead \in Slots \union {None}
    BY <1>1, <1>2
  <2> QED BY <1>1, <1>2, <2>1, <2>2 DEF TypeOK
<1>6. Counted /\ Owned /\ Keyed /\ Rising
  BY <1>1, <1>2, TableAssumption, ColumnAssumption DEF Counted, Owned, Keyed, Rising
<1>7. CountExact
  BY <1>1, <1>2, FS_EmptySet DEF CountExact
<1>8. Listed
  BY <1>1, <1>4 DEF Listed
<1> QED BY <1>5, <1>6, <1>7, <1>8 DEF IInv

\* Every action preserves the invariant.
LEMMA NextInv == ASSUME GenFits, IInv, [Next]_vars PROVE IInv'
<1>1. CASE \E row \in Rows : AddReuse(row) \/ AddGrow(row) \/ AddExhausted(row)
  BY <1>1, AddReuseInv, AddGrowInv, AddExhaustedInv
<1>2. CASE \E slot \in Slots : RemoveRow(slot)
  BY <1>2, RemoveRowInv
<1>3. CASE \E slot \in Slots, c \in Columns, v \in Values : SetCell(slot, c, v)
  BY <1>3, SetCellInv
<1>4. CASE ClearRows
  BY <1>4, ClearRowsInv
<1>5. CASE ShrinkStart
  BY <1>5, ShrinkStartInv
<1>6. CASE ShrinkLoop
  BY <1>6, ShrinkKeepInv, ShrinkSkipInv, ShrinkTrimInv DEF ShrinkLoop
<1>7. CASE UNCHANGED vars
  <2>1. Silent
    BY <1>7 DEF vars, Silent, Quiet, LiveSlots, Slots
  <2>2. TypeOK'
    BY <1>7 DEF vars, IInv, TypeOK, Slots, Rows, NoRow, Links
  <2>3. Listed'
    <3>1. /\ Slots' = Slots /\ LiveSlots' = LiveSlots /\ walk' = walk /\ freeHead' = freeHead
          /\ Succ(None)' = Succ(None) /\ Succ(walk.tail)' = Succ(walk.tail)
      BY <1>7 DEF vars, Slots, LiveSlots, Succ
    <3>2. CASE walk = None
      <4>1. PICK F \in SUBSET Slots : FreeList(F)
        BY <3>2, PickFreeList
      <4>2. FreeList(F)'
        BY <2>1, <3>1, <4>1, SilentFacts DEF FreeList
      <4> QED BY <3>1, <3>2, <4>2 DEF Listed
    <3>3. CASE walk # None
      <4>1. PICK K \in SUBSET Slots, R \in SUBSET Slots : Walk(K, R)
        BY <3>3, PickWalk
      <4>2. Walk(K, R)'
        BY <2>1, <3>1, <4>1, SilentFacts DEF Walk
      <4> QED BY <3>1, <3>3, <4>2, PickWalk DEF Listed
    <3> QED BY <3>2, <3>3
  <2> QED BY <2>1, <2>2, <2>3, SilentFacts DEF IInv
<1> QED BY <1>1, <1>2, <1>3, <1>4, <1>5, <1>6, <1>7 DEF Next

\* Every reachable table satisfies it.
LEMMA Invariance == ASSUME GenFits PROVE Spec => []IInv
<1>1. IInv /\ [Next]_vars => IInv'
  BY NextInv
<1> QED BY <1>1, InitInv, PTL DEF Spec

\* A reference is accepted exactly as long as its row is there.
LEMMA RefsFromInv == ASSUME IInv, GenFits PROVE RefsTrackRows
<1> SUFFICES ASSUME NEW i \in DOMAIN issued PROVE Readable(i) <=> Present(i)
  BY DEF RefsTrackRows
<1>1. i \in Nat /\ i < GenMod /\ GenMod \in Nat
  BY TableAssumption, ColumnAssumption DEF IInv, TypeOK, Counted, GenFits
<1>2. i % GenMod = i
  BY <1>1
<1>3. \A s \in LiveSlots : slots[s].gen >= floor
  BY DEF IInv, Owned
<1> QED BY <1>2, <1>3, PresentFacts DEF Readable, IsLiveRowRef

\* No two rows say the same in a @unique column.
LEMMA KeysFromInv == ASSUME IInv, TextFaithful PROVE NoDuplicates
<1> SUFFICES ASSUME NEW c \in Unique, NEW s \in LiveSlots, NEW t \in LiveSlots, s # t
             PROVE  Text[cells[s][c]] # Text[cells[t][c]]
  BY DEF NoDuplicates
<1>1. cells[s] \in Rows /\ cells[t] \in Rows /\ c \in Columns
  BY TableAssumption, ColumnAssumption DEF IInv, Owned
<1>2. cells[s][c] \in Values /\ cells[t][c] \in Values /\ cells[s][c] # cells[t][c]
  BY <1>1 DEF Rows, IInv, Keyed
<1> QED BY <1>2 DEF TextFaithful

\* The order is part of the invariant.
LEMMA OrderFromInv == ASSUME IInv PROVE FillsInOrder
BY DEF IInv, Rising, Undisturbed, Recent, FillsInOrder

-----------------------------------------------------------------------------
(* The free list ends                                                      *)

\* Chain is the function its definition says.
LEMMA ChainLinks ==
  ASSUME IInv, walk = None, NEW F \in SUBSET Slots, FreeList(F)
  PROVE  /\ Chain \in [0 .. capacity -> F \union {None}]
         /\ Chain[0] = freeHead
         /\ \A n \in 0 .. capacity - 1 :
              Chain[n + 1] = IF Chain[n] = None THEN None ELSE slots[Chain[n]].gen
<1> DEFINE L == F \union {None}
           step == [n \in Nat |-> [l \in L |-> IF l = None THEN None ELSE slots[l].gen]]
           Body(f) == [n \in 0 .. capacity |->
                         IF n = 0 THEN freeHead
                         ELSE LET last == f[n - 1] IN IF last = None THEN None ELSE slots[last].gen]
<1>1. capacity \in Nat
  BY DEF IInv, TypeOK
<1>2. freeHead \in L /\ \A s \in F : slots[s].gen \in L
  <2>1. None \notin F
    BY SlotFacts DEF IInv
  <2>2. \A s \in F : Succ(None)[s] = slots[s].gen
    BY <2>1 DEF Succ
  <2> QED BY <2>2 DEF FreeList, Threaded
<1>3. step \in [Nat -> [L -> L]]
  BY <1>2
<1>4. PICK f : Follows(f, L, freeHead, step)
  <2> HIDE DEF L, step
  <2> QED BY <1>2, <1>3, Recursion
<1>5. /\ f \in [Nat -> L] /\ f[0] = freeHead
      /\ \A n \in Nat : f[n + 1] = IF f[n] = None THEN None ELSE slots[f[n]].gen
  BY <1>4 DEF Follows
<1> DEFINE g == [n \in 0 .. capacity |-> f[n]]
<1>6. g = Body(g)
  <2>1. ASSUME NEW n \in 0 .. capacity PROVE g[n] = Body(g)[n]
    <3>1. CASE n = 0
      BY <1>5, <3>1
    <3>2. CASE n # 0
      <4>1. n - 1 \in Nat /\ n - 1 \in 0 .. capacity /\ n - 1 + 1 = n
        BY <1>1, <3>2
      <4>2. f[n] = IF f[n - 1] = None THEN None ELSE slots[f[n - 1]].gen
        BY <1>5, <4>1
      <4> QED BY <3>2, <4>1, <4>2
    <3> QED BY <3>1, <3>2
  <2> QED BY <2>1
<1>7. Chain = CHOOSE h : h = Body(h)
  BY DEF Chain
<1>8. Chain = Body(Chain)
  <2> HIDE DEF Body, g
  <2> QED BY <1>6, <1>7
<1>9. Chain[0] = freeHead
  BY <1>1, <1>8
<1>10. ASSUME NEW n \in 0 .. capacity - 1
       PROVE  Chain[n + 1] = IF Chain[n] = None THEN None ELSE slots[Chain[n]].gen
  <2>1. n + 1 \in 0 .. capacity /\ n + 1 # 0 /\ n + 1 - 1 = n
    BY <1>1
  <2>2. Chain[n + 1] = Body(Chain)[n + 1]
    BY <1>8
  <2> QED BY <2>1, <2>2
<1>11. \A n \in 0 .. capacity : Chain[n] \in L
  <2> DEFINE T == {n \in 0 .. capacity : Chain[n] \in L}
  <2>1. 0 \in T
    BY <1>1, <1>2, <1>9
  <2>2. ASSUME NEW n \in 0 .. capacity - 1, n \in T PROVE n + 1 \in T
    BY <1>1, <1>2, <1>10, <2>2
  <2> HIDE DEF T
  <2>3. 0 .. capacity \subseteq T
    BY <1>1, <2>1, <2>2, UpTo
  <2> QED BY <2>3 DEF T
<1>12. Chain = [n \in 0 .. capacity |-> Chain[n]]
  BY <1>8
<1> QED BY <1>9, <1>10, <1>11, <1>12

\* chain[n] is where n links lead to.
Follow(chain, m, F, next) ==
  /\ chain \in [0 .. m -> F \union {None}]
  /\ \A n \in 0 .. m - 1 : chain[n + 1] = IF chain[n] = None THEN None ELSE next[chain[n]]

\* A list that goes on after m links went on after each before.
LEMMA ChainRuns ==
  ASSUME NEW F, NEW m \in Nat, NEW next, NEW chain, Follow(chain, m, F, next), chain[m] # None
  PROVE  \A n \in 0 .. m : chain[n] # None
<1> USE DEF Follow
<1> DEFINE T == {k \in 0 .. m : chain[m - k] # None}
<1>1. 0 \in T
  OBVIOUS
<1>2. ASSUME NEW k \in 0 .. m - 1, k \in T PROVE k + 1 \in T
  <2>1. m - (k + 1) \in 0 .. m - 1 /\ m - (k + 1) + 1 = m - k /\ k + 1 \in 0 .. m
    OBVIOUS
  <2>2. chain[m - k] # None
    BY <1>2
  <2>3. chain[m - (k + 1)] # None
    BY <2>1, <2>2
  <2> QED BY <2>1, <2>3
<1>3. 0 .. m \subseteq T
  <2> HIDE DEF T
  <2> QED BY <1>1, <1>2, UpTo
<1> SUFFICES ASSUME NEW n \in 0 .. m PROVE chain[n] # None
  OBVIOUS
<1>4. m - n \in 0 .. m /\ m - (m - n) = n
  OBVIOUS
<1> QED BY <1>3, <1>4

\* Followed along a list, no slot comes twice.
LEMMA ChainInjective ==
  ASSUME NEW F, NEW m \in Nat, NEW next, NEW chain, Follow(chain, m, F, next), chain[m] # None,
         Threaded(F, chain[0], next)
  PROVE  \A i, j \in 0 .. m : i < j => chain[i] # chain[j]
<1>1. \A n \in 0 .. m : chain[n] # None
  BY ChainRuns
<1> USE <1>1 DEF Follow
<1> DEFINE T == {i \in 0 .. m : \A j \in 0 .. m : i < j => chain[i] # chain[j]}
<1>2. ASSUME NEW j \in 0 .. m, j # 0
      PROVE  j - 1 \in 0 .. m - 1 /\ j - 1 \in 0 .. m /\ chain[j - 1] \in F /\ chain[j] = next[chain[j - 1]]
  <2>1. j - 1 \in 0 .. m - 1 /\ j - 1 \in 0 .. m /\ j - 1 + 1 = j
    BY <1>2
  <2> QED BY <2>1
<1>3. 0 \in T
  <2> SUFFICES ASSUME NEW j \in 0 .. m, 0 < j PROVE chain[0] # chain[j]
    OBVIOUS
  <2>1. chain[j - 1] \in F /\ chain[j] = next[chain[j - 1]] /\ chain[j] # None
    BY <1>2
  <2> QED BY <2>1 DEF Threaded
<1>4. ASSUME NEW i \in 0 .. m - 1, i \in T PROVE i + 1 \in T
  <2> SUFFICES ASSUME NEW j \in 0 .. m, i + 1 < j PROVE chain[i + 1] # chain[j]
    OBVIOUS
  <2>1. chain[j - 1] \in F /\ chain[j] = next[chain[j - 1]] /\ chain[j] # None
    BY <1>2
  <2>2. i \in 0 .. m /\ chain[i] \in F /\ chain[i + 1] = next[chain[i]]
    OBVIOUS
  <2>3. i < j - 1 /\ j - 1 \in 0 .. m
    OBVIOUS
  <2>4. chain[i] # chain[j - 1]
    BY <1>4, <2>3
  <2> QED BY <2>1, <2>2, <2>4 DEF Threaded
<1>5. 0 .. m \subseteq T
  <2> HIDE DEF T
  <2> QED BY <1>3, <1>4, UpTo
<1> QED BY <1>5

\* A list of slots has fewer than capacity links.
LEMMA FreeListEnds ==
  ASSUME IInv, walk = None
  PROVE  Chain[capacity] = None /\ \A n \in 0 .. capacity : Chain[n] # None => Chain[n] \in Slots \ LiveSlots
<1>1. PICK F \in SUBSET Slots : FreeList(F)
  BY PickFreeList
<1>2. /\ Chain \in [0 .. capacity -> F \union {None}]
      /\ Chain[0] = freeHead
      /\ \A n \in 0 .. capacity - 1 :
           Chain[n + 1] = IF Chain[n] = None THEN None ELSE slots[Chain[n]].gen
  BY <1>1, ChainLinks
<1>3. capacity \in Nat /\ None \notin F
  BY SlotFacts DEF IInv, TypeOK
<1>4. Chain[capacity] = None
  <2> SUFFICES ASSUME Chain[capacity] # None PROVE FALSE
    OBVIOUS
  <2>1. PICK chain : chain = Chain
    OBVIOUS
  <2>2. PICK m \in Nat : m = capacity
    BY <1>3
  <2>3. PICK next : next = Succ(None)
    OBVIOUS
  <2>4. \A s \in F : next[s] = slots[s].gen
    BY <1>3, <2>3 DEF Succ
  <2>5. chain \in [0 .. m -> F \union {None}] /\ chain[0] = freeHead /\ chain[m] # None
    BY <1>2, <2>1, <2>2
  <2>6. \A n \in 0 .. m - 1 : chain[n + 1] = IF chain[n] = None THEN None ELSE next[chain[n]]
    BY <1>2, <2>1, <2>2, <2>4, <2>5
  <2>7. Follow(chain, m, F, next)
    BY <2>5, <2>6 DEF Follow
  <2>8. \A n \in 0 .. m : chain[n] # None
    BY <2>5, <2>7, ChainRuns
  <2>9. Threaded(F, chain[0], next)
    BY <1>1, <2>3, <2>5 DEF FreeList
  <2>10. \A i, j \in 0 .. m : i < j => chain[i] # chain[j]
    BY <2>5, <2>9, <2>7, ChainInjective
  <2>11. chain \in [0 .. m -> 0 .. m - 1]
    BY <2>2, <2>5, <2>8 DEF Slots
  <2>12. /\ IsFiniteSet(0 .. m) /\ Cardinality(0 .. m) = m + 1
         /\ IsFiniteSet(0 .. m - 1) /\ Cardinality(0 .. m - 1) = m
    BY FS_Interval
  <2> DEFINE S == 0 .. m
             T == 0 .. m - 1
  <2>13. IsFiniteSet(S) /\ IsFiniteSet(T) /\ Cardinality(T) < Cardinality(S) /\ chain \in [S -> T]
    BY <2>11, <2>12
  <2>14. \E i, j \in S : i # j /\ chain[i] = chain[j]
    <3> HIDE DEF S, T
    <3> QED BY <2>13, FS_PigeonHole
  <2> QED BY <2>10, <2>14
<1>5. ASSUME NEW n \in 0 .. capacity, Chain[n] # None PROVE Chain[n] \in Slots \ LiveSlots
  BY <1>1, <1>2, <1>5 DEF FreeList
<1> QED BY <1>4, <1>5

-----------------------------------------------------------------------------
(* The table implements RowStore                                           *)

Readables == {i \in DOMAIN issued : Readable(i)}

\* The rows the store has are those whose slot carries their number.
StoreFacts ==
  /\ Readables = {i \in DOMAIN issued : issued[i] \in LiveSlots /\ slots[issued[i]].gen = i}
  /\ \A s \in LiveSlots : slots[s].gen \in Readables /\ issued[slots[s].gen] = s

\* References and slots agree on which rows there are.
LEMMA StoreRows == ASSUME IInv, GenFits PROVE StoreFacts
<1>1. \A i \in DOMAIN issued : Readable(i) <=> issued[i] \in LiveSlots /\ slots[issued[i]].gen = i
  BY RefsFromInv, PresentFacts DEF RefsTrackRows
<1>2. \A s \in LiveSlots : slots[s].gen \in DOMAIN issued /\ issued[slots[s].gen] = s
  BY DEF IInv, Owned
<1> QED BY <1>1, <1>2 DEF Readables, StoreFacts

\* addRow adds a row that was never there.
LEMMA StoreAdd ==
  ASSUME IInv, GenFits, NEW n, NEW S, NEW C, NEW slot, NEW row, Adds(n, S, C, slot, row),
         StoreFacts, StoreFacts'
  PROVE  Store!Add(Len(issued) + 1, row)
<1> DEFINE new == Len(issued) + 1
           old == [i \in Readables |-> cells[issued[i]]]
<1>1. Readables' = Readables \union {new}
  <2>1. DOMAIN issued' = DOMAIN issued \union {new} /\ new \notin DOMAIN issued
    <3>1. DOMAIN issued = 1 .. Len(issued) /\ DOMAIN issued' = 1 .. new /\ Len(issued) \in Nat
      BY AddShape
    <3> QED BY <3>1
  <2>2. new \in Readables'
    <3>1. slot \in LiveSlots' /\ slots'[slot].gen = new
      BY AddShape
    <3> QED BY <3>1 DEF StoreFacts
  <2>3. ASSUME NEW i \in DOMAIN issued PROVE i \in Readables' <=> i \in Readables
    <3>1. i \in DOMAIN issued' /\ issued'[i] = issued[i] /\ i # new
      BY <2>1, AddShape
    <3>2. CASE issued[i] = slot
      BY <3>1, <3>2, AddShape, SlotFacts DEF Adds, StoreFacts
    <3>3. CASE issued[i] # slot
      <4>1. issued[i] \in LiveSlots' <=> issued[i] \in LiveSlots
        BY <3>3, AddShape
      <4>2. issued[i] \in LiveSlots => slots'[issued[i]] = slots[issued[i]]
        BY <3>3, AddShape, SlotFacts DEF IInv
      <4> QED BY <3>1, <4>1, <4>2 DEF StoreFacts
    <3> QED BY <3>2, <3>3
  <2>4. Readables' \subseteq DOMAIN issued' /\ Readables \subseteq DOMAIN issued
    BY DEF Readables
  <2> QED BY <2>1, <2>2, <2>3, <2>4
<1>2. new \notin Readables /\ new \notin DOMAIN issued
  BY AddShape DEF Readables
<1>3. \A i \in Readables : cells'[issued'[i]] = cells[issued[i]]
  <2>1. \A i \in Readables : i \in DOMAIN issued /\ issued[i] \in LiveSlots
    BY DEF StoreFacts
  <2>2. \A s \in LiveSlots : s \in Slots \ {slot}
    BY SlotFacts DEF Adds, IInv
  <2> QED BY <2>1, <2>2, AddShape
<1>4. cells'[issued'[new]] = row
  BY AddShape
<1>5. [i \in Readables |-> cells[issued[i]]]'
        = [i \in Readables \union {new} |-> IF i = new THEN row ELSE old[i]]
  BY <1>1, <1>2, <1>3, <1>4
<1>6. DOMAIN issued' = DOMAIN issued \union {new}
  <2>1. DOMAIN issued = 1 .. Len(issued) /\ DOMAIN issued' = 1 .. new /\ Len(issued) \in Nat
    BY AddShape
  <2> QED BY <2>1
<1> QED BY <1>2, <1>5, <1>6 DEF Store!Add, Readables, Adds, Stamp

\* removeRow drops the row its slot carries the number of.
LEMMA StoreRemove ==
  ASSUME IInv, NEW slot \in Slots, RemoveRow(slot), StoreFacts, StoreFacts'
  PROVE  \E id \in DOMAIN [i \in Readables |-> cells[issued[i]]] : Store!Drop({id})
<1> PICK g : g = slots[slot].gen
  OBVIOUS
<1>1. g \in Readables /\ issued[g] = slot
  BY DEF RemoveRow, StoreFacts
<1>2. /\ issued' = issued /\ cells' = cells /\ version' = version + 1
      /\ LiveSlots' = LiveSlots \ {slot} /\ \A s \in LiveSlots' : slots'[s] = slots[s]
  BY DEF RemoveRow, LiveSlots, Slots, IInv, TypeOK
<1>3. Readables' = Readables \ {g}
  <2>1. ASSUME NEW i \in DOMAIN issued PROVE i \in Readables' <=> i \in Readables /\ i # g
    BY <1>1, <1>2 DEF StoreFacts
  <2>2. Readables' \subseteq DOMAIN issued /\ Readables \subseteq DOMAIN issued
    BY <1>2 DEF Readables
  <2> QED BY <2>1, <2>2
<1>4. [i \in Readables |-> cells[issued[i]]]'
        = [i \in Readables \ {g} |-> [j \in Readables |-> cells[issued[j]]][i]]
  BY <1>2, <1>3
<1>5. Store!Drop({g})
  BY <1>1, <1>2, <1>4 DEF Store!Drop, Readables
<1> QED BY <1>1, <1>5

\* clear drops every row.
LEMMA StoreClear ==
  ASSUME IInv, ClearRows, StoreFacts, StoreFacts'
  PROVE  Store!Next
<1>1. LiveSlots' = {}
  BY DEF ClearRows, LiveSlots, FreeChain, Slots, IInv, TypeOK
<1>2. Readables' = {} /\ issued' = issued /\ version' = version + 1
  BY <1>1 DEF StoreFacts, ClearRows
<1>3. [i \in Readables |-> cells[issued[i]]]'
        = [i \in Readables \ Readables |-> [j \in Readables |-> cells[issued[j]]][i]]
  BY <1>2
<1> QED BY <1>2, <1>3 DEF Store!Next, Store!Drop, Readables

\* setCell writes one cell of one row.
LEMMA StoreWrite ==
  ASSUME IInv, NEW slot \in Slots, NEW c \in Columns, NEW v \in Values, SetCell(slot, c, v),
         StoreFacts, StoreFacts'
  PROVE  slots[slot].gen \in Readables /\ Store!Write(slots[slot].gen, c, v)
<1> DEFINE g == slots[slot].gen
           old == [i \in Readables |-> cells[issued[i]]]
<1>1. slot \in LiveSlots /\ g \in Readables /\ issued[g] = slot
  BY DEF SetCell, StoreFacts
<1>2. /\ cells' = [cells EXCEPT ![slot][c] = v] /\ issued' = issued /\ version' = version
      /\ LiveSlots' = LiveSlots /\ slots' = slots
  BY DEF SetCell, LiveSlots, Slots
<1>3. Readables' = Readables /\ \A i \in Readables : issued[i] \in Slots /\ (issued[i] = slot => i = g)
  <2>1. Readables' = Readables
    BY <1>2 DEF StoreFacts
  <2>2. \A i \in Readables : issued[i] \in LiveSlots /\ slots[issued[i]].gen = i
    BY DEF StoreFacts
  <2> QED BY <2>1, <2>2 DEF LiveSlots
<1>4. cells \in [Slots -> Rows \union {NoRow}]
  BY DEF IInv, TypeOK
<1>5. \A i \in Readables : cells'[issued[i]] = [old EXCEPT ![g][c] = v][i]
  <2>1. ASSUME NEW i \in Readables, i # g PROVE cells'[issued[i]] = old[i]
    BY <1>2, <1>3, <1>4, <2>1
  <2>2. cells'[slot] = [old[g] EXCEPT ![c] = v]
    BY <1>1, <1>2, <1>4 DEF LiveSlots
  <2> QED BY <1>1, <2>1, <2>2
<1>6. [i \in Readables |-> cells[issued[i]]]' = [old EXCEPT ![g][c] = v]
  BY <1>2, <1>3, <1>5
<1> QED BY <1>1, <1>2, <1>6 DEF Store!Write, Readables

\* All else the program cannot tell from nothing.
LEMMA StoreStutters ==
  ASSUME IInv, Silent, StoreFacts, StoreFacts'
  PROVE  UNCHANGED Store!vars
<1>1. Readables' = Readables
  BY DEF StoreFacts, Silent, Quiet
<1>2. \A i \in Readables : issued[i] \in LiveSlots
  BY DEF StoreFacts
<1>3. [i \in Readables |-> cells[issued[i]]]' = [i \in Readables |-> cells[issued[i]]]
  BY <1>1, <1>2 DEF Silent, Quiet
<1> QED BY <1>3 DEF Store!vars, Readables, Silent, Quiet

\* Every step of the table is one of the store, or none.
LEMMA StepMaps ==
  ASSUME GenFits, IInv, IInv', StoreFacts, StoreFacts', [Next]_vars
  PROVE  [Store!Next]_Store!vars
<1>1. Len(issued) \in Nat /\ DOMAIN issued = 1 .. Len(issued)
  BY DEF IInv, TypeOK
<1>2. ASSUME NEW n, NEW S, NEW C, NEW slot, NEW row \in Rows, Adds(n, S, C, slot, row)
      PROVE  Store!Next
  <2>1. Store!Add(Len(issued) + 1, row)
    BY <1>2, StoreAdd
  <2>2. Len(issued) + 1 \in 1 .. MaxAdds
    BY <1>1, <1>2, TableAssumption, ColumnAssumption DEF Adds, Stamp
  <2> QED BY <2>1, <2>2 DEF Store!Next, Rows
<1>3. CASE \E row \in Rows : AddReuse(row) \/ AddGrow(row) \/ AddExhausted(row)
  BY <1>2, <1>3, ReuseAdds, GrowAdds, AddExhaustedInv, StoreStutters
<1>4. ASSUME NEW slot \in Slots, RemoveRow(slot) PROVE Store!Next
  BY <1>4, StoreRemove DEF Store!Next, Readables
<1>5. ASSUME NEW slot \in Slots, NEW c \in Columns, NEW v \in Values, SetCell(slot, c, v)
      PROVE  Store!Next
  BY <1>5, StoreWrite DEF Store!Next, Readables
<1>6. CASE ClearRows
  BY <1>6, StoreClear
<1>7. CASE ShrinkStart \/ ShrinkLoop
  BY <1>7, ShrinkStartInv, ShrinkKeepInv, ShrinkSkipInv, ShrinkTrimInv, StoreStutters DEF ShrinkLoop
<1>8. CASE UNCHANGED vars
  <2>1. Silent
    BY <1>8 DEF vars, Silent, Quiet, LiveSlots, Slots
  <2> QED BY <2>1, StoreStutters
<1> QED BY <1>3, <1>4, <1>5, <1>6, <1>7, <1>8 DEF Next

-----------------------------------------------------------------------------

\* Whatever is added, removed, cleared and trimmed: a reference reads its own
\* row as long as that row is there, COUNT is the number of rows, no two rows
\* share a key, and a table that was only filled iterates in the order of the
\* ADDs.
THEOREM RowsAlwaysSound == ASSUME GenFits, TextFaithful PROVE Spec => []RowsSound
<1>1. IInv => RowsSound
  BY RefsFromInv, KeysFromInv, OrderFromInv DEF IInv, RowsSound
<1> QED BY <1>1, Invariance, PTL

\* The free list ends and visits dead slots only, so that an ADD never takes
\* the slot of a live row, whatever was removed, cleared and trimmed.
THEOREM FreeListAlwaysSound == ASSUME GenFits PROVE Spec => []FreeListSound
<1>1. IInv => FreeListSound
  BY FreeListEnds DEF FreeListSound
<1> QED BY <1>1, Invariance, PTL

\* References into slots that are reused, generations that are compared with a
\* floor, and a free list that shares their field are a store of rows with
\* identities.
THEOREM Refinement == ASSUME GenFits PROVE Spec => ImplementsRowStore
<1>1. Init => Store!Init
  <2> SUFFICES ASSUME Init PROVE Store!Init
    OBVIOUS
  <2>1. DOMAIN issued = {} /\ version = 0
    BY DEF Init
  <2> QED BY <2>1 DEF Store!Init
<1>2. IInv => StoreFacts
  BY StoreRows
<1>3. IInv /\ IInv' /\ StoreFacts /\ StoreFacts' /\ [Next]_vars => [Store!Next]_Store!vars
  BY StepMaps
<1> QED BY <1>1, <1>2, <1>3, Invariance, PTL DEF Spec, ImplementsRowStore, Store!Spec

-----------------------------------------------------------------------------
(* A table of given rows                                                   *)

Entry(s, table) == <<HashOf(table[s][Primary]), s>>

Indexed == Primary # None => index = {Entry(s, cells) : s \in FixedSlots}

FixedInv == FixedTypeOK /\ Indexed /\ KeysDistinct /\ ValuesDistinct

-----------------------------------------------------------------------------
(* What the index finds                                                    *)

\* A hash is a natural number, whatever value it is of.
LEMMA HashType == ASSUME NEW v \in Values PROVE HashOf(v) \in Nat
BY FixedAssumption, ColumnAssumption DEF HashOf

\* Two values that say the same have the same hash, so comparing hashes first
\* drops no match.
LEMMA MatchesExact ==
  ASSUME FixedInv, Primary # None, NEW v \in Values
  PROVE  Matches(v) = {s \in FixedSlots : Text[cells[s][Primary]] = Text[v]}
<1>1. ASSUME NEW s \in FixedSlots, Text[cells[s][Primary]] = Text[v]
      PROVE  <<HashOf(v), s>> \in index
  BY <1>1 DEF FixedInv, Indexed, Entry, HashOf
<1> QED BY <1>1 DEF Matches

\* A lookup answers with a slot that matches, or with None.
LEMMA ByPrimaryChoice ==
  ASSUME NEW v
  PROVE  /\ Matches(v) = {} => ByPrimary(v) = None
         /\ Matches(v) # {} => ByPrimary(v) \in Matches(v) /\ ByPrimary(v) # None
<1>1. Matches(v) \subseteq FixedSlots /\ None \notin FixedSlots
  BY FixedAssumption, ColumnAssumption DEF Matches, FixedSlots
<1>2. Matches(v) # {} => (CHOOSE s \in Matches(v) : TRUE) \in Matches(v)
  OBVIOUS
<1> QED BY <1>1, <1>2 DEF ByPrimary

\* The invariant says of every key that lookups answer for it exactly.
LEMMA LookupFromInv == ASSUME FixedInv PROVE LookupExact
<1> SUFFICES ASSUME Primary # None, NEW v \in Values
             PROVE  IF \E s \in FixedSlots : Text[cells[s][Primary]] = Text[v]
                    THEN /\ ByPrimary(v) # None
                         /\ Text[cells[ByPrimary(v)][Primary]] = Text[v]
                    ELSE ByPrimary(v) = None
  BY DEF LookupExact
<1> QED BY MatchesExact, ByPrimaryChoice

\* No two entries are of one slot.
LEMMA TightFromInv == ASSUME FixedInv PROVE IndexTight
<1> SUFFICES ASSUME Primary # None, NEW s \in FixedSlots
             PROVE  Cardinality({e \in index : e[2] = s}) = 1
  BY DEF IndexTight
<1>1. {e \in index : e[2] = s} = {Entry(s, cells)}
  BY DEF FixedInv, Indexed, Entry
<1> QED BY <1>1, FS_Singleton

-----------------------------------------------------------------------------
(* Writes                                                                  *)

\* A write that is not refused gives the slot a key no other row has.
LEMMA NoClash ==
  ASSUME FixedInv, NEW slot \in FixedSlots, NEW c \in Unique, NEW v \in Values,
         ~Clashes(slot, c, v), NEW t \in FixedSlots, t # slot
  PROVE  /\ cells[t][c] # v
         /\ c = Primary => Text[cells[t][Primary]] # Text[v]
<1>1. CASE c # Primary
  BY <1>1 DEF Clashes
<1>2. CASE c = Primary
  <2>1. Primary # None
    BY <1>2, FixedAssumption, ColumnAssumption
  <2>2. SUFFICES ASSUME Text[cells[t][Primary]] = Text[v] PROVE FALSE
    BY <1>2
  <2>3. t \in Matches(v)
    BY <2>1, <2>2, MatchesExact
  <2>4. ByPrimary(v) = slot
    BY <1>2, <2>3, ByPrimaryChoice DEF Clashes
  <2>5. Text[cells[slot][Primary]] = Text[v]
    BY <2>1, <2>3, <2>4, MatchesExact, ByPrimaryChoice
  <2> QED BY <2>1, <2>2, <2>5 DEF FixedInv, KeysDistinct, NoDuplicatesIn
<1> QED BY <1>1, <1>2

\* A write changes one cell.
LEMMA FixedWritten ==
  ASSUME FixedTypeOK, NEW slot \in FixedSlots, NEW c \in Columns, NEW v \in Values,
         FixedSetCell(slot, c, v)
  PROVE  /\ cells' \in Table
         /\ \A t \in FixedSlots, d \in Columns :
              cells'[t][d] = IF t = slot /\ d = c THEN v ELSE cells[t][d]
BY DEF FixedTypeOK, Table, FixedSetCell

\* A write leaves the index exact.
LEMMA SetIndexed ==
  ASSUME FixedInv, NEW slot \in FixedSlots, NEW c \in Columns, NEW v \in Values,
         FixedSetCell(slot, c, v)
  PROVE  Indexed'
<1> SUFFICES ASSUME Primary # None PROVE index' = {Entry(s, cells') : s \in FixedSlots}
  BY DEF Indexed, Entry, HashOf, FixedSlots
<1>1. Primary \in Columns
  BY FixedAssumption, ColumnAssumption
<1>2. \A t \in FixedSlots : t # slot => Entry(t, cells') = Entry(t, cells)
  BY <1>1, FixedWritten DEF FixedInv, Entry
<1>3. CASE c = Primary
  <2>1. Entry(slot, cells') = <<HashOf(v), slot>>
    BY <1>1, <1>3, FixedWritten DEF FixedInv, Entry
  <2>2. index' = (index \ {Entry(slot, cells)}) \union {Entry(slot, cells')}
    BY <1>3, <2>1 DEF FixedSetCell, Reindexed, Entry
  <2>3. \A t \in FixedSlots : t # slot => Entry(t, cells) # Entry(slot, cells)
    BY DEF Entry
  <2>4. index = {Entry(s, cells) : s \in FixedSlots}
    BY DEF FixedInv, Indexed
  <2> QED BY <1>2, <2>2, <2>3, <2>4
<1>4. CASE c # Primary
  <2>1. \A t \in FixedSlots : Entry(t, cells') = Entry(t, cells)
    BY <1>1, <1>4, FixedWritten DEF FixedInv, Entry
  <2> QED BY <1>4, <2>1 DEF FixedSetCell, FixedInv, Indexed
<1> QED BY <1>3, <1>4

\* A write preserves the invariant.
LEMMA SetInv ==
  ASSUME FixedInv, NEW slot \in FixedSlots, NEW c \in Columns, NEW v \in Values,
         FixedSetCell(slot, c, v)
  PROVE  FixedInv'
<1>1. /\ cells' \in Table
      /\ \A t \in FixedSlots, d \in Columns :
           cells'[t][d] = IF t = slot /\ d = c THEN v ELSE cells[t][d]
  BY FixedWritten DEF FixedInv
<1>2. ~Clashes(slot, c, v)
  BY DEF FixedSetCell
<1>3. FixedTypeOK'
  <2>1. HashOf(v) \in Nat
    BY HashType
  <2> QED BY <1>1, <2>1 DEF FixedInv, FixedTypeOK, FixedSetCell, Reindexed, FixedSlots, Table
<1>4. Indexed'
  BY SetIndexed
<1>5. KeysDistinct'
  <2> SUFFICES ASSUME Primary # None, NEW s \in FixedSlots, NEW t \in FixedSlots, s # t
               PROVE  Text[cells'[s][Primary]] # Text[cells'[t][Primary]]
    BY DEF KeysDistinct, NoDuplicatesIn, FixedSlots
  <2>1. Primary \in Columns /\ Primary \in Unique
    BY FixedAssumption, ColumnAssumption
  <2>2. Text[cells[s][Primary]] # Text[cells[t][Primary]]
    BY DEF FixedInv, KeysDistinct, NoDuplicatesIn
  <2>3. CASE c = Primary
    BY <1>1, <1>2, <2>1, <2>2, <2>3, NoClash
  <2>4. CASE c # Primary
    BY <1>1, <2>1, <2>2, <2>4
  <2> QED BY <2>3, <2>4
<1>6. ValuesDistinct'
  <2> SUFFICES ASSUME NEW d \in Unique, NEW s \in FixedSlots, NEW t \in FixedSlots, s # t
               PROVE  cells'[s][d] # cells'[t][d]
    BY DEF ValuesDistinct, FixedSlots
  <2>1. d \in Columns /\ cells[s][d] # cells[t][d]
    BY FixedAssumption, ColumnAssumption DEF FixedInv, ValuesDistinct
  <2>2. CASE d = c
    BY <1>1, <1>2, <2>1, <2>2, NoClash
  <2>3. CASE d # c
    BY <1>1, <2>1, <2>3
  <2> QED BY <2>2, <2>3
<1> QED BY <1>3, <1>4, <1>5, <1>6 DEF FixedInv

\* The invariant holds of every table Sema lets through.
LEMMA FixedInitInv == FixedInit => FixedInv
<1> SUFFICES ASSUME FixedInit PROVE FixedInv
  OBVIOUS
<1>1. cells \in Table /\ \A c \in Unique : NoDuplicatesIn(c, cells)
  BY DEF FixedInit
<1>2. KeysDistinct
  BY <1>1, FixedAssumption, ColumnAssumption DEF KeysDistinct
<1>3. ValuesDistinct
  BY <1>1 DEF ValuesDistinct, NoDuplicatesIn
<1>4. Indexed
  BY DEF FixedInit, Indexed, Entry
<1>5. FixedTypeOK
  <2>1. ASSUME Primary # None, NEW s \in FixedSlots PROVE HashOf(cells[s][Primary]) \in Nat
    <3>1. cells[s][Primary] \in Values
      BY <1>1, <2>1, FixedAssumption, ColumnAssumption DEF Table
    <3> QED BY <3>1, HashType
  <2> QED BY <1>1, <2>1 DEF FixedInit, FixedTypeOK
<1> QED BY <1>2, <1>3, <1>4, <1>5 DEF FixedInv

\* Every reachable table satisfies the invariant.
LEMMA FixedInvariance == FixedSpec => []FixedInv
<1>1. FixedInv /\ [FixedNext]_fixedVars => FixedInv'
  <2> SUFFICES ASSUME FixedInv, [FixedNext]_fixedVars PROVE FixedInv'
    OBVIOUS
  <2>1. CASE FixedNext
    BY <2>1, SetInv DEF FixedNext
  <2>2. CASE UNCHANGED fixedVars
    BY <2>2 DEF fixedVars, FixedInv, FixedTypeOK, Indexed, Entry, KeysDistinct,
              NoDuplicatesIn, ValuesDistinct
  <2> QED BY <2>1, <2>2
<1> QED BY <1>1, FixedInitInv, PTL DEF FixedSpec

\* by<Column> finds exactly the keys the rows have, keys stay distinct and so
\* do the values of @unique columns, after any writes, for every hash function.
THEOREM KeysAlwaysSound == FixedSpec => []KeysSound
<1>1. FixedInv => KeysSound
  BY LookupFromInv DEF FixedInv, KeysSound
<1> QED BY <1>1, FixedInvariance, PTL

\* m_primary never keeps the entry of a key that was written away.
THEOREM IndexAlwaysTight == FixedSpec => []IndexTight
BY FixedInvariance, TightFromInv, PTL
=============================================================================
