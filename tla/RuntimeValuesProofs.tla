------------------------- MODULE RuntimeValuesProofs -------------------------
(****************************************************************************)
(* The theorems about RuntimeValues: its invariant, the counts of the       *)
(* objects, the host's callbacks, the capacities of arrays, the refinement  *)
(* of ValueStore, and what arrayContains finds.                             *)
(****************************************************************************)
EXTENDS RuntimeValuesLemmas

-----------------------------------------------------------------------------
(* The methods of arrays                                                   *)

\* It takes the array out of the variable.
LEMMA OpenArray ==
  ASSUME NEW m, NEW W, Sound(m, {}, W), NEW x \in Vars, W[<<x, 0>>] = slots[x], HasArray(x),
         NEW a, a = slots[x].v.i, NEW V, \A p \in Open({}) : p # Hand => V[p] = W[p]
  PROVE  \E W1 : Taken(V, x, a, m, W[Hand], W1)
<1>1. HasIt(m, x, a)
  BY ArrayHeld
<1>2. a \in Ids /\ m.heap[a].k = "array" /\ IsRef(slots[x].v)
  BY <1>1 DEF HasIt
<1>3. PICK p : p = <<x, 0>>
  OBVIOUS
<1>4. p \in Open({}) /\ p \in Places /\ IsRef(W[p].v) /\ a = W[p].v.i /\ p # Hand /\ Hand \in Places /\ W \in [Places -> Contents]
  BY <1>2, <1>3, OpenIs DEF Hand, Sound
<1>5. PICK W1 : W1 = [W EXCEPT ![p] = Free]
  OBVIOUS
<1>6. PICK O : O = {}
  OBVIOUS
<1>7. /\ Sound(m, O \union {a}, [W EXCEPT ![p] = Free])
      /\ \A i \in 1 .. Big : W[<<a, i>>] = Element(m.heap[a], i) /\ <<a, i>> # p
  <2>1. Sound(m, O, W) /\ p \in Open(O)
    BY <1>4, <1>6
  <2>2. IsRef(W[p].v) /\ a \in Ids /\ a = W[p].v.i /\ m.heap[a].k = "array"
    BY <1>2, <1>4
  <2>3. Sound(m, O \union {a}, [W EXCEPT ![p] = Free])
    BY <2>1, <2>2, Detached
  <2>4. \A i \in 1 .. Big : W[<<a, i>>] = Element(m.heap[a], i) /\ <<a, i>> # p
    <3>1. At(W, a) # {}
      BY <1>4 DEF At
    <3>2. Keeps(m, {}, W, a)
      BY <1>2 DEF Sound
    <3>3. \A i \in 1 .. Big : <<a, i>> # p
      BY <1>2, <1>3, PlacesAre
    <3> QED BY <3>1, <3>2, <3>3 DEF Keeps
  <2> QED BY <2>3, <2>4
<1>8. Sound(m, {a}, W1)
  <2>1. O \union {a} = {a}
    BY <1>6
  <2> QED BY <1>5, <1>7, <2>1
<1>9. W1[p] = Free /\ \A q \in Places : q # p => W1[q] = W[q]
  BY <1>4, <1>5
<1>10. \A i \in 1 .. Big : W1[<<a, i>>] = Element(m.heap[a], i)
  BY <1>2, <1>7, <1>9, PlacesAre
<1>11. \A q \in Open({}) : q # p /\ q # Hand => W1[q] = V[q]
  BY <1>9 DEF Open
<1>12. Taken(V, x, a, m, W[Hand], W1)
  BY <1>3, <1>4, <1>8, <1>9, <1>10, <1>11 DEF Taken, Within
<1> QED BY <1>12

\* It leaves the array in the variable.
LEMMA CloseArray ==
  ASSUME slots \in [Vars -> Contents], NEW W, Shows(slots, mem, W), ~mem.stuck, NEW x \in Vars, HasArray(x),
         NEW a, a = slots[x].v.i, NEW m1, NEW W1, Taken(W, x, a, m1, Free, W1), ~m1.full, ~m1.stuck,
         m1.heap[a].el = mem.heap[a].el, m1.heap[a].fixed = mem.heap[a].fixed
  PROVE  Right(slots, m1)
<1>1. HasIt(mem, x, a)
  <2>1. Sound(mem, {}, W) /\ W[<<x, 0>>] = slots[x]
    BY ShownIs, Zenon
  <2> QED BY <2>1, ArrayHeld
<1>2. /\ a \in Ids /\ mem.heap[a].k = "array" /\ slots[x].ty \in AllTypes
      /\ slots[x] = [ty |-> slots[x].ty, v |-> Ref("array", a)]
      /\ planForType[slots[x].ty].drop = DropOf(mem.heap[a]) /\ Under(mem.heap[a].el, slots[x].ty)
  BY <1>1 DEF HasIt
<1>3. /\ Sound(m1, {a}, W1) /\ W1[<<x, 0>>] = Free /\ W1[Hand] = Free /\ W1 \in [Places -> Contents]
      /\ \A p \in Open({}) : p # <<x, 0>> /\ p # Hand => W1[p] = W[p]
      /\ \A i \in 1 .. Big : W1[<<a, i>>] = Element(m1.heap[a], i)
  BY DEF Taken, Within, Sound
<1>4. m1.heap[a].k = "array"
  <2>1. a \in {a} /\ Keeps(m1, {a}, W1, a)
    BY <1>2, <1>3, SoundIs
  <2> QED BY <2>1 DEF Keeps
<1>5. PICK A, t, p, c : A = {a} /\ t = slots[x].ty /\ p = <<x, 0>> /\ c = slots[x]
  OBVIOUS
<1>6. p \in Open(A) /\ p \in Places /\ p[2] = 0 /\ ~IsRef(W1[p].v)
  BY <1>3, <1>5, OpenIs, FreeIs
<1>7. planForType[t].drop = DropOf(m1.heap[a]) /\ Under(m1.heap[a].el, t)
  BY <1>2, <1>4, <1>5 DEF DropOf
<1>8. PICK W2 : W2 = [W1 EXCEPT ![p] = c]
  OBVIOUS
<1>9. Sound(m1, {}, W2)
  <2>1. a \in A /\ Sound(m1, A, W1) /\ t \in AllTypes
    BY <1>2, <1>3, <1>5
  <2>2. Sound(m1, A \ {a}, [W1 EXCEPT ![p] = [ty |-> t, v |-> Ref("array", a)]])
    BY <1>3, <1>6, <1>7, <2>1, Attached
  <2>3. A \ {a} = {}
    BY <1>5
  <2> QED BY <1>2, <1>5, <1>8, <2>2, <2>3
<1>10. W[Hand] = Free /\ Hand \in Places /\ Hand # p
  <2>1. \A j \in 1 .. Big : W[<<0, j>>] = Free
    BY ShownIs
  <2> QED BY <1>5, <2>1, OpenIs DEF Hand
<1>11. W2[p] = c /\ \A q \in Open({}) : q # p => W2[q] = W[q]
  <2>1. W2[p] = c /\ \A q \in Places : q # p => W2[q] = W1[q]
    BY <1>3, <1>6, <1>8
  <2>2. ASSUME NEW q \in Open({}), q # p PROVE W2[q] = W[q]
    <3>1. q \in Places
      BY DEF Open
    <3>2. CASE q = Hand
      BY <1>3, <1>10, <2>1, <3>2, Zenon
    <3>3. CASE q # Hand
      BY <1>3, <1>5, <2>1, <2>2, <3>1, <3>3
    <3> QED BY <3>2, <3>3
  <2> QED BY <2>1, <2>2
<1>12. Puts(W, x, c, m1, W2)
  BY <1>5, <1>9, <1>11 DEF Puts
<1>13. Right([slots EXCEPT ![x] = c], m1)
  BY <1>12, PlacedRight
<1>14. [slots EXCEPT ![x] = c] = slots
  BY <1>5
<1> QED BY <1>13, <1>14

\* It has a copy of the variable y in the hand as well.
LEMMA TakeCopy ==
  ASSUME RegsOK, NEW W, Shows(slots, mem, W), ~mem.stuck, NEW x \in Vars, HasArray(x), NEW a, a = slots[x].v.i,
         NEW y \in Vars, slots[y] # Free, NEW r, r = CopyOf(y), ~r.m.full
  PROVE  /\ ~r.m.stuck /\ r.m.heap[a] = mem.heap[a] /\ r.v \in Values /\ r.m \in Memories
         /\ \E W1 : Taken(W, x, a, r.m, [ty |-> slots[y].ty, v |-> r.v], W1)
<1>1. PICK p, c : p = <<y, 0>> /\ c = [ty |-> slots[y].ty, v |-> r.v]
  OBVIOUS
<1>2. /\ Sound(mem, {}, W) /\ W[p] = slots[y] /\ W[<<x, 0>>] = slots[x] /\ p \in Places
      /\ Hand \in Open({}) /\ Hand \in Places /\ W[Hand] = Free
  <2>1. \A j \in 1 .. Big : W[<<0, j>>] = Free
    BY ShownIs
  <2>2. W[Hand] = Free
    BY <2>1, OpenIs DEF Hand
  <2> QED BY <1>1, <2>2, ShownIs, OpenIs
<1>3. r = copyValue(W[p].v, W[p].ty, mem)
  BY <1>2 DEF CopyOf
<1>4. r \in VMs /\ Keeping(mem, r.m) /\ \E W1 : CopiedTo(mem, {}, W, p, Hand, r, W1)
  BY <1>2, <1>3, CopyIs
<1>5. PICK W1 : CopiedTo(mem, {}, W, p, Hand, r, W1)
  BY <1>4
<1>6. /\ Sound(r.m, {}, W1) /\ r.m.stuck = mem.stuck /\ W1[Hand] = c
      /\ \A s \in Places : s # Hand /\ (W[s] # Free \/ s \in Open({})) => W1[s] = W[s]
  BY <1>1, <1>2, <1>5 DEF CopiedTo
<1>7. W1[<<x, 0>>] = slots[x]
  <2>1. <<x, 0>> \in Places /\ <<x, 0>> \in Open({}) /\ <<x, 0>> # Hand
    BY OpenIs DEF Hand
  <2> QED BY <1>2, <1>6, <2>1
<1>8. \A q \in Open({}) : q # Hand => W[q] = W1[q]
  BY <1>6 DEF Open
<1>9. \E W2 : Taken(W, x, a, r.m, W1[Hand], W2)
  BY <1>6, <1>7, <1>8, OpenArray
<1>10. r.m.heap[a] = mem.heap[a]
  <2>1. HasIt(mem, x, a)
    BY <1>2, ArrayHeld
  <2>2. a \in Ids /\ mem.heap[a].k = "array"
    BY <2>1 DEF HasIt
  <2> QED BY <1>4, <2>2 DEF Keeping
<1>11. r.v \in Values /\ r.m \in Memories
  BY <1>4, VMIs
<1> QED BY <1>1, <1>6, <1>9, <1>10, <1>11

\* The memory is sound with the other data.
LEMMA DataWritten ==
  ASSUME NEW m, NEW a \in Ids, NEW W, Sound(m, {a}, W), NEW vs \in Seq(Values), NEW o, o = m.heap[a],
         Len(vs) <= o.cap, o.fixed => Len(vs) = FixedLength, ~o.fixed => Len(vs) <= MaxLength,
         NEW m1, m1 = [m EXCEPT !.heap[a].data = vs]
  PROVE  Rewritten(m, a, W, vs, m1)
<1>1. m \in Memories /\ Keeps(m, {a}, W, a)
  BY DEF Sound
<1>2. o.k = "array" /\ o.rc = 1 /\ Sizes(o)
  BY <1>1 DEF Keeps
<1>3. o \in Arrays
  BY <1>1, <1>2, ArrayIn
<1>4. PICK b : b = [o EXCEPT !.data = vs]
  OBVIOUS
<1>5. b \in Arrays /\ b.rc = 1 /\ b.data = vs /\ b.el = o.el /\ b.fixed = o.fixed /\ b.cap = o.cap
  BY <1>2, <1>3, <1>4 DEF Arrays
<1>6. b.k = "array" /\ b \in Objects
  BY <1>5, KindsAre
<1>7. Sizes(b)
  BY <1>2, <1>5 DEF Sizes
<1>8. m1 = Put(m, a, b)
  <2>1. m.heap \in [Ids -> Objects]
    BY <1>1, MemoryIs
  <2> QED BY <1>4, <2>1 DEF Put
<1>9. IsPut(m1, m, a, b)
  BY <1>1, <1>6, <1>8, PutFacts
<1>10. Sound(m1, {a}, W)
  <2>1. PICK A : A = {a}
    OBVIOUS
  <2>2. a \in A /\ A \union {a} = A /\ Sound(m, A, W)
    BY <2>1
  <2>3. Sound(Put(m, a, b), A \union {a}, W)
    BY <1>5, <1>7, <2>2, Written
  <2> QED BY <1>8, <2>1, <2>2, <2>3
<1> QED BY <1>5, <1>6, <1>9, <1>10 DEF IsPut, Rewritten

\* A sequence with another element.
LEMMA OtherElement ==
  ASSUME NEW S, NEW s \in Seq(S), NEW i \in DOMAIN s, NEW v \in S
  PROVE  LET t == [s EXCEPT ![i] = v]
         IN  /\ t \in Seq(S) /\ Len(t) = Len(s) /\ DOMAIN t = DOMAIN s /\ t[i] = v
             /\ \A j \in DOMAIN s : j # i => t[j] = s[j]
OBVIOUS

\* arraySet.
LEMMA SetElement ==
  ASSUME RegsOK, NEW m, NEW a \in Ids, NEW W, Sound(m, {a}, W), NEW i \in DOMAIN m.heap[a].data,
         \A j \in 1 .. Big : W[<<a, j>>] = Element(m.heap[a], j),
         NEW v \in Values, W[Hand] = [ty |-> m.heap[a].el, v |-> v],
         NEW m1, m1 = arraySet(a, i, v, m)
  PROVE  \E W1 : ElementSet(a, i, v, m, W, m1, W1)
<1>1. m \in Memories /\ W \in [Places -> Contents] /\ Keeps(m, {a}, W, a)
  BY DEF Sound
<1>2. PICK o : o = m.heap[a]
  OBVIOUS
<1>3. o.k = "array" /\ o.rc = 1
  BY <1>1, <1>2 DEF Keeps
<1>4. /\ o \in Arrays /\ o.data \in Seq(Values) /\ o.el \in AllTypes /\ Sizes(o) /\ Len(o.data) \in Nat /\ i \in 1 .. Big
      /\ o.data[i] \in Values /\ DOMAIN o.data \subseteq 1 .. Big
  <2>1. /\ o \in Arrays /\ o.data \in Seq(Values) /\ o.el \in AllTypes /\ Sizes(o) /\ Len(o.data) \in Nat
        /\ DOMAIN o.data = 1 .. Len(o.data)
        /\ \A j \in 1 .. Len(o.data) : o.data[j] \in Values /\ j \in 1 .. Big
    BY <1>2, <1>3, DataFits
  <2> QED BY <1>2, <2>1
<1>5. PICK p : p = <<a, i>>
  OBVIOUS
<1>6. p \in Places /\ p \in Open({a}) /\ p # Hand /\ Hand \in Places /\ Hand \in Open({a})
  <2>1. a # 0
    BY PlacesAre
  <2> QED BY <1>4, <1>5, <2>1, PlacesAre, OpenIs DEF Open, Hand
<1>7. W[p] = [ty |-> o.el, v |-> o.data[i]] /\ W[p] # Free
  BY <1>2, <1>3, <1>4, <1>5, NotFree DEF Element
<1>8. PICK md : md = dropValue(W[p].v, W[p].ty, m)
  OBVIOUS
<1>9. PICK W1 : Emptied(m, {a}, W, p, md, W1) /\ md.full = m.full /\ md.stuck = m.stuck
  BY <1>6, <1>7, <1>8, DropIs
<1>10. /\ Sound(md, {a}, W1) /\ W1[p] = Free /\ md.heap[a] = o
       /\ \A q \in Open({a}) : q # p => W1[q] = W[q]
  BY <1>2, <1>9 DEF Emptied
<1>11. PICK vs : vs = [o.data EXCEPT ![i] = v]
  OBVIOUS
<1>12. vs \in Seq(Values) /\ Len(vs) = Len(o.data) /\ DOMAIN vs = DOMAIN o.data /\ vs[i] = v
       /\ \A j \in DOMAIN o.data : j # i => vs[j] = o.data[j]
  BY <1>2, <1>4, <1>11, OtherElement
<1>13. m1 = [md EXCEPT !.heap[a].data = vs]
  <2>1. m1 = [md EXCEPT !.heap[a].data[i] = v]
    <3>1. md = dropValue(m.heap[a].data[i], m.heap[a].el, m)
      BY <1>2, <1>7, <1>8
    <3> QED BY <3>1, Zenon DEF arraySet
  <2>2. md \in Memories
    BY <1>10 DEF Sound
  <2>3. md.heap \in [Ids -> Objects]
    BY <2>2, MemoryIs
  <2> QED BY <1>10, <1>11, <2>1, <2>3, Zenon
<1>14. /\ Sound(m1, {a}, W1) /\ m1.full = md.full /\ m1.stuck = md.stuck
       /\ m1.heap[a].data = vs /\ m1.heap[a].el = o.el /\ m1.heap[a].fixed = o.fixed /\ m1.heap[a].k = "array"
  <2>0. md.heap[a] = o
    BY <1>10
  <2>1. Len(vs) <= o.cap /\ (o.fixed => Len(vs) = FixedLength) /\ (~o.fixed => Len(vs) <= MaxLength)
    BY <1>3, <1>4, <1>12 DEF Sizes
  <2>2. o = md.heap[a] /\ vs \in Seq(Values) /\ Sound(md, {a}, W1)
    BY <1>10, <1>12
  <2>3. Rewritten(md, a, W1, vs, m1)
    BY <1>13, <2>1, <2>2, DataWritten
  <2> QED BY <2>0, <2>3 DEF Rewritten
<1>15. PICK W2 : W2 = [W1 EXCEPT ![p] = W1[Hand], ![Hand] = Free]
  OBVIOUS
<1>16. Sound(m1, {a}, W2)
  <2>1. ~IsRef(W1[p].v)
    BY <1>10, FreeIs
  <2> QED BY <1>6, <1>14, <1>15, <2>1, Carried
<1>17. W1[Hand] = [ty |-> o.el, v |-> v] /\ W1 \in [Places -> Contents]
  <2>1. W1 \in [Places -> Contents]
    BY <1>10 DEF Sound
  <2> QED BY <1>2, <1>6, <1>10, <2>1
<1>18. W2[p] = [ty |-> o.el, v |-> v] /\ W2[Hand] = Free /\ \A q \in Places : q # p /\ q # Hand => W2[q] = W1[q]
  BY <1>6, <1>15, <1>17
<1>19. ASSUME NEW j \in 1 .. Big PROVE W2[<<a, j>>] = Element(m1.heap[a], j)
  <2>1. Element(m1.heap[a], j) = IF j \in DOMAIN vs THEN [ty |-> o.el, v |-> vs[j]] ELSE Free
    BY <1>14 DEF Element
  <2>2. CASE j = i
    BY <1>2, <1>5, <1>12, <1>18, <2>1, <2>2
  <2>3. CASE j # i
    <3>1. <<a, j>> \in Places /\ <<a, j>> # p /\ <<a, j>> # Hand /\ <<a, j>> \in Open({a})
      <4>1. a # 0
        BY PlacesAre
      <4> QED BY <1>5, <2>3, <4>1, PlacesAre DEF Open, Hand
    <3>2. W2[<<a, j>>] = W[<<a, j>>]
      BY <1>10, <1>18, <3>1
    <3>3. W[<<a, j>>] = IF j \in DOMAIN o.data THEN [ty |-> o.el, v |-> o.data[j]] ELSE Free
      BY <1>2, <1>3 DEF Element
    <3> QED BY <1>12, <2>1, <2>3, <3>2, <3>3
  <2> QED BY <2>2, <2>3
<1>20. ASSUME NEW q \in Open({}), q # Hand PROVE W2[q] = W[q]
  <2>1. q \in Places /\ q \in Open({a}) /\ (q[2] = 0 \/ q[1] = 0)
    BY DEF Open
  <2>2. a # 0 /\ i # 0
    BY <1>4, PlacesAre
  <2>3. q # p
    BY <1>5, <2>1, <2>2
  <2> QED BY <1>10, <1>18, <1>20, <2>1, <2>3
<1>21. ElementSet(a, i, v, m, W, m1, W2)
  BY <1>2, <1>9, <1>11, <1>14, <1>16, <1>18, <1>19, <1>20 DEF ElementSet
<1> QED BY <1>21

\* What Change does.
LEMMA ChangeIs ==
  ASSUME NEW x, NEW m1, Change(x, m1)
  PROVE  HasArray(x) /\ ~m1.full /\ mem' = m1 /\ slots' = slots /\ regs' = regs
BY DEF Change

\* An element is set.
LEMMA SetMade ==
  ASSUME RegsOK, Right(slots, mem), ~mem.stuck, NEW x \in Vars, NEW i, NEW y \in Vars, Set(x, i, y)
  PROVE  Right(slots', mem') /\ regs' = regs
<1>1. PICK r : r = CopyOf(y)
  OBVIOUS
<1>2. PICK a : a = slots[x].v.i
  OBVIOUS
<1>3. PICK m1 : m1 = arraySet(a, i, r.v, r.m)
  OBVIOUS
<1>4. /\ HasArray(x) /\ slots[y] # Free /\ slots[y].ty = mem.heap[a].el /\ i \in DOMAIN mem.heap[a].data
      /\ Change(x, m1)
  BY <1>1, <1>2, <1>3 DEF Set, Takes, ElementType, Array, Data
<1>5. ~m1.full /\ mem' = m1 /\ slots' = slots /\ regs' = regs
  BY <1>4, ChangeIs
<1>6. slots \in [Vars -> Contents]
  BY DEF Right
<1>7. PICK W : Shows(slots, mem, W)
  BY DEF Right
<1>8. a \in Ids
  <2>1. Sound(mem, {}, W) /\ W[<<x, 0>>] = slots[x]
    BY <1>7, ShownIs
  <2>2. HasIt(mem, x, a)
    BY <1>2, <1>4, <2>1, ArrayHeld
  <2> QED BY <2>2 DEF HasIt
<1>9. CASE r.m.full
  <2>1. PICK c \in CopyFns, d \in DropFns : c = copying[MaxNesting + 1] /\ d = dropping[MaxNesting + 1]
    BY CopyValueOk, DropValueOk
  <2>2. slots[y].v \in Values /\ slots[y].ty \in AllTypes /\ mem \in Memories
    BY <1>4, <1>6, <1>7, ShownIs DEF Contents
  <2>3. r \in VMs /\ Keeping(mem, r.m)
    <3>1. PICK b : b = <<slots[y].v, slots[y].ty, mem>>
      OBVIOUS
    <3>2. b \in Arguments /\ b[3] = mem /\ r = c[b]
      BY <1>1, <2>1, <2>2, <3>1 DEF Arguments, CopyOf, copyValue
    <3> QED BY <3>2 DEF CopyFns
  <2>4. r.m \in Memories /\ r.v \in Values
    BY <2>3, VMIs
  <2>5. r.m.heap[a].k = "array" /\ r.m.heap[a] = mem.heap[a]
    <3>1. mem.heap[a].k = "array"
      <4>1. Sound(mem, {}, W) /\ W[<<x, 0>>] = slots[x]
        BY <1>7, ShownIs
      <4>2. HasIt(mem, x, a)
        BY <1>2, <1>4, <4>1, ArrayHeld
      <4> QED BY <4>2 DEF HasIt
    <3> QED BY <1>8, <2>3, <3>1 DEF Keeping
  <2>6. PICK o : o = mem.heap[a]
    OBVIOUS
  <2>7. o.data[i] \in Values /\ o.el \in AllTypes
    <3>1. o.data \in Seq(Values) /\ o.el \in AllTypes
      BY <1>8, <2>4, <2>5, <2>6, ArrayIn
    <3> QED BY <1>4, <2>6, <3>1, SeqFacts
  <2>8. PICK md : md = dropValue(o.data[i], o.el, r.m)
    OBVIOUS
  <2>9. md \in Memories /\ md.full
    <3>1. PICK b : b = <<o.data[i], o.el, r.m>>
      BY Zenon
    <3>2. b \in Arguments /\ b[3] = r.m /\ md = d[b]
      BY <2>1, <2>4, <2>7, <2>8, <3>1 DEF Arguments, dropValue
    <3> QED BY <1>9, <3>2 DEF DropFns
  <2>10. m1 = [md EXCEPT !.heap[a].data[i] = r.v]
    BY <1>3, <2>5, <2>6, <2>8, Zenon DEF arraySet
  <2>11. m1.full = md.full
    BY <2>9, <2>10 DEF Memories
  <2> QED BY <1>5, <2>9, <2>11
<1>10. CASE ~r.m.full
  <2>1. ~r.m.stuck /\ r.m.heap[a] = mem.heap[a] /\ r.v \in Values
    BY <1>1, <1>2, <1>4, <1>7, <1>10, TakeCopy, Zenon
  <2>2. PICK W1 : Taken(W, x, a, r.m, [ty |-> slots[y].ty, v |-> r.v], W1)
    BY <1>1, <1>2, <1>4, <1>7, <1>10, TakeCopy
  <2>3. /\ Sound(r.m, {a}, W1) /\ W1[<<x, 0>>] = Free
        /\ \A p \in Open({}) : p # <<x, 0>> /\ p # Hand => W1[p] = W[p]
        /\ \A j \in 1 .. Big : W1[<<a, j>>] = Element(r.m.heap[a], j)
        /\ W1[Hand] = [ty |-> r.m.heap[a].el, v |-> r.v] /\ i \in DOMAIN r.m.heap[a].data
    BY <1>4, <2>1, <2>2 DEF Taken, Within
  <2>4. PICK W2 : ElementSet(a, i, r.v, r.m, W1, m1, W2)
    BY <1>3, <1>8, <2>1, <2>3, SetElement
  <2>5. /\ Sound(m1, {a}, W2) /\ ~m1.stuck /\ W2[Hand] = Free
        /\ m1.heap[a].el = mem.heap[a].el /\ m1.heap[a].fixed = mem.heap[a].fixed
        /\ \A j \in 1 .. Big : W2[<<a, j>>] = Element(m1.heap[a], j)
        /\ \A p \in Open({}) : p # Hand => W2[p] = W1[p]
    BY <2>1, <2>4 DEF ElementSet
  <2>6. Taken(W, x, a, m1, Free, W2)
    <3>1. <<x, 0>> \in Open({}) /\ <<x, 0>> # Hand
      BY OpenIs DEF Hand
    <3> QED BY <2>3, <2>5, <3>1 DEF Taken, Within
  <2>7. Right(slots, m1)
    BY <1>2, <1>4, <1>5, <1>6, <1>7, <2>5, <2>6, CloseArray
  <2> QED BY <1>5, <2>7
<1> QED BY <1>9, <1>10

\* The array of a variable, and the memory when a method has it.
LEMMA MethodOpens ==
  ASSUME Right(slots, mem), ~mem.stuck, NEW x \in Vars, HasArray(x), NEW a, a = slots[x].v.i
  PROVE  \E W, W1 : Shows(slots, mem, W) /\ Taken(W, x, a, mem, Free, W1)
<1>1. PICK W : Shows(slots, mem, W)
  BY DEF Right
<1>2. Sound(mem, {}, W) /\ W[<<x, 0>>] = slots[x] /\ W[Hand] = Free
  <2>1. \A j \in 1 .. Big : W[<<0, j>>] = Free
    BY <1>1, ShownIs
  <2> QED BY <1>1, <2>1, ShownIs, OpenIs DEF Hand
<1>3. \A p \in Open({}) : p # Hand => W[p] = W[p]
  OBVIOUS
<1>4. \E W1 : Taken(W, x, a, mem, W[Hand], W1)
  BY <1>2, <1>3, OpenArray
<1> QED BY <1>1, <1>2, <1>4

\* That is what a method has.
LEMMA TakenIs ==
  ASSUME NEW W, NEW x, NEW a, NEW m, NEW c, NEW W1, Taken(W, x, a, m, c, W1)
  PROVE  Method(W, x, a, m, c, W1)
<1>1. /\ Sound(m, {a}, W1) /\ W1[<<x, 0>>] = Free /\ W1[Hand] = c
      /\ \A p \in Open({}) : p # <<x, 0>> /\ p # Hand => W1[p] = W[p]
      /\ \A i \in 1 .. Big : W1[<<a, i>>] = Element(m.heap[a], i)
  BY DEF Taken, Within
<1>2. m \in Memories /\ a \in Ids /\ Keeps(m, {a}, W1, a) /\ W1 \in [Places -> Contents]
  BY <1>1 DEF Sound
<1>3. m.heap[a].k = "array" /\ m.heap[a].rc = 1 /\ Sizes(m.heap[a])
  BY <1>2 DEF Keeps
<1>4. m.heap[a] \in Arrays
  BY <1>2, <1>3, ArrayIn
<1> QED BY <1>1, <1>2, <1>3, <1>4 DEF Method

\* An array is cleared.
LEMMA ClearMade ==
  ASSUME RegsOK, Right(slots, mem), ~mem.stuck, NEW x \in Vars, Clear(x)
  PROVE  Right(slots', mem') /\ regs' = regs
<1>1. PICK a, m1 : a = slots[x].v.i /\ m1 = arrayClear(a, mem)
  OBVIOUS
<1>2. HasArray(x) /\ Change(x, m1)
  BY <1>1 DEF Clear
<1>3. ~m1.full /\ mem' = m1 /\ slots' = slots /\ regs' = regs
  BY <1>2, ChangeIs
<1>4. PICK o : o = mem.heap[a]
  OBVIOUS
<1>5. CASE o.fixed
  <2>1. m1 = mem
    BY <1>1, <1>4, <1>5 DEF arrayClear
  <2> QED BY <1>3, <2>1
<1>6. CASE ~o.fixed
  <2>1. PICK W, W1 : Shows(slots, mem, W) /\ Taken(W, x, a, mem, Free, W1)
    BY <1>1, <1>2, MethodOpens
  <2>0. Method(W, x, a, mem, Free, W1)
    BY <2>1, TakenIs
  <2>2. /\ Sound(mem, {a}, W1) /\ W1[<<x, 0>>] = Free /\ W1[Hand] = Free /\ a \in Ids
        /\ \A p \in Open({}) : p # <<x, 0>> /\ p # Hand => W1[p] = W[p]
        /\ \A i \in 1 .. Big : W1[<<a, i>>] = Element(mem.heap[a], i)
    BY <2>0 DEF Method
  <2>3. o.k = "array" /\ o \in Arrays /\ Sizes(o)
    BY <1>4, <2>0 DEF Method
  <2>4. /\ o.data \in Seq(Values) /\ o.el \in AllTypes /\ Len(o.data) \in Nat /\ Len(o.data) <= Big
        /\ DOMAIN o.data = 1 .. Len(o.data) /\ \A i \in 1 .. Len(o.data) : i \in 1 .. Big
    BY <1>4, <2>2, <2>3, DataFits
  <2>5. PICK d \in DropFns : d = dropping[MaxNesting + 1] /\ DropOk(d, AllTypes)
    BY DropValueOk
  <2>6. PICK md : md = DropAll(d, o.data, o.el, mem)
    BY Zenon
  <2>7. m1 = [md EXCEPT !.heap[a].data = << >>]
    BY <1>1, <1>4, <1>6, <2>5, <2>6, Zenon DEF arrayClear
  <2>8. mem \in Memories /\ ~mem.full
    BY <2>2 DEF Sound, Right
  <2>9. md.full = mem.full /\ md.stuck = mem.stuck /\ md \in Memories
    BY <2>4, <2>5, <2>6, <2>8, DropAllTyped
  <2>10. PICK n : n = Len(o.data)
    OBVIOUS
  <2>11. PICK W2 : AllEmptied(mem, {a}, W1, a, n, md, W2)
    <3>1. \A i \in 1 .. Len(o.data) : W1[<<a, i>>] = [ty |-> o.el, v |-> o.data[i]]
      BY <1>4, <2>2, <2>3, <2>4 DEF Element
    <3>2. a \in {a} /\ AllTypes \in SUBSET AllTypes
      OBVIOUS
    <3> QED BY <2>2, <2>4, <2>5, <2>6, <2>10, <3>1, <3>2, ElementsDropped
  <2>12. /\ Sound(md, {a}, W2) /\ md.heap[a] = o
         /\ \A i \in 1 .. n : W2[<<a, i>>] = Free
         /\ \A q \in Open({a}) : (\A i \in 1 .. n : q # <<a, i>>) => W2[q] = W1[q]
    BY <1>4, <2>11 DEF AllEmptied
  <2>13. PICK vs : vs = << >> /\ vs \in Seq(Values) /\ Len(vs) = 0 /\ DOMAIN vs = {}
    <3>1. << >> \in Seq(Values) /\ Len(<< >>) = 0 /\ DOMAIN << >> = {}
      OBVIOUS
    <3> QED BY <3>1
  <2>14. Rewritten(md, a, W2, vs, m1)
    <3>1. Len(vs) <= o.cap /\ (o.fixed => Len(vs) = FixedLength) /\ (~o.fixed => Len(vs) <= MaxLength)
      BY <1>6, <2>3, <2>13, PlacesAre DEF Arrays
    <3>2. o = md.heap[a]
      BY <2>12
    <3>3. m1 = [md EXCEPT !.heap[a].data = vs]
      BY <2>7, <2>13
    <3> QED BY <2>2, <2>12, <2>13, <3>1, <3>2, <3>3, DataWritten
  <2>15. /\ Sound(m1, {a}, W2) /\ m1.full = md.full /\ m1.stuck = md.stuck
         /\ m1.heap[a].data = vs /\ m1.heap[a].el = o.el /\ m1.heap[a].fixed = o.fixed /\ m1.heap[a].k = "array"
    BY <2>12, <2>14 DEF Rewritten
  <2>16. ASSUME NEW q \in Open({}) PROVE W2[q] = W1[q]
    <3>1. q \in Open({a}) /\ (q[2] = 0 \/ q[1] = 0)
      BY DEF Open
    <3>2. \A i \in 1 .. n : q # <<a, i>>
      BY <2>2, <2>4, <2>10, <3>1, PlacesAre
    <3> QED BY <2>12, <3>1, <3>2
  <2>17. ASSUME NEW i \in 1 .. Big PROVE W2[<<a, i>>] = Element(m1.heap[a], i)
    <3>1. Element(m1.heap[a], i) = Free
      BY <2>13, <2>15 DEF Element
    <3>2. CASE i \in 1 .. n
      BY <2>12, <3>1, <3>2
    <3>3. CASE i \notin 1 .. n
      <4>1. W1[<<a, i>>] = Free
        BY <1>4, <2>2, <2>4, <2>10, <3>3 DEF Element
      <4>2. <<a, i>> \in Open({a})
        BY <2>2, OpenIs
      <4>3. \A j \in 1 .. n : <<a, i>> # <<a, j>>
        BY <3>3
      <4> QED BY <2>12, <3>1, <4>1, <4>2, <4>3
    <3> QED BY <3>2, <3>3
  <2>18. Taken(W, x, a, m1, Free, W2)
    <3>1. <<x, 0>> \in Open({}) /\ Hand \in Open({})
      BY OpenIs, Zenon
    <3> QED BY <2>2, <2>15, <2>16, <2>17, <3>1 DEF Taken, Within
  <2>19. Right(slots, m1)
    <3>1. slots \in [Vars -> Contents] /\ ~m1.full /\ ~m1.stuck
      BY <2>8, <2>9, <2>15 DEF Right
    <3> QED BY <1>1, <1>2, <1>4, <2>1, <2>15, <2>18, <3>1, CloseArray
  <2> QED BY <1>3, <2>19
<1> QED BY <1>5, <1>6

\* Without gives that sequence.
LEMMA WithoutIs ==
  ASSUME NEW S, NEW s \in Seq(S), NEW n, n = Len(s), NEW i \in 1 .. n, NEW t, t = Without(s, i)
  PROVE  t \in Seq(S) /\ WithoutIt(s, i, t, n)
<1>1. n \in Nat /\ n - 1 \in Nat /\ \A j \in 1 .. n : s[j] \in S
  BY SeqFacts
<1>2. t = [j \in 1 .. n - 1 |-> IF j < i THEN s[j] ELSE s[j + 1]]
  BY DEF Without
<1>3. \A j \in 1 .. n - 1 : j \in 1 .. n /\ j + 1 \in 1 .. n
  BY <1>1
<1>4. t \in [1 .. n - 1 -> S]
  BY <1>1, <1>2, <1>3
<1>5. t \in Seq(S) /\ Len(t) = n - 1
  BY <1>1, <1>4, IsSeq
<1> QED BY <1>2, <1>5 DEF WithoutIt

\* They move down one after the other.
LEMMA MovedDown ==
  ASSUME NEW m, NEW a \in Ids, NEW W, Sound(m, {a}, W), NEW n \in 1 .. Big, NEW i \in 1 .. n, W[<<a, i>>] = Free
  PROVE  \E V : Hole(a, i, n, m, W, V)
<1>1. Big \in Nat /\ n \in Nat /\ i \in Nat
  BY PlacesAre
<1>2. PICK d : d = n - i
  OBVIOUS
<1>3. d \in Nat /\ i + d = n
  BY <1>1, <1>2
<1> DEFINE S == {k \in 0 .. d : \E V : Hole(a, i, i + k, m, W, V)}
<1>4. 0 \in S
  <2>1. i + 0 = i
    BY <1>1
  <2>2. \A j \in 1 .. Big : ~(i <= j /\ j < i)
    BY <1>1
  <2>3. Hole(a, i, i, m, W, W)
    BY <2>2 DEF Hole
  <2> QED BY <1>3, <2>1, <2>3
<1>5. ASSUME NEW k \in 0 .. d - 1, k \in S PROVE k + 1 \in S
  <2>1. PICK h, g : h = i + k /\ g = h + 1
    OBVIOUS
  <2>2. k \in Nat /\ h \in 1 .. Big /\ g \in 1 .. Big /\ g = i + (k + 1) /\ k + 1 \in 0 .. d /\ h < g /\ i <= h
    BY <1>1, <1>2, <2>1
  <2>3. PICK V : Hole(a, i, h, m, W, V)
    BY <1>5, <2>1
  <2>4. PICK p, q : p = <<a, g>> /\ q = <<a, h>>
    OBVIOUS
  <2>5. p \in Open({a}) /\ q \in Open({a}) /\ p # q /\ p \in Places /\ q \in Places
    BY <2>2, <2>4, OpenIs
  <2>6. Sound(m, {a}, V) /\ V[q] = Free /\ ~IsRef(V[q].v) /\ V \in [Places -> Contents]
    BY <2>3, <2>4, FreeIs DEF Hole, Sound
  <2>7. PICK V1 : V1 = [V EXCEPT ![q] = V[p], ![p] = Free]
    OBVIOUS
  <2>8. Sound(m, {a}, V1)
    BY <2>5, <2>6, <2>7, Carried
  <2>9. V1[q] = V[p] /\ V1[p] = Free /\ \A r \in Places : r # p /\ r # q => V1[r] = V[r]
    BY <2>5, <2>6, <2>7
  <2>10. ASSUME NEW j \in 1 .. Big, j # h, j # g PROVE V1[<<a, j>>] = V[<<a, j>>]
    <3>1. <<a, j>> \in Places /\ <<a, j>> # p /\ <<a, j>> # q
      BY <2>4, <2>10, PlacesAre
    <3> QED BY <2>9, <3>1
  <2>11. ASSUME NEW j \in 1 .. Big, j < i \/ j > g PROVE V1[<<a, j>>] = W[<<a, j>>]
    <3>1. j # h /\ j # g /\ (j < i \/ j > h)
      BY <1>1, <2>1, <2>2, <2>11
    <3> QED BY <2>3, <2>10, <3>1 DEF Hole
  <2>12. ASSUME NEW j \in 1 .. Big, i <= j, j < g PROVE V1[<<a, j>>] = W[<<a, j + 1>>]
    <3>1. CASE j = h
      <4>1. V[p] = W[p]
        BY <2>2, <2>3, <2>4 DEF Hole
      <4> QED BY <2>1, <2>4, <2>9, <3>1, <4>1
    <3>2. CASE j # h
      <4>1. j < h /\ j # g
        BY <1>1, <2>1, <2>2, <2>12, <3>2
      <4> QED BY <2>3, <2>10, <2>12, <3>2, <4>1 DEF Hole
    <3> QED BY <3>1, <3>2
  <2>13. ASSUME NEW r \in Open({}) PROVE V1[r] = W[r]
    <3>1. r \in Places /\ (r[2] = 0 \/ r[1] = 0)
      BY DEF Open
    <3>2. r # p /\ r # q
      BY <2>2, <2>4, <3>1, PlacesAre
    <3> QED BY <2>3, <2>9, <3>1, <3>2 DEF Hole
  <2>14. Hole(a, i, g, m, W, V1)
    BY <2>4, <2>8, <2>9, <2>11, <2>12, <2>13 DEF Hole
  <2> QED BY <2>2, <2>14
<1>6. d \in S
  <2>1. 0 .. d \subseteq S
    <3> HIDE DEF S
    <3> QED BY <1>3, <1>4, <1>5, UpTo
  <2> QED BY <1>3, <2>1
<1> QED BY <1>3, <1>6

\* An element is removed.
LEMMA RemoveMade ==
  ASSUME RegsOK, Right(slots, mem), ~mem.stuck, NEW x \in Vars, NEW i, RemoveElement(x, i)
  PROVE  Right(slots', mem') /\ regs' = regs
<1>1. PICK a, m1 : a = slots[x].v.i /\ m1 = arrayRemove(a, i, mem)
  OBVIOUS
<1>2. HasArray(x) /\ Change(x, m1) /\ i \in DOMAIN mem.heap[a].data
  BY <1>1 DEF RemoveElement, Data, Array
<1>3. ~m1.full /\ mem' = m1 /\ slots' = slots /\ regs' = regs
  BY <1>2, ChangeIs
<1>4. PICK o : o = mem.heap[a]
  OBVIOUS
<1>5. CASE o.fixed
  <2>1. m1 = mem
    BY <1>1, <1>4, <1>5, Zenon DEF arrayRemove
  <2> QED BY <1>3, <2>1, Zenon
<1>6. CASE ~o.fixed
  <2>1. PICK W, W1 : Shows(slots, mem, W) /\ Taken(W, x, a, mem, Free, W1)
    BY <1>1, <1>2, MethodOpens
  <2>2. Method(W, x, a, mem, Free, W1)
    BY <2>1, TakenIs
  <2>3. /\ Sound(mem, {a}, W1) /\ W1[<<x, 0>>] = Free /\ W1[Hand] = Free /\ a \in Ids
        /\ \A p \in Open({}) : p # <<x, 0>> /\ p # Hand => W1[p] = W[p]
        /\ \A j \in 1 .. Big : W1[<<a, j>>] = Element(o, j)
        /\ o.k = "array" /\ o \in Arrays /\ Sizes(o)
    BY <1>4, <2>2 DEF Method
  <2>4. PICK n : n = Len(o.data)
    OBVIOUS
  <2>5. /\ o.data \in Seq(Values) /\ n \in Nat /\ n <= Big /\ DOMAIN o.data = 1 .. n /\ i \in 1 .. n /\ n \in 1 .. Big
        /\ (\A j \in 1 .. n : o.data[j] \in Values /\ j \in 1 .. Big) /\ i \in 1 .. Big /\ i \in Nat
    <3>1. o.data \in Seq(Values) /\ n \in Nat /\ n <= Big /\ DOMAIN o.data = 1 .. n
          /\ \A j \in 1 .. n : o.data[j] \in Values /\ j \in 1 .. Big
      BY <1>4, <2>3, <2>4, DataFits
    <3>2. i \in 1 .. n
      BY <1>2, <1>4, <3>1
    <3> QED BY <3>1, <3>2, PlacesAre
  <2>6. PICK p : p = <<a, i>>
    OBVIOUS
  <2>7. W1[p] = [ty |-> o.el, v |-> o.data[i]] /\ W1[p] # Free /\ p \in Open({a}) /\ p \in Places
    <3>1. W1[p] = [ty |-> o.el, v |-> o.data[i]]
      BY <2>3, <2>5, <2>6 DEF Element
    <3> QED BY <2>3, <2>5, <2>6, <3>1, NotFree, OpenIs
  <2>8. PICK md : md = dropValue(W1[p].v, W1[p].ty, mem)
    OBVIOUS
  <2>9. md = dropValue(o.data[i], o.el, mem)
    BY <2>7, <2>8
  <2>10. m1 = [md EXCEPT !.heap[a].data = Without(md.heap[a].data, i)]
    <3>1. m1 = [md EXCEPT !.heap[a].data = Without(@, i)]
      BY <1>1, <1>4, <1>6, <2>9, Zenon DEF arrayRemove
    <3>2. md \in Memories
      <4>1. mem \in Memories /\ o.el \in AllTypes /\ o.data[i] \in Values
        BY <2>3, <2>5 DEF Sound, Arrays
      <4>2. PICK d \in DropFns : d = dropping[MaxNesting + 1]
        BY DropValueOk
      <4>3. PICK b : b = <<o.data[i], o.el, mem>>
        OBVIOUS
      <4>4. b \in Arguments /\ md = d[b]
        BY <2>9, <4>1, <4>2, <4>3 DEF Arguments, dropValue
      <4> QED BY <4>4 DEF DropFns
    <3>3. md.heap \in [Ids -> Objects]
      BY <3>2, MemoryIs
    <3> QED BY <2>3, <3>1, <3>2, <3>3, Zenon
  <2>11. md.full = mem.full /\ md.stuck = mem.stuck /\ \E W2 : Emptied(mem, {a}, W1, p, md, W2)
    BY <2>3, <2>7, <2>8, DropIs
  <2>12. PICK W2 : Emptied(mem, {a}, W1, p, md, W2)
    BY <2>11
  <2>13. /\ Sound(md, {a}, W2) /\ W2[p] = Free /\ md.heap[a] = o
         /\ \A q \in Open({a}) : q # p => W2[q] = W1[q]
    BY <1>4, <2>12 DEF Emptied
  <2>14. PICK vs : vs = Without(o.data, i)
    OBVIOUS
  <2>15. vs \in Seq(Values) /\ WithoutIt(o.data, i, vs, n)
    BY <2>4, <2>5, <2>14, WithoutIs
  <2>16. Rewritten(md, a, W2, vs, m1)
    <3>1. Len(vs) <= o.cap /\ (o.fixed => Len(vs) = FixedLength) /\ (~o.fixed => Len(vs) <= MaxLength)
      <4>1. Len(vs) = n - 1 /\ n <= o.cap /\ n <= MaxLength /\ o.cap \in Nat
        BY <1>6, <2>3, <2>4, <2>15 DEF Sizes, WithoutIt, Arrays
      <4> QED BY <1>6, <2>5, <4>1, PlacesAre
    <3>2. o = md.heap[a]
      BY <2>13
    <3>3. m1 = [md EXCEPT !.heap[a].data = vs]
      BY <2>10, <2>14, <3>2
    <3> QED BY <2>3, <2>13, <2>15, <3>1, <3>2, <3>3, DataWritten
  <2>17. /\ Sound(m1, {a}, W2) /\ m1.full = md.full /\ m1.stuck = md.stuck
         /\ m1.heap[a].data = vs /\ m1.heap[a].el = o.el /\ m1.heap[a].fixed = o.fixed /\ m1.heap[a].k = "array"
    BY <2>13, <2>16 DEF Rewritten
  <2>18. PICK V : Hole(a, i, n, m1, W2, V)
    BY <2>3, <2>5, <2>6, <2>13, <2>17, MovedDown
  <2>19. \A q \in Open({}) : q \in Open({a}) /\ q # p
    BY <2>5, <2>3, <2>6, PlacesAre DEF Open
  <2>20. ASSUME NEW q \in Open({}) PROVE V[q] = W1[q]
    BY <2>13, <2>18, <2>19 DEF Hole
  <2>21. ASSUME NEW j \in 1 .. Big, j # i PROVE W2[<<a, j>>] = Element(o, j)
    <3>1. <<a, j>> \in Open({a}) /\ <<a, j>> # p
      BY <2>3, <2>6, <2>21, OpenIs
    <3> QED BY <2>3, <2>13, <3>1
  <2>22. ASSUME NEW j \in 1 .. Big PROVE V[<<a, j>>] = Element(m1.heap[a], j)
    <3>1. Element(m1.heap[a], j) = IF j \in 1 .. n - 1 THEN [ty |-> o.el, v |-> vs[j]] ELSE Free
      BY <2>15, <2>17 DEF Element, WithoutIt
    <3>2. j \in Nat /\ j # 0
      BY PlacesAre
    <3>3. CASE j < i
      <4>1. V[<<a, j>>] = Element(o, j) /\ j \in 1 .. n - 1 /\ j \in 1 .. n
        BY <2>5, <2>18, <2>21, <3>2, <3>3 DEF Hole
      <4>2. vs[j] = o.data[j]
        BY <2>15, <3>3, <4>1 DEF WithoutIt
      <4> QED BY <2>3, <2>5, <3>1, <4>1, <4>2 DEF Element
    <3>4. CASE i <= j /\ j < n
      <4>1. PICK g : g = j + 1
        OBVIOUS
      <4>2. V[<<a, j>>] = W2[<<a, g>>] /\ j \in 1 .. n - 1 /\ g \in 1 .. n /\ g \in 1 .. Big /\ g # i
        BY <2>5, <2>18, <3>2, <3>4, <4>1 DEF Hole
      <4>3. vs[j] = o.data[g]
        BY <2>5, <2>15, <3>2, <3>4, <4>1, <4>2 DEF WithoutIt
      <4> QED BY <2>3, <2>5, <2>21, <3>1, <4>2, <4>3 DEF Element
    <3>5. CASE j = n
      BY <2>5, <2>18, <3>1, <3>5 DEF Hole
    <3>6. CASE j > n
      <4>1. V[<<a, j>>] = W2[<<a, j>>] /\ j # i /\ j \notin 1 .. n /\ j \notin 1 .. n - 1
        BY <2>5, <2>18, <3>2, <3>6 DEF Hole
      <4> QED BY <2>5, <2>21, <3>1, <4>1 DEF Element
    <3> QED BY <2>5, <3>2, <3>3, <3>4, <3>5, <3>6
  <2>23. Taken(W, x, a, m1, Free, V)
    <3>1. <<x, 0>> \in Open({}) /\ Hand \in Open({})
      BY OpenIs
    <3>2. Sound(m1, {a}, V)
      BY <2>18 DEF Hole
    <3> QED BY <2>3, <2>20, <2>22, <3>1, <3>2 DEF Taken, Within
  <2>24. slots \in [Vars -> Contents] /\ ~m1.full /\ ~m1.stuck
    BY <1>3, <2>11, <2>17, Zenon DEF Right
  <2>25. Right(slots, m1)
    BY <1>1, <1>2, <1>4, <2>1, <2>17, <2>23, <2>24, CloseArray
  <2> QED BY <1>3, <2>25
<1> QED BY <1>5, <1>6

\* The flag of a call that does not end.
LEMMA StuckIs ==
  ASSUME NEW m, NEW O, NEW W, Sound(m, O, W), NEW m1, m1 = [m EXCEPT !.stuck = TRUE]
  PROVE  Sound(m1, O, W) /\ m1.stuck /\ m1.full = m.full /\ m1.heap = m.heap
<1>1. /\ m \in Memories /\ O \subseteq Ids /\ W \in [Places -> Contents] /\ ~m.broken
      /\ \A p \in Places : Fits(W[p], m)
      /\ \A id \in Ids : Keeps(m, O, W, id)
      /\ Hosted(m)
  BY SoundIs
<1>2. /\ m1 \in Memories /\ m1.heap = m.heap /\ m1.host = m.host /\ m1.broken = m.broken /\ m1.stuck /\ m1.full = m.full
  BY <1>1 DEF Memories
<1>3. \A p \in Places : Fits(W[p], m1)
  BY <1>1, <1>2 DEF Fits
<1>4. \A id \in Ids : Keeps(m1, O, W, id)
  BY <1>1, <1>2 DEF Keeps
<1>5. Hosted(m1)
  BY <1>1, <1>2, HostedSame
<1> QED BY <1>1, <1>2, <1>3, <1>4, <1>5 DEF Sound

\* An array that cannot grow has half of the lengths there are.
LEMMA HalfIs ==
  ASSUME NEW len \in Nat, NEW cap \in Capacities, len <= cap, cap < len + 1, 2 * (len + 1) > CapMod
  PROVE  2 * len >= CapMod
<1>1. CapMod \in Nat /\ InitialCapacity \in 1 .. CapMod - 1 /\ Caps \subseteq 1 .. CapMod - 1
  BY CapsAre
<1>2. cap \in Nat /\ cap = len /\ CapMod >= 2
  BY <1>1 DEF Capacities
<1>3. cap # 0
  BY <1>1, <1>2
<1>4. cap \in Caps
  BY <1>3 DEF Capacities
<1>5. PICK c : c = 2 * cap
  OBVIOUS
<1>6. c \in Caps \union {CapMod} /\ c \in Nat /\ c <= CapMod
  BY <1>2, <1>4, <1>5, CapsAre
<1>7. c # CapMod - 1
  <2>1. SUFFICES ASSUME c = CapMod - 1 PROVE FALSE
    OBVIOUS
  <2>2. c \in Caps
    BY <1>1, <1>6, <2>1
  <2>3. 2 * c <= CapMod
    BY <2>2, CapsAre
  <2> QED BY <1>1, <1>2, <1>3, <1>5, <2>1, <2>3
<1> QED BY <1>1, <1>2, <1>5, <1>6, <1>7

\* Either it fails, or there is room.
LEMMA GrowsIs ==
  ASSUME NEW m, NEW a \in Ids, NEW W, Sound(m, {a}, W), ~m.heap[a].fixed,
         NEW g, g = ensureCapacity(a, Len(m.heap[a].data) + 1, m)
  PROVE  NotEnough(m, a, g) \/ Roomier(m, a, W, g)
<1>1. m \in Memories /\ Keeps(m, {a}, W, a)
  BY DEF Sound
<1>2. PICK o : o = m.heap[a]
  OBVIOUS
<1>3. o.k = "array" /\ o.rc = 1 /\ Sizes(o) /\ ~o.fixed
  BY <1>1, <1>2 DEF Keeps
<1>4. o \in Arrays /\ o.data \in Seq(Values) /\ Len(o.data) \in Nat
  BY <1>2, <1>3, DataFits
<1>5. PICK min : min = Len(o.data) + 1
  OBVIOUS
<1>6. o.cap \in Capacities /\ Len(o.data) <= o.cap /\ Len(o.data) <= MaxLength /\ min \in Nat /\ o.cap \in Nat
  BY <1>3, <1>4, <1>5 DEF Sizes, Arrays
<1>7. \/ o.cap >= min /\ g = m
      \/ o.cap < min /\ g = [m EXCEPT !.stuck = TRUE] /\ 2 * min > CapMod
      \/ \E c \in Caps : o.cap < min /\ c >= min /\ g = Put(m, a, [o EXCEPT !.cap = c])
  <2>1. m.heap[a] \in Arrays /\ m.heap[a].cap \in Capacities
    BY <1>2, <1>4, <1>6
  <2>2. g = ensureCapacity(a, min, m)
    BY <1>2, <1>5
  <2>3. LET oo == m.heap[a]
            r == ensureCapacity(a, min, m)
        IN  \/ oo.cap >= min /\ r = m
            \/ /\ oo.cap < min /\ r = [m EXCEPT !.stuck = TRUE]
               /\ 2 * min > CapMod
               /\ oo.cap # 0 => Doubled(oo.cap, min) = 0
            \/ \E c \in Caps : /\ oo.cap < min /\ c >= min /\ r = Put(m, a, [oo EXCEPT !.cap = c])
                               /\ [oo EXCEPT !.cap = c] \in Arrays
    BY <1>1, <1>6, <2>1, EnsureIs
  <2> QED BY <1>2, <2>2, <2>3
<1>8. CASE o.cap >= min /\ g = m
  BY <1>2, <1>3, <1>5, <1>8 DEF Roomier
<1>9. CASE o.cap < min /\ g = [m EXCEPT !.stuck = TRUE] /\ 2 * min > CapMod
  <2>1. 2 * Len(o.data) >= CapMod
    BY <1>4, <1>5, <1>6, <1>9, HalfIs
  <2> QED BY <1>2, <1>9, <2>1 DEF NotEnough
<1>10. ASSUME NEW c \in Caps, c >= min, g = Put(m, a, [o EXCEPT !.cap = c]) PROVE Roomier(m, a, W, g)
  <2>1. c \in Nat /\ c \in Capacities
    BY CapsAre DEF Capacities
  <2>2. PICK b : b = [o EXCEPT !.cap = c]
    OBVIOUS
  <2>3. b \in Arrays /\ b.rc = 1 /\ b.data = o.data /\ b.el = o.el /\ b.fixed = o.fixed /\ b.cap = c /\ b.k = "array"
    BY <1>3, <1>4, <2>1, <2>2 DEF Arrays
  <2>4. Sizes(b)
    BY <1>3, <1>4, <1>5, <1>6, <1>10, <2>1, <2>3 DEF Sizes
  <2>5. IsPut(g, m, a, b)
    <3>1. b \in Objects
      BY <2>3, KindsAre
    <3> QED BY <1>1, <1>10, <2>2, <3>1, PutFacts
  <2>6. Sound(g, {a}, W)
    <3>1. PICK A : A = {a}
      OBVIOUS
    <3>2. a \in A /\ A \union {a} = A /\ Sound(m, A, W)
      BY <3>1
    <3>3. Sound(Put(m, a, b), A \union {a}, W)
      BY <2>3, <2>4, <3>2, Written
    <3> QED BY <1>10, <2>2, <3>1, <3>2, <3>3
  <2> QED BY <1>2, <1>3, <1>5, <1>10, <2>3, <2>5, <2>6 DEF Roomier, IsPut
<1> QED BY <1>7, <1>8, <1>9, <1>10

\* The end of arrayAdd.
LEMMA ElementAppended ==
  ASSUME NEW m, NEW a \in Ids, NEW W, NEW g, Roomier(m, a, W, g), Len(m.heap[a].data) < MaxLength,
         \A j \in 1 .. Big : W[<<a, j>>] = Element(m.heap[a], j),
         NEW v \in Values, W[Hand] = [ty |-> m.heap[a].el, v |-> v],
         NEW m1, m1 = [g EXCEPT !.heap[a].data = Append(m.heap[a].data, v)]
  PROVE  \E W1 : OneMore(a, v, g, W, m1, W1)
<1>1. PICK o : o = g.heap[a]
  OBVIOUS
<1>2. /\ Sound(g, {a}, W) /\ o.k = "array" /\ o.data = m.heap[a].data /\ o.el = m.heap[a].el
      /\ ~o.fixed /\ o.cap >= Len(o.data) + 1
  BY <1>1 DEF Roomier
<1>3. PICK n, k : n = Len(o.data) /\ k = n + 1
  OBVIOUS
<1>4. /\ o \in Arrays /\ o.data \in Seq(Values) /\ n \in Nat /\ n < MaxLength /\ DOMAIN o.data = 1 .. n
      /\ k \in 1 .. Big /\ k \notin 1 .. n /\ o.el \in AllTypes
  <2>1. o \in Arrays /\ o.data \in Seq(Values) /\ n \in Nat /\ DOMAIN o.data = 1 .. n /\ o.el \in AllTypes
    BY <1>1, <1>2, <1>3, DataFits
  <2>2. n < MaxLength
    BY <1>2, <1>3
  <2> QED BY <1>3, <2>1, <2>2, PlacesAre DEF Big
<1>5. PICK vs : vs = Append(o.data, v)
  OBVIOUS
<1>6. vs \in Seq(Values) /\ Len(vs) = k /\ DOMAIN vs = 1 .. k /\ vs[k] = v /\ \A j \in 1 .. n : vs[j] = o.data[j]
  <2>1. vs \in Seq(Values) /\ Len(vs) = k /\ vs[k] = v /\ \A j \in 1 .. n : vs[j] = o.data[j]
    BY <1>3, <1>4, <1>5, Appended
  <2> QED BY <2>1, SeqFacts
<1>7. Rewritten(g, a, W, vs, m1)
  <2>1. Len(vs) <= o.cap /\ (o.fixed => Len(vs) = FixedLength) /\ (~o.fixed => Len(vs) <= MaxLength)
    BY <1>2, <1>3, <1>4, <1>6, PlacesAre DEF Arrays
  <2>2. m1 = [g EXCEPT !.heap[a].data = vs]
    BY <1>2, <1>5
  <2> QED BY <1>1, <1>2, <1>6, <2>1, <2>2, DataWritten
<1>8. /\ Sound(m1, {a}, W) /\ m1.full = g.full /\ m1.stuck = g.stuck
      /\ m1.heap[a].data = vs /\ m1.heap[a].el = o.el /\ m1.heap[a].fixed = o.fixed /\ m1.heap[a].k = "array"
  BY <1>1, <1>7 DEF Rewritten
<1>9. PICK p : p = <<a, k>>
  OBVIOUS
<1>10. p \in Open({a}) /\ p \in Places /\ Hand \in Open({a}) /\ Hand \in Places /\ p # Hand /\ W[p] = Free
  <2>1. p \in Open({a}) /\ p \in Places /\ Hand \in Open({a}) /\ Hand \in Places /\ a # 0
    BY <1>4, <1>9, OpenIs
  <2>2. W[p] = Element(m.heap[a], k)
    BY <1>4, <1>9
  <2>3. k \notin DOMAIN m.heap[a].data
    BY <1>2, <1>4
  <2> QED BY <1>9, <2>1, <2>2, <2>3 DEF Element, Hand
<1>11. PICK W1 : W1 = [W EXCEPT ![p] = W[Hand], ![Hand] = Free]
  OBVIOUS
<1>12. Sound(m1, {a}, W1) /\ W \in [Places -> Contents]
  <2>1. ~IsRef(W[p].v)
    BY <1>10, FreeIs
  <2>2. Sound(m1, {a}, W1)
    BY <1>8, <1>10, <1>11, <2>1, Carried
  <2> QED BY <1>8, <2>2 DEF Sound
<1>13. W1[p] = [ty |-> o.el, v |-> v] /\ W1[Hand] = Free /\ \A q \in Places : q # p /\ q # Hand => W1[q] = W[q]
  BY <1>2, <1>10, <1>11, <1>12
<1>14. ASSUME NEW j \in 1 .. Big PROVE W1[<<a, j>>] = Element(m1.heap[a], j)
  <2>1. Element(m1.heap[a], j) = IF j \in 1 .. k THEN [ty |-> o.el, v |-> vs[j]] ELSE Free
    BY <1>6, <1>8 DEF Element
  <2>2. CASE j = k
    <3>1. j \in 1 .. k
      BY <1>3, <1>4, <2>2
    <3> QED BY <1>6, <1>9, <1>13, <2>1, <2>2, <3>1
  <2>3. CASE j # k
    <3>1. <<a, j>> \in Places /\ <<a, j>> # p /\ <<a, j>> # Hand
      BY <1>9, <2>3, PlacesAre DEF Hand
    <3>2. W1[<<a, j>>] = Element(m.heap[a], j)
      BY <1>13, <3>1
    <3>3. j \in 1 .. k <=> j \in 1 .. n
      BY <1>3, <1>4, <2>3
    <3>4. m.heap[a].k = "array"
      BY DEF Roomier
    <3> QED BY <1>2, <1>4, <1>6, <2>1, <3>2, <3>3, <3>4 DEF Element
  <2> QED BY <2>2, <2>3
<1>15. ASSUME NEW q \in Open({}), q # Hand PROVE W1[q] = W[q]
  <2>1. q \in Places /\ (q[2] = 0 \/ q[1] = 0)
    BY DEF Open
  <2>2. q # p
    BY <1>4, <1>9, <2>1, PlacesAre
  <2> QED BY <1>13, <1>15, <2>1, <2>2
<1>16. OneMore(a, v, g, W, m1, W1)
  BY <1>1, <1>8, <1>12, <1>13, <1>14, <1>15 DEF OneMore
<1> QED BY <1>16

\* An element is added.
LEMMA AddMade ==
  ASSUME RegsOK, Right(slots, mem), ~mem.stuck, NEW x \in Vars, NEW y \in Vars, Add(x, y)
  PROVE  Right(slots', mem') /\ regs' = regs
<1>1. PICK r : r = CopyOf(y)
  OBVIOUS
<1>2. PICK a : a = slots[x].v.i
  OBVIOUS
<1>3. PICK m1 : m1 = arrayAdd(a, r.v, r.m)
  OBVIOUS
<1>4. /\ HasArray(x) /\ slots[y] # Free /\ slots[y].ty = mem.heap[a].el /\ ~mem.heap[a].fixed
      /\ Len(mem.heap[a].data) < MaxLength /\ Change(x, m1)
  BY <1>1, <1>2, <1>3 DEF Add, Takes, ElementType, Array, Data
<1>5. ~m1.full /\ mem' = m1 /\ slots' = slots /\ regs' = regs
  BY <1>4, ChangeIs
<1>6. slots \in [Vars -> Contents]
  BY DEF Right
<1>7. PICK W : Shows(slots, mem, W)
  BY DEF Right
<1>8. HasIt(mem, x, a)
  <2>1. Sound(mem, {}, W) /\ W[<<x, 0>>] = slots[x]
    BY <1>7, ShownIs
  <2> QED BY <1>2, <1>4, <2>1, ArrayHeld
<1>9. a \in Ids /\ mem.heap[a].k = "array"
  BY <1>8 DEF HasIt
<1>10. r \in VMs /\ Keeping(mem, r.m) /\ r.m \in Memories /\ r.v \in Values /\ r.m.heap[a] = mem.heap[a]
  <2>1. PICK c \in CopyFns : c = copying[MaxNesting + 1]
    BY CopyValueOk
  <2>2. slots[y].v \in Values /\ slots[y].ty \in AllTypes /\ mem \in Memories
    BY <1>4, <1>6, <1>7, ShownIs DEF Contents
  <2>3. PICK b : b = <<slots[y].v, slots[y].ty, mem>>
    OBVIOUS
  <2>4. b \in Arguments /\ b[3] = mem /\ r = c[b]
    BY <1>1, <2>1, <2>2, <2>3 DEF Arguments, CopyOf, copyValue
  <2>5. r \in VMs /\ Keeping(mem, r.m)
    BY <2>4 DEF CopyFns
  <2> QED BY <1>9, <2>5, VMIs DEF Keeping
<1>11. PICK o : o = mem.heap[a]
  OBVIOUS
<1>12. PICK g : g = ensureCapacity(a, Len(o.data) + 1, r.m)
  OBVIOUS
<1>13. m1 = IF g.stuck THEN g ELSE [g EXCEPT !.heap[a].data = Append(g.heap[a].data, r.v)]
  <2>1. m1 = IF g.stuck THEN g ELSE [g EXCEPT !.heap[a].data = Append(@, r.v)]
    BY <1>3, <1>4, <1>10, <1>11, <1>12, Zenon DEF arrayAdd
  <2>2. CASE g.stuck
    BY <2>1, <2>2
  <2>3. CASE ~g.stuck
    <3>1. g.heap[a].data = g.heap[a].data /\ m1 = [g EXCEPT !.heap[a].data = Append(@, r.v)]
      BY <2>1, <2>3
    <3>2. [g EXCEPT !.heap[a].data = Append(@, r.v)] = [g EXCEPT !.heap[a].data = Append(g.heap[a].data, r.v)]
      OBVIOUS
    <3> QED BY <2>3, <3>1, <3>2
  <2> QED BY <2>2, <2>3, Zenon
<1>14. CASE ~r.m.full
  <2>1. ~r.m.stuck
    BY <1>1, <1>2, <1>4, <1>7, <1>14, TakeCopy
  <2>2. PICK W1 : Taken(W, x, a, r.m, [ty |-> slots[y].ty, v |-> r.v], W1)
    BY <1>1, <1>2, <1>4, <1>7, <1>14, TakeCopy
  <2>3. /\ Sound(r.m, {a}, W1) /\ W1[<<x, 0>>] = Free
        /\ \A p \in Open({}) : p # <<x, 0>> /\ p # Hand => W1[p] = W[p]
        /\ \A i \in 1 .. Big : W1[<<a, i>>] = Element(r.m.heap[a], i)
        /\ W1[Hand] = [ty |-> r.m.heap[a].el, v |-> r.v]
    BY <1>4, <1>10, <2>2 DEF Taken, Within
  <2>4. NotEnough(r.m, a, g) \/ Roomier(r.m, a, W1, g)
    <3>1. g = ensureCapacity(a, Len(r.m.heap[a].data) + 1, r.m) /\ ~r.m.heap[a].fixed
      BY <1>4, <1>10, <1>11, <1>12
    <3> QED BY <1>9, <2>3, <3>1, GrowsIs
  <2>5. CASE Roomier(r.m, a, W1, g)
    <3>1. ~g.stuck /\ g.heap[a].data = r.m.heap[a].data /\ g.heap[a].fixed = FALSE /\ g.heap[a].el = r.m.heap[a].el /\ Sound(g, {a}, W1)
      <4>1. ~g.stuck /\ g.heap[a].data = r.m.heap[a].data /\ g.heap[a].el = r.m.heap[a].el /\ Sound(g, {a}, W1) /\ ~g.heap[a].fixed
            /\ g.heap[a].k = "array"
        BY <2>1, <2>5 DEF Roomier
      <4>2. g.heap[a].fixed \in BOOLEAN
        <5>1. g \in Memories
          BY <4>1 DEF Sound
        <5> QED BY <1>9, <4>1, <5>1, ArrayIn
      <4> QED BY <4>1, <4>2
    <3>2. m1 = [g EXCEPT !.heap[a].data = Append(r.m.heap[a].data, r.v)]
      BY <1>13, <3>1
    <3>3. Len(r.m.heap[a].data) < MaxLength
      BY <1>4, <1>10
    <3>4. PICK W2 : OneMore(a, r.v, g, W1, m1, W2)
      BY <1>9, <1>10, <2>3, <2>5, <3>2, <3>3, ElementAppended
    <3>5. /\ Sound(m1, {a}, W2) /\ m1.stuck = g.stuck /\ W2[Hand] = Free
          /\ m1.heap[a].el = g.heap[a].el /\ m1.heap[a].fixed = g.heap[a].fixed
          /\ \A j \in 1 .. Big : W2[<<a, j>>] = Element(m1.heap[a], j)
          /\ \A p \in Open({}) : p # Hand => W2[p] = W1[p]
      BY <3>4 DEF OneMore
    <3>6. mem.heap[a].fixed = FALSE
      <4>1. mem.heap[a].fixed \in BOOLEAN
        BY <1>9, <1>10, ArrayIn
      <4> QED BY <1>4, <4>1
    <3>7. Taken(W, x, a, m1, Free, W2)
      <4>1. <<x, 0>> \in Open({}) /\ <<x, 0>> # Hand
        BY OpenIs DEF Hand
      <4> QED BY <2>3, <3>5, <4>1 DEF Taken, Within
    <3>8. m1.heap[a].el = mem.heap[a].el /\ m1.heap[a].fixed = mem.heap[a].fixed /\ ~m1.stuck
      BY <1>10, <3>1, <3>5, <3>6
    <3>9. Right(slots, m1)
      BY <1>2, <1>4, <1>5, <1>6, <1>7, <3>7, <3>8, CloseArray
    <3> QED BY <1>5, <3>9
  <2>6. CASE NotEnough(r.m, a, g)
    <3>1. PICK p : p = <<y, 0>>
      OBVIOUS
    <3>2. /\ Sound(mem, {}, W) /\ W[p] = slots[y] /\ p \in Places /\ Hand \in Open({}) /\ Hand \in Places /\ W[Hand] = Free
      <4>1. \A j \in 1 .. Big : W[<<0, j>>] = Free
        BY <1>7, ShownIs
      <4>2. W[Hand] = Free
        BY <4>1, OpenIs DEF Hand
      <4> QED BY <1>7, <3>1, <4>2, ShownIs, OpenIs
    <3>3. r = copyValue(W[p].v, W[p].ty, mem)
      BY <1>1, <3>2 DEF CopyOf
    <3>4. PICK V : CopiedTo(mem, {}, W, p, Hand, r, V)
      <4>1. \E V : CopiedTo(mem, {}, W, p, Hand, r, V)
        BY <1>4, <1>14, <3>2, <3>3, CopyIs
      <4> QED BY <4>1
    <3>5. Sound(r.m, {}, V) /\ \A s \in Places : s # Hand /\ (W[s] # Free \/ s \in Open({})) => V[s] = W[s]
      BY <3>4 DEF CopiedTo
    <3>6. \A z \in Vars : V[<<z, 0>>] = slots[z]
      <4> TAKE z \in Vars
      <4>1. <<z, 0>> \in Places /\ <<z, 0>> \in Open({}) /\ <<z, 0>> # Hand
        BY OpenIs DEF Hand
      <4> QED BY <1>7, <3>5, <4>1, ShownIs
    <3>7. g = [r.m EXCEPT !.stuck = TRUE] /\ 2 * Len(o.data) >= CapMod
      BY <1>10, <1>11, <2>6 DEF NotEnough
    <3>8. Sound(g, {}, V) /\ g.stuck /\ g.full = r.m.full /\ g.heap = r.m.heap
      BY <3>5, <3>7, StuckIs
    <3>9. m1 = g
      BY <1>13, <3>8
    <3>10. HalfFull(m1)
      BY <1>9, <1>10, <1>11, <3>7, <3>8, <3>9 DEF HalfFull
    <3>11. Shows(slots, m1, V)
      BY <3>6, <3>8, <3>9 DEF Shows
    <3>12. Right(slots, m1)
      BY <1>5, <1>6, <3>10, <3>11 DEF Right
    <3> QED BY <1>5, <3>12
  <2> QED BY <2>4, <2>5, <2>6
<1>15. CASE r.m.full
  <2>1. m1.full
    <3>1. g.full
      <4>1. g = r.m \/ g = [r.m EXCEPT !.stuck = TRUE] \/ \E c : g = [r.m EXCEPT !.heap[a].cap = c]
        BY <1>12 DEF ensureCapacity
      <4> QED BY <1>10, <1>15, <4>1 DEF Memories
    <3>2. g.heap = g.heap /\ "full" \in DOMAIN g
      <4>1. g = r.m \/ g = [r.m EXCEPT !.stuck = TRUE] \/ \E c : g = [r.m EXCEPT !.heap[a].cap = c]
        BY <1>12 DEF ensureCapacity
      <4> QED BY <1>10, <4>1 DEF Memories
    <3> QED BY <1>13, <3>1, <3>2
  <2> QED BY <1>5, <2>1
<1> QED BY <1>14, <1>15

\* What is no reference is dropped without an effect.
LEMMA DropPlain ==
  ASSUME RegsOK, NEW v \in Values, ~IsRef(v), NEW t \in AllTypes, NEW m \in Memories
  PROVE  dropValue(v, t, m) = m
<1>1. PICK b : b = <<v, t, m>>
  OBVIOUS
<1>2. b \in Arguments /\ b[1] = v /\ b[2] = t /\ b[3] = m /\ MaxNesting \in Nat
  BY <1>1, BoundsAreNat DEF Arguments
<1>3. dropping[MaxNesting + 1][b] = Dropped(dropping[MaxNesting], v, t, m)
  BY <1>2, DroppingIs
<1>4. v.tag \notin {"string", "array", "host"}
  BY DEF IsRef, RefTags
<1>5. Dropped(dropping[MaxNesting], v, t, m) = m
  BY <1>4 DEF Dropped
<1> QED BY <1>1, <1>3, <1>5 DEF dropValue

\* arraySet after copyValue, of an element that is not initialized.
LEMMA GivenIs ==
  ASSUME RegsOK, NEW m \in Memories, NEW a \in Ids, m.heap[a] \in Arrays, NEW i \in DOMAIN m.heap[a].data,
         m.heap[a].data[i] = Uninitialized, NEW v \in Values, NEW t \in AllTypes,
         NEW r, r = copyValue(v, t, m), NEW m1, m1 = arraySet(a, i, r.v, r.m)
  PROVE  Given(m, a, i, r, m1)
<1>1. r \in VMs /\ Keeping(m, r.m)
  <2>1. PICK c \in CopyFns : c = copying[MaxNesting + 1]
    BY CopyValueOk
  <2>2. PICK b : b = <<v, t, m>>
    OBVIOUS
  <2>3. b \in Arguments /\ b[3] = m /\ r = c[b]
    BY <2>1, <2>2 DEF Arguments, copyValue
  <2> QED BY <2>3 DEF CopyFns
<1>2. PICK o : o = m.heap[a]
  OBVIOUS
<1>3. o \in Arrays /\ o.k = "array" /\ o.data \in Seq(Values) /\ o.el \in AllTypes
  BY <1>2, KindsAre
<1>4. r.v \in Values /\ r.m \in Memories /\ r.m.heap[a] = o /\ (m.full => r.m.full)
  BY <1>1, <1>2, <1>3, VMIs DEF Keeping
<1>5. dropValue(o.data[i], o.el, r.m) = r.m
  <2>1. o.data[i] = Uninitialized
    BY <1>2
  <2> QED BY <1>3, <1>4, <2>1, ValuesAre, DropPlain
<1>6. m1 = [r.m EXCEPT !.heap[a].data[i] = r.v]
  BY <1>4, <1>5 DEF arraySet
<1>7. PICK vs : vs = [o.data EXCEPT ![i] = r.v]
  OBVIOUS
<1>8. vs \in Seq(Values)
  BY <1>2, <1>3, <1>4, <1>7, OtherElement
<1>9. PICK b : b = [o EXCEPT !.data = vs]
  OBVIOUS
<1>10. b \in Arrays /\ b.data = vs /\ b.el = o.el /\ b.fixed = o.fixed /\ b.cap = o.cap
  BY <1>3, <1>8, <1>9 DEF Arrays
<1>11. b \in Objects /\ b.k = "array"
  BY <1>10, KindsAre
<1>12. r.m.heap \in [Ids -> Objects]
  BY <1>4, MemoryIs
<1>13. m1 = [r.m EXCEPT !.heap[a].data = vs]
  BY <1>4, <1>6, <1>7, <1>12
<1>14. m1 = Put(r.m, a, b)
  BY <1>4, <1>9, <1>12, <1>13 DEF Put
<1>15. IsPut(m1, r.m, a, b)
  BY <1>4, <1>11, <1>14, PutFacts
<1>16. m1 \in Memories /\ m1.full = r.m.full /\ m1.heap[a] = b
  BY <1>15 DEF IsPut
<1> QED BY <1>1, <1>2, <1>4, <1>7, <1>10, <1>11, <1>13, <1>16, Zenon DEF Given

\* The element gets the copy.
LEMMA FillOne ==
  ASSUME RegsOK, NEW m, NEW a \in Ids, NEW W, Sound(m, {a}, W), NEW i \in 1 .. 2, i \in 1 .. Big, m.heap[a].fixed,
         m.heap[a].data[i] = Uninitialized, W[<<a, i>>] = Free, NEW p \in Places, W[p] # Free,
         NEW r, r = copyValue(W[p].v, W[p].ty, m), NEW m1, Given(m, a, i, r, m1), ~r.m.full
  PROVE  \E W1 : Filling(m, W, a, i, [ty |-> W[p].ty, v |-> r.v], m1, W1)
<1>1. PICK q : q = <<a, i>>
  OBVIOUS
<1>2. q \in Open({a}) /\ q \in Places /\ W[q] = Free
  BY <1>1, OpenIs
<1>3. PICK W1 : CopiedTo(m, {a}, W, p, q, r, W1)
  <2>1. \E W1 : CopiedTo(m, {a}, W, p, q, r, W1)
    BY <1>2, CopyIs
  <2> QED BY <2>1
<1>4. /\ Sound(r.m, {a}, W1) /\ r.m.stuck = m.stuck /\ W1[q] = [ty |-> W[p].ty, v |-> r.v]
      /\ \A s \in Places : s # q /\ (W[s] # Free \/ s \in Open({a})) => W1[s] = W[s]
  BY <1>3 DEF CopiedTo
<1>5. PICK o : o = m.heap[a]
  OBVIOUS
<1>6. m \in Memories /\ Keeps(m, {a}, W, a)
  BY DEF Sound
<1>7. o.k = "array" /\ Sizes(o) /\ o.fixed
  BY <1>5, <1>6 DEF Keeps
<1>8. o \in Arrays /\ o.data \in Seq(Values) /\ Len(o.data) = 2 /\ DOMAIN o.data = 1 .. 2 /\ Len(o.data) <= o.cap
  <2>1. o \in Arrays /\ o.data \in Seq(Values) /\ DOMAIN o.data = 1 .. Len(o.data)
    BY <1>5, <1>7, DataFits
  <2> QED BY <1>7, <2>1, PlacesAre DEF Sizes
<1>9. PICK vs : vs = [o.data EXCEPT ![i] = r.v]
  OBVIOUS
<1>10. vs \in Seq(Values) /\ Len(vs) = 2
  <2>1. i \in DOMAIN o.data /\ r.v \in Values
    BY <1>8, Zenon DEF Given
  <2> QED BY <1>8, <1>9, <2>1, OtherElement
<1>11. Rewritten(r.m, a, W1, vs, m1)
  <2>1. o = r.m.heap[a] /\ m1 = [r.m EXCEPT !.heap[a].data = vs]
    BY <1>5, <1>9, Zenon DEF Given
  <2>2. Len(vs) <= o.cap /\ (o.fixed => Len(vs) = FixedLength) /\ (~o.fixed => Len(vs) <= MaxLength)
    BY <1>7, <1>8, <1>10, PlacesAre, Zenon
  <2> QED BY <1>4, <1>10, <2>1, <2>2, DataWritten, Zenon
<1>12. Sound(m1, {a}, W1) /\ m1.stuck = m.stuck
  BY <1>4, <1>11, Zenon DEF Rewritten
<1>13. Filling(m, W, a, i, [ty |-> W[p].ty, v |-> r.v], m1, W1)
  BY <1>1, <1>4, <1>12, Zenon DEF Filling
<1> QED BY <1>13

\* MakeFixed is that for some memories and copies.
LEMMA MakeFixedIs ==
  ASSUME NEW x, NEW y, NEW a, a = Fresh(mem), NEW t, t = slots[y].ty, MakeFixed(x, y)
  PROVE  \E m0, r1, m1, r2, m2 : FillsTwo(x, y, a, t, m0, r1, m1, r2, m2)
<1> DEFINE Body(f) == [i \in 0 .. FixedLength |->
                         IF i = 0 THEN allocFixedArray(slots[y].ty, mem)
                         ELSE LET r == copyValue(slots[y].v, slots[y].ty, f[i - 1]) IN arraySet(a, i, r.v, r.m)]
           e == CHOOSE f : f = Body(f)
<1>1. /\ slots[x] = Free /\ Fix(t) \in Types /\ Room(mem)
      /\ Place(x, Fix(t), VM(Ref("array", a), e[FixedLength]))
  BY DEF MakeFixed
<1>2. e = Body(e)
  <2>1. PICK b0 : b0 = allocFixedArray(slots[y].ty, mem)
    OBVIOUS
  <2>2. PICK c1 : c1 = copyValue(slots[y].v, slots[y].ty, b0)
    OBVIOUS
  <2>3. PICK b1 : b1 = arraySet(a, 1, c1.v, c1.m)
    OBVIOUS
  <2>4. PICK c2 : c2 = copyValue(slots[y].v, slots[y].ty, b1)
    OBVIOUS
  <2>5. PICK b2 : b2 = arraySet(a, 2, c2.v, c2.m)
    OBVIOUS
  <2>6. PICK g : g = [i \in 0 .. 2 |-> IF i = 0 THEN b0 ELSE IF i = 1 THEN b1 ELSE b2]
    OBVIOUS
  <2>7. g = Body(g)
    <3>1. g[0] = b0 /\ g[1] = b1 /\ g[2] = b2
      BY <2>6
    <3>2. Body(g)[0] = b0 /\ Body(g)[1] = b1 /\ Body(g)[2] = b2
      <4>1. 1 - 1 = 0 /\ 2 - 1 = 1 /\ 1 # 0 /\ 2 # 0 /\ FixedLength = 2 /\ 0 \in 0 .. 2 /\ 1 \in 0 .. 2 /\ 2 \in 0 .. 2
        BY DEF FixedLength
      <4>2. Body(g)[0] = b0
        BY <2>1, <4>1
      <4>3. Body(g)[1] = b1
        <5>1. Body(g)[1] = (LET r == copyValue(slots[y].v, slots[y].ty, g[0]) IN arraySet(a, 1, r.v, r.m))
          BY <4>1
        <5> QED BY <2>2, <2>3, <3>1, <5>1
      <4>4. Body(g)[2] = b2
        <5>1. Body(g)[2] = (LET r == copyValue(slots[y].v, slots[y].ty, g[1]) IN arraySet(a, 2, r.v, r.m))
          BY <4>1
        <5> QED BY <2>4, <2>5, <3>1, <5>1
      <4> QED BY <4>2, <4>3, <4>4
    <3>3. Body(g) = [i \in 0 .. 2 |-> Body(g)[i]]
      BY DEF FixedLength
    <3>4. \A i \in 0 .. 2 : i = 0 \/ i = 1 \/ i = 2
      OBVIOUS
    <3> HIDE DEF Body
    <3>5. \A i \in 0 .. 2 : g[i] = Body(g)[i]
      BY <3>1, <3>2, <3>4
    <3>6. g = [i \in 0 .. 2 |-> g[i]]
      BY <2>6
    <3> QED BY <3>3, <3>5, <3>6
  <2> HIDE DEF Body
  <2> QED BY <2>7
<1> HIDE DEF e
<1>3. PICK m0, m1, m2 : m0 = e[0] /\ m1 = e[1] /\ m2 = e[2]
  OBVIOUS
<1>4. m0 = allocFixedArray(t, mem)
  <2>1. e[0] = Body(e)[0]
    BY <1>2, Zenon
  <2>2. 0 \in 0 .. FixedLength
    BY DEF FixedLength
  <2> QED BY <1>3, <2>1, <2>2, Zenon
<1>5. PICK r1, r2 : r1 = copyValue(slots[y].v, t, m0) /\ r2 = copyValue(slots[y].v, t, m1)
  BY Zenon
<1>6. m1 = arraySet(a, 1, r1.v, r1.m)
  <2>1. e[1] = Body(e)[1]
    BY <1>2, Zenon
  <2>2. 1 \in 0 .. FixedLength /\ 1 # 0 /\ 1 - 1 = 0
    BY DEF FixedLength
  <2>3. Body(e)[1] = (LET r == copyValue(slots[y].v, slots[y].ty, e[0]) IN arraySet(a, 1, r.v, r.m))
    BY <2>2
  <2> QED BY <1>3, <1>5, <2>1, <2>3, Zenon
<1>7. m2 = arraySet(a, 2, r2.v, r2.m)
  <2>1. e[2] = Body(e)[2]
    BY <1>2, Zenon
  <2>2. 2 \in 0 .. FixedLength /\ 2 # 0 /\ 2 - 1 = 1
    BY DEF FixedLength
  <2>3. Body(e)[2] = (LET r == copyValue(slots[y].v, slots[y].ty, e[1]) IN arraySet(a, 2, r.v, r.m))
    BY <2>2
  <2> QED BY <1>3, <1>5, <2>1, <2>3, Zenon
<1>8. e[FixedLength] = m2
  BY <1>3, Zenon DEF FixedLength
<1>9. FillsTwo(x, y, a, t, m0, r1, m1, r2, m2)
  BY <1>1, <1>4, <1>5, <1>6, <1>7, <1>8, Zenon DEF FillsTwo
<1> QED BY <1>9

\* A literal of an array of fixed length.
LEMMA FixedMade ==
  ASSUME RegsOK, Right(slots, mem), ~mem.stuck, NEW x \in Vars, NEW y \in Vars, MakeFixed(x, y)
  PROVE  Right(slots', mem') /\ regs' = regs
<1>1. PICK a, t : a = Fresh(mem) /\ t = slots[y].ty
  OBVIOUS
<1>2. PICK m0, r1, m1, r2, m2 : FillsTwo(x, y, a, t, m0, r1, m1, r2, m2)
  BY <1>1, MakeFixedIs, Zenon
<1>3. /\ m0 = allocFixedArray(t, mem)
      /\ r1 = copyValue(slots[y].v, t, m0) /\ m1 = arraySet(a, 1, r1.v, r1.m)
      /\ r2 = copyValue(slots[y].v, t, m1) /\ m2 = arraySet(a, 2, r2.v, r2.m)
      /\ slots[x] = Free /\ Fix(t) \in Types /\ Room(mem)
      /\ Place(x, Fix(t), VM(Ref("array", a), m2))
  BY <1>2, Zenon DEF FillsTwo
<1>4. slots \in [Vars -> Contents]
  BY DEF Right
<1>5. PICK W : Shows(slots, mem, W)
  BY DEF Right
<1>6. mem \in Memories /\ Sound(mem, {}, W) /\ W[<<x, 0>>] = Free /\ W[<<y, 0>>] = slots[y] /\ W \in [Places -> Contents]
  BY <1>3, <1>5, ShownIs
<1>7. Fix(t) \in AllTypes /\ t \in AllTypes /\ slots[y] # Free
  <2>1. Fix(t) \in AllTypes
    BY <1>3, ValuesAssumption
  <2>2. Fix(t).k = "fix" /\ Fix(t).el = t
    BY DEF Fix
  <2>3. t \in AllTypes
    BY <2>1, <2>2, AllTypesMade
  <2>4. t.k \in {"string", "host", "nullable", "dyn", "fix"}
    BY <2>3, AllTypesMade
  <2>5. slots[y] # Free
    BY <1>1, <2>4 DEF Free
  <2> QED BY <2>1, <2>3, <2>5, Zenon
<1>8. slots[y].v \in Values
  BY <1>4, <1>7 DEF Contents
<1>9. PICK o : o = ArrayObject(t, TRUE, <<Uninitialized, Uninitialized>>, FixedLength)
  OBVIOUS
<1>10. /\ a \in Ids /\ mem.heap[a] = NoObject /\ o \in Arrays /\ m0 = Put(mem, a, o) /\ IsPut(m0, mem, a, o)
  BY <1>1, <1>3, <1>6, <1>7, <1>9, AllocArrayIs, Zenon
<1>11. PICK ds : ds = <<Uninitialized, Uninitialized>>
  OBVIOUS
<1>12. o.k = "array" /\ o.rc = 1 /\ o.el = t /\ o.fixed = TRUE /\ o.data = ds /\ o.cap = 2
  BY <1>9, <1>11 DEF ArrayObject, FixedLength
<1>13. ds \in Seq(Values) /\ Len(ds) = 2 /\ DOMAIN ds = 1 .. 2 /\ ds[1] = Uninitialized /\ ds[2] = Uninitialized
  BY <1>11, FirstData
<1>14. m0 \in Memories /\ m0.heap[a] = o /\ m0.stuck = mem.stuck
  BY <1>10 DEF IsPut
<1>15. Sound(m0, {a}, W) /\ \A i \in 1 .. Big : W[<<a, i>>] = Free
  <2>1. Sizes(o)
    BY <1>12, <1>13 DEF Sizes, FixedLength
  <2>2. PICK A : A = {}
    OBVIOUS
  <2>3. Sound(mem, A, W)
    BY <1>6, <2>2
  <2>4. Sound(Put(mem, a, o), A \union {a}, W)
    BY <1>10, <1>12, <2>1, <2>3, Written
  <2>5. \A i \in 1 .. Big : W[<<a, i>>] = Free
    BY <1>6, <1>10, FreeUnheld
  <2>6. A \union {a} = {a}
    BY <2>2, Zenon
  <2> QED BY <1>10, <2>4, <2>5, <2>6
<1>16. Given(m0, a, 1, r1, m1)
  <2>1. m0.heap[a] \in Arrays /\ 1 \in DOMAIN m0.heap[a].data /\ m0.heap[a].data[1] = Uninitialized
    BY <1>10, <1>12, <1>13, <1>14
  <2> QED BY <1>3, <1>7, <1>8, <1>10, <1>14, <2>1, GivenIs
<1>17. /\ r1.v \in Values /\ m1 \in Memories /\ m1.full = r1.m.full /\ m1.heap[a] \in Arrays
       /\ m1.heap[a].data = [ds EXCEPT ![1] = r1.v] /\ m1.heap[a].el = t /\ m1.heap[a].fixed
  BY <1>12, <1>14, <1>16 DEF Given
<1>18. PICK d1 : d1 = [ds EXCEPT ![1] = r1.v]
  BY Zenon
<1>19. d1 \in Seq(Values) /\ DOMAIN d1 = 1 .. 2 /\ d1[1] = r1.v /\ d1[2] = Uninitialized
  BY <1>13, <1>17, <1>18, OtherElement
<1>20. Given(m1, a, 2, r2, m2)
  <2>1. m1.heap[a] \in Arrays /\ 2 \in DOMAIN m1.heap[a].data /\ m1.heap[a].data[2] = Uninitialized
    BY <1>17, <1>18, <1>19
  <2> QED BY <1>3, <1>7, <1>8, <1>10, <1>17, <2>1, GivenIs, Zenon
<1>21. /\ r2.v \in Values /\ m2 \in Memories /\ m2.full = r2.m.full /\ (m1.full => r2.m.full) /\ m2.heap[a] \in Arrays
       /\ m2.heap[a].data = [d1 EXCEPT ![2] = r2.v] /\ m2.heap[a].el = t /\ m2.heap[a].fixed /\ m2.heap[a].k = "array"
  BY <1>17, <1>18, <1>20 DEF Given
<1>22. PICK d2 : d2 = [d1 EXCEPT ![2] = r2.v]
  OBVIOUS
<1>23. DOMAIN d2 = 1 .. 2 /\ d2[1] = r1.v /\ d2[2] = r2.v
  BY <1>19, <1>21, <1>22, OtherElement
<1>24. PICK rr : rr = VM(Ref("array", a), m2)
  OBVIOUS
<1>25. rr.v = Ref("array", a) /\ rr.m = m2
  BY <1>24 DEF VM
<1>26. ~m2.full /\ mem' = m2 /\ regs' = regs /\ slots' = [slots EXCEPT ![x] = [ty |-> Fix(t), v |-> Ref("array", a)]]
  <2>1. PICK u : u = Fix(t)
    BY Zenon
  <2>2. Place(x, u, rr)
    BY <1>3, <1>24, <2>1, Zenon
  <2>3. ~rr.m.full /\ mem' = rr.m /\ regs' = regs /\ slots' = [slots EXCEPT ![x] = [ty |-> u, v |-> rr.v]]
    BY <2>2, PlaceIs
  <2> QED BY <1>25, <2>1, <2>3
<1>27. ~r2.m.full /\ ~r1.m.full
  BY <1>17, <1>21, <1>26
<1>28. PICK p : p = <<y, 0>>
  OBVIOUS
<1>29. /\ p \in Places /\ p \in Open({a}) /\ W[p] = slots[y] /\ W[p] # Free /\ W[p].ty = t
       /\ 1 \in 1 .. Big /\ 2 \in 1 .. Big /\ p # <<a, 1>> /\ p # <<a, 2>>
  BY <1>1, <1>6, <1>7, <1>28, OpenIs, PlacesAre DEF Big
<1>30. PICK W1 : Filling(m0, W, a, 1, [ty |-> t, v |-> r1.v], m1, W1)
  <2>1. r1 = copyValue(W[p].v, W[p].ty, m0) /\ m0.heap[a].fixed /\ m0.heap[a].data[1] = Uninitialized /\ W[<<a, 1>>] = Free
        /\ 1 \in 1 .. 2
    BY <1>3, <1>12, <1>13, <1>14, <1>15, <1>29
  <2>2. \E W1 : Filling(m0, W, a, 1, [ty |-> W[p].ty, v |-> r1.v], m1, W1)
    BY <1>10, <1>15, <1>16, <1>27, <1>29, <2>1, FillOne
  <2> QED BY <1>29, <2>2, Zenon
<1>32. /\ Sound(m1, {a}, W1) /\ m1.stuck = m0.stuck /\ W1[<<a, 1>>] = [ty |-> t, v |-> r1.v]
       /\ \A s \in Places : s # <<a, 1>> /\ (W[s] # Free \/ s \in Open({a})) => W1[s] = W[s]
  BY <1>30 DEF Filling
<1>33. W1[p] = W[p]
  BY <1>29, <1>32
<1>34. \A j \in 1 .. Big : <<a, j>> \in Places /\ <<a, j>> \in Open({a})
  BY <1>10, OpenIs
<1>35. \A j \in 1 .. Big : j # 1 => W1[<<a, j>>] = Free
  <2> TAKE j \in 1 .. Big
  <2>1. j # 1 => <<a, j>> # <<a, 1>>
    OBVIOUS
  <2> QED BY <1>15, <1>32, <1>34, <2>1
<1>36. PICK W2 : Filling(m1, W1, a, 2, [ty |-> t, v |-> r2.v], m2, W2)
  <2>1. r2 = copyValue(W1[p].v, W1[p].ty, m1) /\ m1.heap[a].data[2] = Uninitialized /\ W1[<<a, 2>>] = Free /\ W1[p] # Free
        /\ 2 \in 1 .. 2
    <3>1. r2 = copyValue(W1[p].v, W1[p].ty, m1)
      BY <1>3, <1>29, <1>33, <1>1, Zenon
    <3>2. m1.heap[a].data[2] = Uninitialized
      BY <1>17, <1>18, <1>19
    <3>3. W1[<<a, 2>>] = Free
      BY <1>29, <1>35
    <3> QED BY <1>29, <1>33, <3>1, <3>2, <3>3
  <2>2. \E W2 : Filling(m1, W1, a, 2, [ty |-> W1[p].ty, v |-> r2.v], m2, W2)
    BY <1>10, <1>17, <1>20, <1>27, <1>29, <1>32, <2>1, FillOne
  <2> QED BY <1>29, <1>33, <2>2
<1>38. /\ Sound(m2, {a}, W2) /\ m2.stuck = m1.stuck /\ W2[<<a, 2>>] = [ty |-> t, v |-> r2.v] /\ W2 \in [Places -> Contents]
       /\ \A s \in Places : s # <<a, 2>> /\ (W1[s] # Free \/ s \in Open({a})) => W2[s] = W1[s]
  BY <1>36 DEF Filling, Sound
<1>39. ASSUME NEW j \in 1 .. Big PROVE W2[<<a, j>>] = Element(m2.heap[a], j)
  <2>1. Element(m2.heap[a], j) = IF j \in 1 .. 2 THEN [ty |-> t, v |-> d2[j]] ELSE Free
    BY <1>21, <1>22, <1>23 DEF Element
  <2>2. CASE j = 2
    BY <1>23, <1>38, <2>1, <2>2
  <2>3. CASE j # 2
    <3>1. <<a, j>> # <<a, 2>>
      BY <2>3
    <3>2. W2[<<a, j>>] = W1[<<a, j>>]
      BY <1>34, <1>38, <3>1
    <3>3. CASE j = 1
      BY <1>23, <1>32, <2>1, <3>2, <3>3
    <3>4. CASE j # 1
      <4>1. j \notin 1 .. 2
        BY <2>3, <3>4
      <4> QED BY <1>35, <2>1, <3>2, <3>4, <4>1
    <3> QED BY <3>3, <3>4
  <2> QED BY <2>2, <2>3
<1>40. ASSUME NEW q \in Open({}) PROVE W2[q] = W[q] /\ q \in Places
  <2>1. q \in Places /\ q \in Open({a}) /\ (q[2] = 0 \/ q[1] = 0)
    BY DEF Open
  <2>2. q # <<a, 1>> /\ q # <<a, 2>>
    BY <1>10, <2>1, PlacesAre
  <2> QED BY <1>32, <1>38, <2>1, <2>2
<1>41. PICK q, c, A : q = <<x, 0>> /\ c = [ty |-> Fix(t), v |-> Ref("array", a)] /\ A = {a}
  OBVIOUS
<1>42. q \in Open({}) /\ q \in Open(A) /\ q \in Places /\ q[2] = 0 /\ W2[q] = Free /\ ~IsRef(W2[q].v)
  BY <1>6, <1>40, <1>41, OpenIs, FreeIs
<1>43. PICK W3 : W3 = [W2 EXCEPT ![q] = c]
  OBVIOUS
<1>44. Sound(m2, {}, W3)
  <2>1. planForType[Fix(t)].drop = DropOf(m2.heap[a])
    BY <1>7, <1>21, PlanIs DEF DropOf, Fix, Plan
  <2>2. Under(m2.heap[a].el, Fix(t))
    <3>1. Fix(t).k \in {"dyn", "fix"} /\ Fix(t).el = t
      BY DEF Fix
    <3>2. Under(Fix(t).el, Fix(t))
      BY <3>1, ElementUnder
    <3> QED BY <1>21, <3>1, <3>2
  <2>3. a \in A /\ Sound(m2, A, W2) /\ A \ {a} = {} /\ \A i \in 1 .. Big : W2[<<a, i>>] = Element(m2.heap[a], i)
    BY <1>38, <1>39, <1>41
  <2>4. PICK u : u = Fix(t)
    OBVIOUS
  <2>5. Sound(m2, A \ {a}, [W2 EXCEPT ![q] = [ty |-> u, v |-> Ref("array", a)]])
    BY <1>7, <1>42, <2>1, <2>2, <2>3, <2>4, Attached
  <2> QED BY <1>41, <1>43, <2>3, <2>4, <2>5
<1>45. Puts(W, x, c, m2, W3)
  <2>1. W3[q] = c /\ \A s \in Places : s # q => W3[s] = W2[s]
    BY <1>38, <1>42, <1>43
  <2>2. ~m2.full /\ ~m2.stuck
    BY <1>14, <1>26, <1>32, <1>38
  <2> QED BY <1>40, <1>41, <1>44, <2>1, <2>2 DEF Puts
<1>46. Right([slots EXCEPT ![x] = c], m2)
  BY <1>4, <1>5, <1>45, PlacedRight
<1> QED BY <1>26, <1>41, <1>46

-----------------------------------------------------------------------------
(* The invariant                                                           *)

\* It holds of the values with more names, too.
LEMMA RightGrows ==
  ASSUME Grown, Right(slots', mem')
  PROVE  Right(slots, mem)'
<1>1. PICK s, m : s = slots' /\ m = mem'
  OBVIOUS
<1>2. Right(s, m)
  BY <1>1
<1>3. PICK W : Shows(s, m, W)
  BY <1>2 DEF Right
<1>4. /\ Sound(m, {}, W) /\ \A x \in Vars : W[<<x, 0>>] = s[x]
      /\ ~m.stuck => \A j \in 1 .. Big : W[<<0, j>>] = Free
  BY <1>3 DEF Shows
<1>5. Sound(m, {}, W)'
  BY <1>4, SoundGrows
<1>6. Shows(s, m, W)'
  BY <1>4, <1>5 DEF Shows
<1>7. (\E V : Shows(slots, mem, V))'
  BY <1>1, <1>6
<1>8. s \in [Vars -> Contents] /\ ~m.full /\ (m.stuck => HalfFull(m))
  BY <1>2 DEF Right
<1> QED BY <1>1, <1>7, <1>8 DEF Right, HalfFull

\* The first state.
LEMMA InitRight == ASSUME Init PROVE RVInv
<1>1. RegsOK
  <2>1. DOMAIN regs = {"root"} /\ regs["root"] = NewRegistry
    BY DEF Init
  <2>2. NewRegistry \in RegistryRecords /\ NewRegistry.parent = ""
    <3>1. << >> \in Seq(Names)
      OBVIOUS
    <3>2. PICK e : e = << >>
      OBVIOUS
    <3> QED BY <3>1, <3>2 DEF NewRegistry, RegistryRecords
  <2>3. regs \in [DOMAIN regs -> RegistryRecords]
    BY <2>1, <2>2 DEF Init
  <2>4. "root" \in Registries
    BY ValuesAssumption
  <2> QED BY <2>1, <2>2, <2>3, <2>4 DEF RegsOK
<1>2. PICK W : W = [p \in Places |-> Free]
  OBVIOUS
<1>3. /\ W \in [Places -> Contents] /\ \A p \in Places : W[p] = Free /\ ~IsRef(W[p].v)
  BY <1>2, FreeIs
<1>4. /\ mem \in Memories /\ ~mem.broken /\ ~mem.stuck /\ ~mem.full /\ mem.host = << >>
      /\ \A id \in Ids : mem.heap[id] = NoObject
  <2>1. << >> \in Seq(Payloads) /\ NoObject \in Objects
    BY KindsAre
  <2>2. PICK e \in Seq(Payloads), b \in Objects : e = << >> /\ b = NoObject
    BY <2>1
  <2>3. mem = [heap |-> [i \in Ids |-> b], host |-> e, broken |-> FALSE, stuck |-> FALSE, full |-> FALSE]
    BY <2>2 DEF Init
  <2>4. mem \in Memories
    BY <2>3 DEF Memories
  <2> QED BY <2>2, <2>3, <2>4
<1>5. \A id \in Ids : At(W, id) = {}
  BY <1>3 DEF At
<1>6. \A id \in Ids : Keeps(mem, {}, W, id)
  <2> TAKE id \in Ids
  <2>1. Sizes(NoObject) /\ NoObject.k = "free"
    BY DEF Sizes, NoObject
  <2>2. \A i \in 1 .. Big : W[<<id, i>>] = Free
    BY <1>3, PlacesAre
  <2> QED BY <1>4, <1>5, <2>1, <2>2 DEF Keeps
<1>7. Hosted(mem)
  <2>1. DOMAIN mem.host = {}
    BY <1>4
  <2>2. \A id \in Ids : mem.heap[id].k # "host"
    BY <1>4 DEF NoObject
  <2> QED BY <2>1, <2>2 DEF Hosted
<1>8. Sound(mem, {}, W)
  BY <1>3, <1>4, <1>6, <1>7 DEF Sound, Fits
<1>9. slots = [x \in Vars |-> Free] /\ Free \in Contents
  BY FreeIs DEF Init
<1>10. slots \in [Vars -> Contents] /\ \A x \in Vars : W[<<x, 0>>] = slots[x]
  BY <1>3, <1>9, PlacesAre
<1>11. \A j \in 1 .. Big : W[<<0, j>>] = Free
  BY <1>3, OpenIs
<1>12. Right(slots, mem)
  BY <1>4, <1>8, <1>10, <1>11, RightIs
<1> QED BY <1>1, <1>12 DEF RVInv

\* What a step does: the registries grow, or the values are right with the same ones.
LEMMA StepRight ==
  ASSUME RVInv, Next
  PROVE  \/ regs' = regs /\ Right(slots', mem')
         \/ Grown /\ RegsOK' /\ slots' = slots /\ mem' = mem
<1>1. RegsOK /\ Right(slots, mem) /\ ~mem.stuck
  BY DEF RVInv, Next, Running
<1>2. ASSUME NEW r \in DOMAIN regs, NEW n \in Names, RegisterType(r, n)
      PROVE  Grown /\ RegsOK' /\ slots' = slots /\ mem' = mem
  <2>1. slots' = slots /\ mem' = mem
    BY <1>2 DEF RegisterType
  <2> QED BY <1>1, <1>2, <2>1, RegisterGrows
<1>3. ASSUME NEW r \in Registries, NEW names \in Visible, OpenView(r, names)
      PROVE  Grown /\ RegsOK' /\ slots' = slots /\ mem' = mem
  <2>1. slots' = slots /\ mem' = mem
    BY <1>3 DEF OpenView
  <2> QED BY <1>1, <1>3, <2>1, ViewGrows
<1>4. ASSUME NEW x \in Vars, NEW r \in DOMAIN regs, NEW n \in Names, allocHandle(x, r, n)
      PROVE  Right(slots', mem') /\ regs' = regs
  BY <1>1, <1>4, HandleMade
<1>5. ASSUME NEW x \in Vars, NEW t \in Types, NEW b \in Bytes, MakeString(x, t, b)
      PROVE  Right(slots', mem') /\ regs' = regs
  BY <1>1, <1>5, StringMade
<1>6. ASSUME NEW x \in Vars, NEW t \in Types, MakeNil(x, t)
      PROVE  Right(slots', mem') /\ regs' = regs
  BY <1>1, <1>6, NilMade
<1>7. ASSUME NEW x \in Vars, NEW t \in Types, MakeArray(x, t)
      PROVE  Right(slots', mem') /\ regs' = regs
  BY <1>1, <1>7, ArrayMade
<1>8. ASSUME NEW x \in Vars, Drop(x)
      PROVE  Right(slots', mem') /\ regs' = regs
  BY <1>1, <1>8, DropMade
<1>9. ASSUME NEW x \in Vars, Clear(x)
      PROVE  Right(slots', mem') /\ regs' = regs
  BY <1>1, <1>9, ClearMade
<1>10. ASSUME NEW x \in Vars, NEW i \in 1 .. MaxLength, RemoveElement(x, i)
      PROVE  Right(slots', mem') /\ regs' = regs
  BY <1>1, <1>10, RemoveMade
<1>11. ASSUME NEW x \in Vars, NEW y \in Vars, MakeFixed(x, y)
      PROVE  Right(slots', mem') /\ regs' = regs
  BY <1>1, <1>11, FixedMade
<1>12. ASSUME NEW x \in Vars, NEW y \in Vars, Copy(x, y)
      PROVE  Right(slots', mem') /\ regs' = regs
  BY <1>1, <1>12, CopyMade
<1>13. ASSUME NEW x \in Vars, NEW y \in Vars, Assign(x, y)
      PROVE  Right(slots', mem') /\ regs' = regs
  BY <1>1, <1>13, AssignMade
<1>14. ASSUME NEW x \in Vars, NEW y \in Vars, Add(x, y)
      PROVE  Right(slots', mem') /\ regs' = regs
  BY <1>1, <1>14, AddMade
<1>15. ASSUME NEW x \in Vars, NEW y \in Vars, NEW i \in 1 .. MaxLength, Read(x, i, y)
      PROVE  Right(slots', mem') /\ regs' = regs
  BY <1>1, <1>15, ReadMade
<1>16. ASSUME NEW x \in Vars, NEW y \in Vars, NEW i \in 1 .. MaxLength, Set(x, i, y)
      PROVE  Right(slots', mem') /\ regs' = regs
  BY <1>1, <1>16, SetMade
<1> QED BY <1>2, <1>3, <1>4, <1>5, <1>6, <1>7, <1>8, <1>9, <1>10, <1>11, <1>12, <1>13, <1>14, <1>15, <1>16 DEF Next

\* Every step keeps the invariant.
LEMMA NextRight == ASSUME RVInv, [Next]_vars PROVE RVInv'
<1>1. RegsOK /\ Right(slots, mem)
  BY DEF RVInv
<1>2. CASE UNCHANGED vars
  <2>1. regs' = regs /\ slots' = slots /\ mem' = mem
    BY <1>2 DEF vars
  <2>2. Grown /\ RegsOK'
    BY <1>1, <2>1, SameRegs
  <2>3. Right(slots', mem')
    BY <1>1, <2>1
  <2>4. Right(slots, mem)'
    BY <2>2, <2>3, RightGrows
  <2> QED BY <2>2, <2>4 DEF RVInv
<1>3. CASE Next
  <2>1. \/ regs' = regs /\ Right(slots', mem')
        \/ Grown /\ RegsOK' /\ slots' = slots /\ mem' = mem
    BY <1>3, StepRight
  <2>2. Grown /\ RegsOK' /\ Right(slots', mem')
    <3>1. CASE regs' = regs /\ Right(slots', mem')
      <4>1. Grown /\ RegsOK'
        BY <1>1, <3>1, SameRegs
      <4> QED BY <3>1, <4>1
    <3>2. CASE Grown /\ RegsOK' /\ slots' = slots /\ mem' = mem
      BY <1>1, <3>2
    <3> QED BY <2>1, <3>1, <3>2
  <2>3. Right(slots, mem)'
    BY <2>2, RightGrows
  <2> QED BY <2>2, <2>3 DEF RVInv
<1> QED BY <1>2, <1>3

\* The values of the program are right in every state.
THEOREM AlwaysRight == Spec => []RVInv
<1>1. Init => RVInv
  BY InitRight
<1>2. RVInv /\ [Next]_vars => RVInv'
  BY NextRight
<1> QED BY <1>1, <1>2, PTL DEF Spec

-----------------------------------------------------------------------------
(* What the program reaches                                                *)

\* Held is the least of these sets.
LEMMA HeldIs == Held = {id \in Ids : \A S : Closed(S) => id \in S}
BY DEF Held, Reached, Closed

\* A place with a reference is a variable, or an element of an object in a place.
LEMMA InElement ==
  ASSUME NEW W, Showing(W), NEW p \in Places, W[p] # Free
  PROVE  InVariable(W, p) \/ InArray(W, p)
<1>1. CASE p \in Vars \X {0}
  BY <1>1 DEF Showing, InVariable
<1>2. CASE p \notin Vars \X {0}
  <2>1. PICK a \in 0 .. MaxObjects, i \in 1 .. Big : p = <<a, i>>
    BY <1>2 DEF Places
  <2>2. a # 0
    BY <2>1 DEF Showing
  <2>3. a \in Ids
    BY <2>1, <2>2, PlacesAre
  <2>4. Keeps(mem, {}, W, a)
    BY <2>3 DEF Showing, Sound
  <2>5. At(W, a) # {} /\ W[<<a, i>>] = Element(mem.heap[a], i)
    BY <2>1, <2>4 DEF Keeps
  <2>6. mem.heap[a].k = "array" /\ i \in DOMAIN mem.heap[a].data
        /\ W[p] = [ty |-> mem.heap[a].el, v |-> mem.heap[a].data[i]]
    BY <2>1, <2>5 DEF Element
  <2> QED BY <2>1, <2>3, <2>5, <2>6 DEF InArray
<1> QED BY <1>1, <1>2

\* It has the element of that index.
LEMMA ElementPlaced ==
  ASSUME NEW W, Showing(W), NEW a \in Ids, At(W, a) # {}, NEW i \in DOMAIN Elements(a)
  PROVE  Placed(W, a, i)
<1>1. mem.heap[a].k = "array" /\ Elements(a) = mem.heap[a].data
  BY DEF Elements
<1>2. i \in 1 .. Big
  <2>1. Sound(mem, {}, W)
    BY DEF Showing
  <2> QED BY <1>1, <2>1, DataFits
<1>3. Keeps(mem, {}, W, a)
  BY DEF Showing, Sound
<1>4. W[<<a, i>>] = Element(mem.heap[a], i)
  BY <1>2, <1>3 DEF Keeps
<1> QED BY <1>1, <1>2, <1>4, PlacesAre DEF Element, Placed

\* Such a place is an element of an array that such a place refers to.
LEMMA OneUp ==
  ASSUME NEW W, Showing(W), NEW S, Closed(S), NEW p \in Beyond(W, S)
  PROVE  \E q \in Beyond(W, S) : Under(W[p].ty, W[q].ty)
<1>1. p \in Places /\ IsRef(W[p].v) /\ W[p].v.i \notin S /\ W[p] # Free
  BY FreeIs DEF Beyond
<1>2. ASSUME NEW x \in Vars, W[p] = slots[x] PROVE FALSE
  <2>1. W[p].v.i \in Roots
    BY <1>1, <1>2 DEF Roots
  <2> QED BY <1>1, <2>1 DEF Closed
<1>3. PICK a \in Ids, i \in 1 .. Big :
        /\ p = <<a, i>> /\ At(W, a) # {} /\ mem.heap[a].k = "array" /\ i \in DOMAIN mem.heap[a].data
        /\ W[p] = [ty |-> mem.heap[a].el, v |-> mem.heap[a].data[i]]
  <2>1. InVariable(W, p) \/ InArray(W, p)
    BY <1>1, InElement
  <2>2. ~InVariable(W, p)
    BY <1>2 DEF InVariable
  <2> QED BY <2>1, <2>2 DEF InArray
<1>4. a \notin S
  <2>1. SUFFICES ASSUME a \in S PROVE FALSE
    OBVIOUS
  <2>2. Elements(a) = mem.heap[a].data
    BY <1>3 DEF Elements
  <2>3. W[p].v \in ToSet(Elements(a))
    BY <1>3, <2>2 DEF ToSet
  <2>4. W[p].v.i \in Referred(a)
    BY <1>1, <2>3 DEF Referred
  <2> QED BY <1>1, <2>1, <2>4 DEF Closed
<1>5. PICK q : q \in At(W, a)
  BY <1>3
<1>6. q \in Beyond(W, S)
  BY <1>4, <1>5 DEF At, Beyond
<1>7. q \in Places /\ IsRef(W[q].v) /\ W[q].v.i = a
  BY <1>5 DEF At
<1>8. Fits(W[q], mem)
  BY <1>7 DEF Showing, Sound
<1>9. Under(mem.heap[a].el, W[q].ty)
  BY <1>3, <1>7, <1>8 DEF Fits
<1> QED BY <1>3, <1>6, <1>9

\* There is none, as types nest to a bounded depth.
LEMMA NoneBeyond ==
  ASSUME NEW W, Showing(W), NEW S, Closed(S)
  PROVE  Beyond(W, S) = {}
<1>1. MaxNesting \in Nat
  BY BoundsAreNat
<1> DEFINE D == {k \in Nat : k <= MaxNesting => \A p \in Beyond(W, S) : W[p].ty \in TypesTo[MaxNesting - k]}
<1>2. 0 \in D
  <2>1. ASSUME NEW p \in Beyond(W, S) PROVE W[p].ty \in TypesTo[MaxNesting - 0]
    <3>1. W[p].ty \in AllTypes
      <4>1. Sound(mem, {}, W) /\ p \in Places /\ IsRef(W[p].v)
        BY DEF Showing, Beyond
      <4> QED BY <4>1, RefIs
    <3>2. MaxNesting - 0 = MaxNesting
      BY <1>1
    <3> QED BY <3>1, <3>2 DEF AllTypes
  <2> QED BY <2>1
<1>3. ASSUME NEW k \in Nat, k \in D PROVE k + 1 \in D
  <2>1. SUFFICES ASSUME k + 1 <= MaxNesting, NEW p \in Beyond(W, S)
                 PROVE  W[p].ty \in TypesTo[MaxNesting - (k + 1)]
    OBVIOUS
  <2>2. PICK q \in Beyond(W, S) : Under(W[p].ty, W[q].ty)
    BY OneUp
  <2>3. k <= MaxNesting /\ MaxNesting - k \in Nat /\ (MaxNesting - k) - 1 = MaxNesting - (k + 1)
    BY <1>1, <2>1
  <2>4. W[q].ty \in TypesTo[MaxNesting - k]
    BY <1>3, <2>3
  <2>5. W[p].ty \in TypesTo[(MaxNesting - k) - 1]
    BY <2>2, <2>3, <2>4 DEF Under
  <2> QED BY <2>3, <2>5
<1>4. MaxNesting \in D
  <2>1. Nat \subseteq D
    <3> HIDE DEF D
    <3> QED BY <1>2, <1>3, NatInd
  <2> QED BY <1>1, <2>1
<1>5. SUFFICES ASSUME NEW p \in Beyond(W, S) PROVE FALSE
  OBVIOUS
<1>6. PICK q \in Beyond(W, S) : Under(W[p].ty, W[q].ty)
  BY OneUp
<1>7. MaxNesting - MaxNesting = 0
  BY <1>1
<1>8. W[q].ty \in TypesTo[0]
  BY <1>1, <1>4, <1>6, <1>7
<1>9. 0 > 0
  BY <1>6, <1>8 DEF Under
<1> QED BY <1>9

\* What the program reaches is what is in a place.
LEMMA HeldNamed == ASSUME NEW W, Showing(W) PROVE Held = Named(W)
<1>1. Closed(Named(W))
  <2>1. Named(W) \in SUBSET Ids
    BY DEF Named
  <2>2. ASSUME NEW x \in Vars, IsRef(slots[x].v) PROVE slots[x].v.i \in Named(W)
    <3>1. <<x, 0>> \in Places /\ W[<<x, 0>>] = slots[x] /\ Sound(mem, {}, W)
      BY PlacesAre DEF Showing
    <3>2. PICK p : p = <<x, 0>>
      OBVIOUS
    <3>4. p \in Places /\ IsRef(W[p].v) /\ Sound(mem, {}, W)
      BY <2>2, <3>1, <3>2
    <3>3. W[p].v.i \in Ids /\ At(W, W[p].v.i) # {}
      BY <3>4, RefIs
    <3> QED BY <3>1, <3>2, <3>3 DEF Named
  <2>3. Roots \subseteq Named(W)
    BY <2>2 DEF Roots
  <2>4. ASSUME NEW a \in Named(W), NEW r \in Referred(a) PROVE r \in Named(W)
    <3>1. a \in Ids /\ At(W, a) # {}
      BY DEF Named
    <3>2. PICK v \in ToSet(Elements(a)) : IsRef(v) /\ r = v.i
      BY DEF Referred
    <3>3. PICK i \in DOMAIN Elements(a) : v = Elements(a)[i]
      BY <3>2 DEF ToSet
    <3>4. PICK p : p = <<a, i>>
      OBVIOUS
    <3>5. p \in Places /\ W[p].v = v
        <4>1. Placed(W, a, i)
        BY <3>1, <3>3, ElementPlaced
      <4> QED BY <3>3, <3>4, <4>1 DEF Placed
    <3>6. W[p].v.i \in Ids /\ At(W, W[p].v.i) # {}
      <4>1. Sound(mem, {}, W) /\ IsRef(W[p].v)
        BY <3>2, <3>5 DEF Showing
      <4> QED BY <3>5, <4>1, RefIs
    <3> QED BY <3>2, <3>5, <3>6 DEF Named
  <2> QED BY <2>1, <2>3, <2>4 DEF Closed
<1>2. ASSUME NEW id \in Named(W), NEW S, Closed(S) PROVE id \in S
  <2>1. PICK p \in Places : IsRef(W[p].v) /\ W[p].v.i = id
    BY DEF Named, At
  <2>2. p \notin Beyond(W, S)
    BY <1>2, NoneBeyond
  <2> QED BY <2>1, <2>2 DEF Beyond
<1>3. ASSUME NEW id \in Held PROVE id \in Named(W)
  BY <1>1, HeldIs
<1>4. ASSUME NEW id \in Named(W) PROVE id \in Held
  BY <1>2, HeldIs DEF Named
<1> QED BY <1>3, <1>4

\* The owners of an object are the places it is in.
LEMMA OwnersAt == ASSUME NEW W, Showing(W), NEW id \in Ids PROVE Owners(id, Held) = At(W, id)
<1>1. Held = Named(W)
  BY HeldNamed
<1>2. PICK els : els = {e \in Held \X (1 .. Big) :
         e[2] \in DOMAIN Elements(e[1]) /\ IsRef(Elements(e[1])[e[2]]) /\ Elements(e[1])[e[2]].i = id}
  OBVIOUS
<1>3. PICK own : own = {<<x, 0>> : x \in {y \in Vars : IsRef(slots[y].v) /\ slots[y].v.i = id}}
  OBVIOUS
<1>4. Owners(id, Held) = own \union els
  BY <1>2, <1>3 DEF Owners, Big
<1>5. own \subseteq At(W, id)
  <2>1. ASSUME NEW x \in Vars, IsRef(slots[x].v), slots[x].v.i = id PROVE <<x, 0>> \in At(W, id)
    BY <2>1, PlacesAre DEF Showing, At
  <2> QED BY <1>3, <2>1
<1>6. ASSUME NEW e \in els PROVE e \in At(W, id)
  <2>1. PICK a \in Held, i \in 1 .. Big : e = <<a, i>>
    BY <1>2
  <2>2. i \in DOMAIN Elements(a) /\ IsRef(Elements(a)[i]) /\ Elements(a)[i].i = id
    BY <1>2, <2>1
  <2>3. a \in Ids /\ At(W, a) # {}
    BY <1>1 DEF Named
  <2>4. <<a, i>> \in Places /\ W[<<a, i>>].v = Elements(a)[i]
    <3>1. Placed(W, a, i)
      BY <2>2, <2>3, ElementPlaced
    <3> QED BY <3>1 DEF Placed
  <2> QED BY <2>1, <2>2, <2>4 DEF At
<1>7. ASSUME NEW p \in At(W, id) PROVE p \in own \union els
  <2>1. p \in Places /\ IsRef(W[p].v) /\ W[p].v.i = id /\ W[p] # Free
    BY FreeIs DEF At
  <2>2. ASSUME NEW x \in Vars, p = <<x, 0>>, W[p] = slots[x] PROVE p \in own
    BY <1>3, <2>1, <2>2
  <2>3. ASSUME NEW a \in Ids, NEW i \in 1 .. Big, p = <<a, i>>, At(W, a) # {}, mem.heap[a].k = "array",
               i \in DOMAIN mem.heap[a].data, W[p] = [ty |-> mem.heap[a].el, v |-> mem.heap[a].data[i]]
        PROVE  p \in els
    <3>1. a \in Held
      BY <1>1, <2>3 DEF Named
    <3>2. Elements(a) = mem.heap[a].data
      BY <2>3 DEF Elements
    <3>3. i \in DOMAIN Elements(a) /\ IsRef(Elements(a)[i]) /\ Elements(a)[i].i = id
      BY <2>1, <2>3, <3>2
    <3> QED BY <1>2, <2>3, <3>1, <3>3
  <2>4. InVariable(W, p) \/ InArray(W, p)
    BY <2>1, InElement
  <2>5. CASE InVariable(W, p)
    BY <2>2, <2>5 DEF InVariable
  <2>6. CASE InArray(W, p)
    BY <2>3, <2>6 DEF InArray
  <2> QED BY <2>4, <2>5, <2>6
<1> QED BY <1>4, <1>5, <1>6, <1>7

-----------------------------------------------------------------------------
(* The properties                                                          *)

\* A state that the invariant allows shows its values.
LEMMA RightShows == ASSUME RVInv, ~mem.stuck PROVE \E W : Showing(W)
<1>1. PICK W : Shows(slots, mem, W)
  BY DEF RVInv, Right
<1>2. Showing(W)
  BY <1>1 DEF Shows, Showing
<1> QED BY <1>2

\* RefsMatchOwners follows from the invariant.
LEMMA RefsMatch == ASSUME RVInv PROVE RefsMatchOwners
<1>1. SUFFICES ASSUME ~mem.stuck
               PROVE  /\ ~mem.broken
                      /\ Held \subseteq Allocated
                      /\ \A id \in Held : /\ mem.heap[id].rc = Cardinality(Owners(id, Held))
                                          /\ mem.heap[id].k = "host" \/ mem.heap[id].rc = 1
                      /\ \A id \in Allocated \ Held : mem.heap[id].k = "array" /\ mem.heap[id].fixed
  BY DEF RefsMatchOwners, CountsMatch
<1>2. PICK W : Showing(W)
  BY <1>1, RightShows
<1>3. /\ mem \in Memories /\ ~mem.broken /\ W \in [Places -> Contents]
      /\ \A p \in Places : Fits(W[p], mem)
      /\ \A id \in Ids : Keeps(mem, {}, W, id)
  BY <1>2 DEF Showing, Sound
<1>4. Held = Named(W)
  BY <1>2, HeldNamed
<1>5. ASSUME NEW id \in Held
      PROVE  /\ id \in Allocated
             /\ mem.heap[id].rc = Cardinality(Owners(id, Held))
             /\ mem.heap[id].k = "host" \/ mem.heap[id].rc = 1
  <2>1. id \in Ids /\ At(W, id) # {}
    BY <1>4 DEF Named
  <2>2. PICK p \in Places : IsRef(W[p].v) /\ W[p].v.i = id
    BY <2>1 DEF At
  <2>3. mem.heap[id].k = W[p].v.tag /\ W[p].v.tag \in RefTags
    BY <1>3, <2>2 DEF Fits, IsRef
  <2>4. id \in Allocated
    BY <2>1, <2>3 DEF Allocated, Live, NoObject, RefTags
  <2>5. Owners(id, Held) = At(W, id)
    BY <1>2, <2>1, OwnersAt
  <2>6. mem.heap[id].rc = Cardinality(At(W, id)) /\ (mem.heap[id].k = "host" \/ mem.heap[id].rc = 1)
    BY <1>3, <2>1 DEF Keeps
  <2> QED BY <2>4, <2>5, <2>6
<1>6. ASSUME NEW id \in Allocated \ Held PROVE mem.heap[id].k = "array" /\ mem.heap[id].fixed
  <2>1. id \in Ids /\ mem.heap[id] # NoObject /\ At(W, id) = {}
    BY <1>4 DEF Allocated, Live, Named
  <2> QED BY <1>3, <2>1 DEF Keeps
<1> QED BY <1>3, <1>5, <1>6

\* ReleasedByItsType follows from the invariant.
LEMMA Released == ASSUME RVInv PROVE ReleasedByItsType
<1>1. PICK W : Shows(slots, mem, W)
  BY DEF RVInv, Right
<1>2. Hosted(mem)
  BY <1>1 DEF Shows, Sound
<1>3. ASSUME NEW p \in DOMAIN mem.host
      PROVE  LET h == mem.host[p]
             IN  /\ h.releases = IF Wrapped(p) THEN 0 ELSE 1
                 /\ (h.reg = "root" \/ regs[h.reg].names = << >>) => h.by \subseteq {h.ty}
  <2>1. mem.host[p].releases = IF Holds(mem, p) # {} THEN 0 ELSE 1
    BY <1>2 DEF Hosted
  <2>2. Wrapped(p) <=> Holds(mem, p) # {}
    BY DEF Wrapped, Holds, Allocated, Live, NoObject
  <2>3. Plain(mem.host[p].reg) => mem.host[p].by \subseteq {mem.host[p].ty}
    BY <1>2 DEF Hosted
  <2> QED BY <2>1, <2>2, <2>3 DEF Plain
<1> QED BY <1>3 DEF ReleasedByItsType

\* GrowsToHalf follows from the invariant.
LEMMA Grows == ASSUME RVInv PROVE GrowsToHalf
<1>1. PICK W : Shows(slots, mem, W)
  BY DEF RVInv, Right
<1>2. \A id \in Ids : Sizes(mem.heap[id])
  BY <1>1 DEF Shows, Sound, Keeps
<1>3. mem.stuck => HalfFull(mem)
  BY DEF RVInv, Right
<1>4. mem.stuck => \E id \in Allocated : mem.heap[id].k = "array" /\ 2 * Len(mem.heap[id].data) >= CapMod
  BY <1>3 DEF HalfFull, Allocated, Live, NoObject
<1>5. \A id \in Allocated : mem.heap[id].k = "array" => Len(mem.heap[id].data) <= mem.heap[id].cap
  BY <1>2 DEF Sizes, Allocated
<1> QED BY <1>4, <1>5 DEF GrowsToHalf

\* Counts are what holds an object, and nothing that is held is freed or
\* forgotten (retain and release, copyValue and dropValue).
THEOREM CountsAreOwners == Spec => []RefsMatchOwners
<1>1. RVInv => RefsMatchOwners
  BY RefsMatch
<1> QED BY <1>1, AlwaysRight, PTL

\* The callback runs once for each payload, and is that of its type.
THEOREM CallbacksOnce == Spec => []ReleasedByItsType
<1>1. RVInv => ReleasedByItsType
  BY Released
<1> QED BY <1>1, AlwaysRight, PTL

\* Only an array with half of the lengths of a uint32_t fails to grow.
THEOREM StuckAtHalf == Spec => []GrowsToHalf
<1>1. RVInv => GrowsToHalf
  BY Grows
<1> QED BY <1>1, AlwaysRight, PTL
-----------------------------------------------------------------------------
(* What the program sees                                                   *)

\* Twins have one tree.
LEMMA SameTree ==
  ASSUME NEW m, NEW v, NEW m1, NEW w, Twins(m, v, m1, w)
  PROVE  TreeAt(m1, w) = TreeAt(m, v)
BY BoundsAreNat DEF Twins, TreeAt

\* The tree of a value in a place.
LEMMA TreeAtIs ==
  ASSUME NEW m, NEW O, NEW W, Sound(m, O, W), NEW p \in Places, W[p] # Free
  PROVE  /\ TreeAt(m, W[p].v) # NoValue
         /\ IsRef(W[p].v) /\ m.heap[W[p].v.i].k = "array" => TreeAt(m, W[p].v) = <<"arr", Els(m, W[p].v.i)>>
<1>1. PICK id, v : id = W[p].v.i /\ v = W[p].v
  OBVIOUS
<1>2. MaxNesting \in Nat /\ W \in [Places -> Contents] /\ v \in Values
  BY <1>1, BoundsAreNat, SoundIs, ContentIs
<1>3. PICK k : k = MaxNesting
  OBVIOUS
<1> DEFINE els == [i \in DOMAIN m.heap[id].data |-> TreesIn(m)[k][m.heap[id].data[i]]]
<1>4. TreeAt(m, v) = TreeOver(v, els, m)
  BY <1>1, <1>2, <1>3, TreeIs DEF TreeAt
<1>5. CASE ~IsRef(v)
  <2>1. v.tag # "free"
    BY <1>2 DEF Values, Nil, Uninitialized, RefTags
  <2>2. TreeAt(m, v) = <<v.tag, v.i>>
    <3> HIDE DEF els
    <3> QED BY <1>4, <1>5, TreeOverIs
  <2> QED BY <1>1, <1>5, <2>1, <2>2 DEF NoValue
<1>6. CASE IsRef(v)
  <2>1. Fits(W[p], m) /\ v.tag \in RefTags /\ id \in Ids /\ At(W, id) # {}
    BY <1>1, <1>6, RefIs, SoundIs
  <2>2. m.heap[id].k \in {"string", "host", "array"}
    BY <1>1, <1>6, <2>1 DEF Fits, RefTags
  <2>3. CASE m.heap[id].k \in {"string", "host"}
    <3>1. \E c : TreeAt(m, v) = <<"str", c>> \/ TreeAt(m, v) = <<"host", c>>
      <4> HIDE DEF els
      <4> QED BY <1>1, <1>4, <1>6, <2>3, TreeOverIs
    <3> QED BY <1>1, <2>3, <3>1 DEF NoValue
  <2>4. CASE m.heap[id].k = "array"
    <3>1. TreeAt(m, v) = <<"arr", els>>
      <4> HIDE DEF els
      <4> QED BY <1>1, <1>4, <1>6, <2>4, TreeOverIs
    <3>2. ASSUME NEW i \in DOMAIN m.heap[id].data
          PROVE  TreesIn(m)[k][m.heap[id].data[i]] = TreeAt(m, m.heap[id].data[i])
      <4>1. ElementIn(m, W, id, i)
        BY <2>1, <2>4, ElementAt
      <4>2. PICK q : q = <<id, i>>
        OBVIOUS
      <4>3. q \in Places /\ W[q] # Free /\ W[q].v = m.heap[id].data[i] /\ W[q].ty \in TypesTo[k]
        <5>1. q \in Places /\ W[q] # Free /\ W[q].v = m.heap[id].data[i]
          BY <4>1, <4>2 DEF ElementIn
        <5> QED BY <1>2, <1>3, <5>1, ContentIs DEF AllTypes
      <4>4. TreesIn(m)[k + 1][W[q].v] = TreesIn(m)[k][W[q].v]
        BY <1>2, <1>3, <4>3, Settled
      <4> QED BY <1>3, <4>3, <4>4 DEF TreeAt
    <3>3. els = Els(m, id)
      BY <3>2 DEF Els
    <3>4. TreeAt(m, v) = <<"arr", Els(m, id)>>
      BY <3>1, <3>3
    <3> QED BY <1>1, <3>4 DEF NoValue
  <2> QED BY <2>2, <2>3, <2>4
<1> QED BY <1>5, <1>6

LEMMA ValsPut ==
  ASSUME NEW s, NEW m, NEW s1, NEW m1, NEW x \in Vars, Apart(s, m, s1, m1, x)
  PROVE  Becomes(s, m, s1, m1, x)
<1>1. ASSUME NEW z \in Vars, z # x PROVE Vals(s1, m1)[z] = Vals(s, m)[z]
  <2>1. s1[z] = s[z]
    BY <1>1 DEF Apart
  <2>2. s[z] # Free => TreeAt(m1, s[z].v) = TreeAt(m, s[z].v)
    BY <1>1, SameTree DEF Apart
  <2> QED BY <2>1, <2>2 DEF Vals
<1> DEFINE V == Vals(s, m)
           V1 == Vals(s1, m1)
<1>2. V = [z \in Vars |-> V[z]] /\ V1 = [z \in Vars |-> V1[z]]
  BY DEF Vals
<1>3. \A z \in Vars : z # x => V1[z] = V[z]
  BY <1>1
<1> HIDE DEF V, V1
<1>4. V1 = [V EXCEPT ![x] = V1[x]]
  BY <1>2, <1>3
<1> QED BY <1>4 DEF V, V1, Becomes

\* Variables before an operation that changes no object they hold.
LEMMA VarsKept ==
  ASSUME NEW s, NEW m, NEW W, Shows(s, m, W), NEW m1, Keeping(m, m1), NEW z \in Vars, s[z] # Free
  PROVE  Twins(m, s[z].v, m1, s[z].v)
<1>1. PICK p, O : p = <<z, 0>> /\ O = {}
  OBVIOUS
<1>2. Sound(m, O, W) /\ W[p] = s[z] /\ p \in Places
  BY <1>1, OpenIs DEF Shows
<1> QED BY <1>2, KeepsTwin

\* Variables after an operation that frees objects.
LEMMA VarsShrunk ==
  ASSUME NEW s1, NEW m1, NEW W1, Shows(s1, m1, W1), NEW m, Shrinks(m, m1), NEW z \in Vars, s1[z] # Free
  PROVE  Twins(m, s1[z].v, m1, s1[z].v)
<1>1. PICK p, O : p = <<z, 0>> /\ O = {}
  OBVIOUS
<1>2. Sound(m1, O, W1) /\ W1[p] = s1[z] /\ p \in Places
  BY <1>1, OpenIs DEF Shows
<1>3. ASSUME NEW id \in Ids, At(W1, id) # {} PROVE Alike(m1.heap[id], m.heap[id])
  <2>1. PICK q \in Places : IsRef(W1[q].v) /\ W1[q].v.i = id
    BY <1>3 DEF At
  <2>2. Fits(W1[q], m1)
    BY <1>2, SoundIs
  <2>3. m1.heap[id].k # "free"
    BY <2>1, <2>2 DEF Fits, IsRef, RefTags
  <2> QED BY <2>3 DEF Shrinks, Alike
<1>4. Twins(m1, W1[p].v, m, W1[p].v)
  BY <1>2, <1>3, StaysTwin
<1> QED BY <1>2, <1>4 DEF Twins

\* A copy and a drop, of any value.
LEMMA CopyKeeps ==
  ASSUME RegsOK, NEW v \in Values, NEW t \in AllTypes, NEW m \in Memories, NEW r, r = copyValue(v, t, m)
  PROVE  r \in VMs /\ r.v \in Values /\ r.m \in Memories /\ Keeping(m, r.m)
<1>1. PICK c \in CopyFns : c = copying[MaxNesting + 1]
  BY CopyValueOk
<1>2. PICK b : b = <<v, t, m>>
  OBVIOUS
<1>3. b \in Arguments /\ b[3] = m /\ r = c[b]
  BY <1>1, <1>2 DEF Arguments, copyValue
<1>4. r \in VMs /\ Keeping(m, r.m)
  BY <1>3 DEF CopyFns
<1> QED BY <1>4, VMIs

\* The drop frees objects at most.
LEMMA DropShrinks ==
  ASSUME RegsOK, NEW v \in Values, NEW t \in AllTypes, NEW m \in Memories, NEW m1, m1 = dropValue(v, t, m)
  PROVE  m1 \in Memories /\ m1.full = m.full /\ Shrinks(m, m1)
<1>1. PICK d \in DropFns : d = dropping[MaxNesting + 1]
  BY DropValueOk
<1>2. PICK b : b = <<v, t, m>>
  OBVIOUS
<1>3. b \in Arguments /\ b[3] = m /\ m1 = d[b]
  BY <1>1, <1>2 DEF Arguments, dropValue
<1> QED BY <1>3 DEF DropFns

\* A variable that gets its first value.
LEMMA Initialized ==
  ASSUME Right(slots, mem), NEW x \in Vars, slots[x] = Free,
         \A z \in Vars : z # x => slots'[z] = slots[z], Keeping(mem, mem')
  PROVE  Initializes(x)
<1>1. PICK W : Shows(slots, mem, W)
  BY DEF Right
<1>2. Apart(slots, mem, slots', mem', x)
  BY <1>1, VarsKept DEF Apart
<1>3. PICK c : c = Vals(slots', mem')[x]
  OBVIOUS
<1>4. Vals(slots', mem') = [Vals(slots, mem) EXCEPT ![x] = c]
  <2>1. Becomes(slots, mem, slots', mem', x)
    BY <1>2, ValsPut
  <2> QED BY <1>3, <2>1 DEF Becomes
<1>5. Vals(slots, mem)[x] = NoValue
  BY DEF Vals
<1> QED BY <1>4, <1>5 DEF Initializes, Into

\* A string, nil and an array.
LEMMA StringInit ==
  ASSUME Right(slots, mem), NEW x \in Vars, NEW t \in Types, NEW b \in Bytes, MakeString(x, t, b)
  PROVE  Initializes(x)
<1>1. slots[x] = Free /\ Room(mem) /\ Place(x, t, VM(Ref("string", Fresh(mem)), allocString(b, mem)))
  BY DEF MakeString
<1>2. PICK r : r = VM(Ref("string", Fresh(mem)), allocString(b, mem))
  OBVIOUS
<1>3. mem' = r.m /\ slots' = [slots EXCEPT ![x] = [ty |-> t, v |-> r.v]]
  BY <1>1, <1>2, PlaceIs
<1>4. slots \in [Vars -> Contents] /\ mem \in Memories
  BY DEF Right, Shows, Sound
<1>5. r.m = allocString(b, mem)
  BY <1>2 DEF VM
<1>6. Keeping(mem, mem')
  BY <1>1, <1>3, <1>4, <1>5, AllocStringIs
<1> QED BY <1>1, <1>3, <1>4, <1>6, Initialized

LEMMA NilInit ==
  ASSUME Right(slots, mem), NEW x \in Vars, NEW t \in Types, MakeNil(x, t)
  PROVE  Initializes(x)
<1>1. slots[x] = Free /\ Place(x, t, VM(Nil, mem))
  BY DEF MakeNil
<1>2. PICK r : r = VM(Nil, mem)
  OBVIOUS
<1>3. mem' = r.m /\ slots' = [slots EXCEPT ![x] = [ty |-> t, v |-> r.v]]
  BY <1>1, <1>2, PlaceIs
<1>4. slots \in [Vars -> Contents]
  BY DEF Right
<1>5. Keeping(mem, mem')
  BY <1>2, <1>3, KeepingIs DEF VM
<1> QED BY <1>1, <1>3, <1>4, <1>5, Initialized

LEMMA ArrayInit ==
  ASSUME Right(slots, mem), NEW x \in Vars, NEW t \in Types, MakeArray(x, t)
  PROVE  Initializes(x)
<1>1. slots[x] = Free /\ t.k = "dyn" /\ Room(mem) /\ Place(x, t, VM(Ref("array", Fresh(mem)), allocArray(t.el, mem)))
  BY DEF MakeArray
<1>2. PICK r : r = VM(Ref("array", Fresh(mem)), allocArray(t.el, mem))
  OBVIOUS
<1>3. mem' = r.m /\ slots' = [slots EXCEPT ![x] = [ty |-> t, v |-> r.v]]
  BY <1>1, <1>2, PlaceIs
<1>4. slots \in [Vars -> Contents] /\ mem \in Memories
  BY DEF Right, Shows, Sound
<1>5. t \in AllTypes
  BY ValuesAssumption
<1>6. t.el \in AllTypes
  BY <1>1, <1>5, AllTypesMade
<1>7. r.m = allocArray(t.el, mem)
  BY <1>2 DEF VM
<1>8. Keeping(mem, mem')
  BY <1>1, <1>3, <1>4, <1>6, <1>7, AllocArrayIs
<1> QED BY <1>1, <1>3, <1>4, <1>8, Initialized

LEMMA KeepingBut ==
  ASSUME NEW m, NEW m1, Keeping(m, m1), NEW m2, NEW a, m.heap[a] = NoObject, Aside(m1, m2, a), m1.full => m2.full
  PROVE  Keeping(m, m2)
<1>1. m.heap[a].k = "free"
  BY DEF NoObject
<1>2. \A j \in Ids : m.heap[j].k \in {"string", "array", "host"} => m2.heap[j] = m1.heap[j]
  BY <1>1 DEF Aside
<1> QED BY <1>2 DEF Keeping

\* A handle.
LEMMA HandleInit ==
  ASSUME Right(slots, mem), NEW x \in Vars, NEW r, NEW n, allocHandle(x, r, n)
  PROVE  Initializes(x)
<1>1. PICK h, mh : /\ mh = [mem EXCEPT !.host = Append(@, Payload(r, n, find(regs, r, n)))]
                   /\ Place(x, Host, VM(Ref("host", Fresh(mem)), Alloc(h, mh)))
  BY DEF allocHandle
<1>2. slots[x] = Free /\ Room(mem)
  BY DEF allocHandle
<1>3. PICK c : c = VM(Ref("host", Fresh(mem)), Alloc(h, mh))
  OBVIOUS
<1>4. mem' = c.m /\ slots' = [slots EXCEPT ![x] = [ty |-> Host, v |-> c.v]]
  BY <1>1, <1>3, PlaceIs
<1>5. slots \in [Vars -> Contents] /\ mem \in Memories
  BY DEF Right, Shows, Sound
<1>6. mh.heap = mem.heap /\ mh.full = mem.full
  BY <1>1, <1>5 DEF Memories
<1>7. PICK f : f = Fresh(mem)
  OBVIOUS
<1>8. f \in Ids /\ mem.heap[f] = NoObject /\ f = Fresh(mh)
  BY <1>2, <1>5, <1>6, <1>7, FreshIs, FreshByHeap
<1>9. mem' = [mh EXCEPT !.heap[f] = h]
  BY <1>3, <1>4, <1>8 DEF VM, Alloc
<1>10. Aside(mh, mem', f) /\ mem'.full = mh.full
  <2>1. mem.heap \in [Ids -> Objects]
    BY <1>5, MemoryIs
  <2>2. mh = [heap |-> mh.heap, host |-> mh.host, broken |-> mh.broken, stuck |-> mh.stuck, full |-> mh.full]
    BY <1>1, <1>5 DEF Memories
  <2> QED BY <1>6, <1>9, <2>1, <2>2 DEF Aside
<1>11. Keeping(mem, mem')
  <2>1. Keeping(mem, mh)
    <3>1. Keeping(mem, mem)
      BY KeepingIs
    <3> QED BY <1>6, <3>1 DEF Keeping
  <2> QED BY <1>8, <1>10, <2>1, KeepingBut
<1> QED BY <1>2, <1>4, <1>5, <1>11, Initialized

\* A literal of an array of fixed length.
LEMMA FixedInit ==
  ASSUME RegsOK, Right(slots, mem), NEW x \in Vars, NEW y \in Vars, MakeFixed(x, y)
  PROVE  Initializes(x)
<1>1. PICK a, t : a = Fresh(mem) /\ t = slots[y].ty
  OBVIOUS
<1>2. PICK m0, r1, m1, r2, m2 : FillsTwo(x, y, a, t, m0, r1, m1, r2, m2)
  BY <1>1, MakeFixedIs, Zenon
<1>3. /\ m0 = allocFixedArray(t, mem)
      /\ r1 = copyValue(slots[y].v, t, m0) /\ m1 = arraySet(a, 1, r1.v, r1.m)
      /\ r2 = copyValue(slots[y].v, t, m1) /\ m2 = arraySet(a, 2, r2.v, r2.m)
      /\ slots[x] = Free /\ Fix(t) \in Types /\ Room(mem)
      /\ Place(x, Fix(t), VM(Ref("array", a), m2))
  BY <1>2, Zenon DEF FillsTwo
<1>4. slots \in [Vars -> Contents] /\ mem \in Memories
  BY DEF Right, Shows, Sound
<1>5. t \in AllTypes /\ slots[y].v \in Values
  <2>1. Fix(t) \in AllTypes
    BY <1>3, ValuesAssumption
  <2>2. Fix(t).k = "fix" /\ Fix(t).el = t
    BY DEF Fix
  <2>3. t \in AllTypes
    BY <2>1, <2>2, AllTypesMade
  <2>4. t.k \in {"string", "host", "nullable", "dyn", "fix"}
    BY <2>3, AllTypesMade
  <2>5. slots[y] # Free
    BY <1>1, <2>4 DEF Free
  <2> QED BY <1>4, <2>3, <2>5 DEF Contents
<1>6. PICK o : o = ArrayObject(t, TRUE, <<Uninitialized, Uninitialized>>, FixedLength)
  OBVIOUS
<1>7. a \in Ids /\ mem.heap[a] = NoObject /\ o \in Arrays /\ IsPut(m0, mem, a, o) /\ Keeping(mem, m0)
  BY <1>1, <1>3, <1>4, <1>5, <1>6, AllocArrayIs, Zenon
<1>8. o.data \in Seq(Values) /\ DOMAIN o.data = 1 .. 2 /\ o.data[1] = Uninitialized /\ o.data[2] = Uninitialized
  BY <1>6, FirstData DEF ArrayObject
<1>9. m0 \in Memories /\ m0.heap[a] = o
  BY <1>7 DEF IsPut
<1>10. Given(m0, a, 1, r1, m1)
  <2>1. m0.heap[a] \in Arrays /\ 1 \in DOMAIN m0.heap[a].data /\ m0.heap[a].data[1] = Uninitialized
    BY <1>7, <1>8, <1>9
  <2> QED BY <1>3, <1>5, <1>7, <1>9, <2>1, GivenIs
<1>11. PICK d1 : d1 = [o.data EXCEPT ![1] = r1.v]
  OBVIOUS
<1>12. /\ r1.v \in Values /\ r1.m \in Memories /\ m1 \in Memories /\ m1.full = r1.m.full /\ m1.heap[a] \in Arrays /\ m1.heap[a].data = d1
       /\ m1 = [r1.m EXCEPT !.heap[a].data = d1]
  BY <1>9, <1>10, <1>11, Zenon DEF Given
<1>13. DOMAIN d1 = 1 .. 2 /\ d1[2] = Uninitialized
  BY <1>8, <1>11, <1>12, OtherElement
<1>14. Given(m1, a, 2, r2, m2)
  <2>1. m1.heap[a] \in Arrays /\ 2 \in DOMAIN m1.heap[a].data /\ m1.heap[a].data[2] = Uninitialized
    BY <1>12, <1>13
  <2> QED BY <1>3, <1>5, <1>7, <1>12, <2>1, GivenIs, Zenon
<1>15. PICK d2 : d2 = [d1 EXCEPT ![2] = r2.v]
  OBVIOUS
<1>16. r2.m \in Memories /\ m2.full = r2.m.full /\ m2 = [r2.m EXCEPT !.heap[a].data = d2]
  BY <1>12, <1>14, <1>15, Zenon DEF Given
<1>17. Keeping(m0, r1.m) /\ Keeping(m1, r2.m)
  BY <1>3, <1>5, <1>9, <1>12, CopyKeeps
<1>18. ASSUME NEW r \in Memories, NEW d, NEW m, m = [r EXCEPT !.heap[a].data = d] PROVE Aside(r, m, a)
  <2>1. r.heap \in [Ids -> Objects]
    BY MemoryIs
  <2>2. m.heap = [r.heap EXCEPT ![a].data = d]
    BY <1>18 DEF Memories
  <2> QED BY <2>1, <2>2 DEF Aside
<1>19. Keeping(mem, m1)
  <2>1. Keeping(mem, r1.m)
    BY <1>7, <1>17, KeepingIs
  <2>2. Aside(r1.m, m1, a)
    BY <1>12, <1>18
  <2>3. mem.heap[a] = NoObject /\ (r1.m.full => m1.full)
    BY <1>7, <1>12
  <2> QED BY <2>1, <2>2, <2>3, KeepingBut
<1>20. Keeping(mem, m2)
  <2>1. Keeping(mem, r2.m)
    BY <1>17, <1>19, KeepingIs
  <2>2. Aside(r2.m, m2, a)
    BY <1>16, <1>18
  <2>3. mem.heap[a] = NoObject /\ (r2.m.full => m2.full)
    BY <1>7, <1>16
  <2> QED BY <2>1, <2>2, <2>3, KeepingBut
<1>21. PICK u, rr : u = Fix(t) /\ rr = VM(Ref("array", a), m2)
  OBVIOUS
<1>22. mem' = rr.m /\ slots' = [slots EXCEPT ![x] = [ty |-> u, v |-> rr.v]]
  <2>1. Place(x, u, rr)
    BY <1>3, <1>21, Zenon
  <2> QED BY <2>1, PlaceIs
<1>23. rr.m = m2
  BY <1>21 DEF VM
<1> QED BY <1>3, <1>4, <1>20, <1>22, <1>23, Initialized

\* A variable that gets a copy of what is in p.
LEMMA CopiedInto ==
  ASSUME RegsOK, Right(slots, mem), ~mem.stuck, NEW W, Shows(slots, mem, W), NEW p \in Places, W[p] # Free,
         NEW y \in Vars, slots[y] = Free, NEW r, r = copyValue(W[p].v, W[p].ty, mem), ~r.m.full,
         mem' = r.m, slots' = [slots EXCEPT ![y] = [ty |-> W[p].ty, v |-> r.v]]
  PROVE  Into(y, TreeAt(mem, W[p].v))
<1>1. slots \in [Vars -> Contents]
  BY DEF Right
<1>2. mem \in Memories /\ W \in [Places -> Contents] /\ Sound(mem, {}, W) /\ W[<<y, 0>>] = Free
  BY ShownIs
<1>3. PICK q : q = <<y, 0>>
  OBVIOUS
<1>4. q \in Open({}) /\ q \in Places /\ W[q] = Free
  BY <1>2, <1>3, OpenIs
<1>5. r \in VMs /\ Keeping(mem, r.m) /\ \E W1 : CopiedTo(mem, {}, W, p, q, r, W1)
  BY <1>2, <1>4, CopyIs
<1>6. Twins(mem, W[p].v, r.m, r.v)
  BY <1>5 DEF CopiedTo
<1>7. slots'[y] # Free /\ slots'[y].v = r.v
  <2>1. r.v \in Values
    BY <1>5, VMIs
  <2>2. slots'[y] = [ty |-> W[p].ty, v |-> r.v]
    BY <1>1
  <2> QED BY <2>1, <2>2, NotFree
<1>8. Vals(slots', mem')[y] = TreeAt(mem, W[p].v)
  BY <1>6, <1>7, SameTree DEF Vals
<1>9. Apart(slots, mem, slots', mem', y)
  BY <1>1, <1>5, VarsKept DEF Apart
<1>10. Becomes(slots, mem, slots', mem', y)
  BY <1>9, ValsPut
<1> QED BY <1>8, <1>10 DEF Becomes, Into

\* A variable declared with another's value.
LEMMA CopyTree ==
  ASSUME RegsOK, Right(slots, mem), ~mem.stuck, NEW x \in Vars, NEW y \in Vars, Copy(x, y)
  PROVE  slots[x] # Free /\ Into(y, TreeAt(mem, slots[x].v))
<1>1. slots[x] # Free /\ slots[y] = Free /\ Place(y, slots[x].ty, CopyOf(x))
  BY DEF Copy
<1>2. PICK r : r = CopyOf(x)
  OBVIOUS
<1>3. /\ ~r.m.full /\ mem' = r.m
      /\ slots' = [slots EXCEPT ![y] = [ty |-> slots[x].ty, v |-> r.v]]
  BY <1>1, <1>2, PlaceIs
<1>4. PICK W : Shows(slots, mem, W)
  BY DEF Right
<1>5. PICK p : p = <<x, 0>>
  OBVIOUS
<1>6. p \in Places /\ W[p] = slots[x]
  BY <1>4, <1>5, ShownIs, OpenIs
<1>7. r = copyValue(W[p].v, W[p].ty, mem)
  BY <1>2, <1>6 DEF CopyOf
<1>8. Into(y, TreeAt(mem, W[p].v))
  BY <1>1, <1>3, <1>4, <1>6, <1>7, CopiedInto
<1> QED BY <1>1, <1>6, <1>8

\* An assignment.
LEMMA AssignInto ==
  ASSUME RegsOK, Right(slots, mem), ~mem.stuck, NEW x \in Vars, NEW y \in Vars, Assign(x, y), Right(slots', mem')
  PROVE  slots[x] # Free /\ Into(y, TreeAt(mem, slots[x].v))
<1>1. PICK r : r = CopyOf(x)
  OBVIOUS
<1>2. /\ slots[x] # Free /\ slots[x].ty = slots[y].ty
      /\ Place(y, slots[x].ty, VM(r.v, dropValue(slots[y].v, slots[y].ty, r.m)))
  BY <1>1 DEF Assign
<1>3. slots \in [Vars -> Contents]
  BY DEF Right
<1>4. PICK W : Shows(slots, mem, W)
  BY DEF Right
<1>5. PICK p : p = <<x, 0>>
  OBVIOUS
<1>6. /\ mem \in Memories /\ Sound(mem, {}, W) /\ W[p] = slots[x] /\ W[p] # Free /\ p \in Places
      /\ Hand \in Open({}) /\ W[Hand] = Free
  <2>1. \A j \in 1 .. Big : W[<<0, j>>] = Free
    BY <1>4, ShownIs
  <2>2. W[Hand] = Free
    BY <2>1, OpenIs DEF Hand
  <2> QED BY <1>2, <1>4, <1>5, <2>2, ShownIs, OpenIs
<1>7. PICK m1 : m1 = dropValue(slots[y].v, slots[y].ty, r.m)
  OBVIOUS
<1>8. PICK rr : rr = VM(r.v, m1)
  OBVIOUS
<1>9. /\ ~m1.full /\ mem' = m1 /\ slots' = [slots EXCEPT ![y] = [ty |-> slots[x].ty, v |-> r.v]]
  <2>1. Place(y, slots[x].ty, rr)
    BY <1>2, <1>7, <1>8
  <2>2. rr.v = r.v /\ rr.m = m1
    BY <1>8 DEF VM
  <2> QED BY <2>1, <2>2, PlaceIs
<1>10. slots[x].v \in Values /\ slots[x].ty \in AllTypes /\ slots[y].v \in Values
  <2>1. slots[x].v \in Values /\ slots[x].ty \in AllTypes
    BY <1>2, <1>3 DEF Contents
  <2>2. Free.ty \notin AllTypes
    <3>1. ASSUME Free.ty \in AllTypes PROVE FALSE
      <4>1. Free.ty.k \in {"string", "host", "nullable", "dyn", "fix"}
        BY <3>1, AllTypesMade
      <4> QED BY <4>1 DEF Free
    <3> QED BY <3>1
  <2> QED BY <1>2, <1>3, <2>1, <2>2 DEF Contents
<1>11. r = copyValue(W[p].v, W[p].ty, mem)
  BY <1>1, <1>6 DEF CopyOf
<1>12. r.v \in Values /\ r.m \in Memories
  BY <1>6, <1>10, <1>11, CopyKeeps
<1>13. m1.full = r.m.full /\ Shrinks(r.m, m1)
  BY <1>2, <1>7, <1>10, <1>12, DropShrinks
<1>14. Keeping(mem, r.m) /\ \E W1 : CopiedTo(mem, {}, W, p, Hand, r, W1)
  BY <1>6, <1>9, <1>11, <1>13, CopyIs
<1>15. Twins(mem, slots[x].v, r.m, r.v)
  BY <1>6, <1>14 DEF CopiedTo
<1>16. PICK V : Shows(slots', mem', V)
  BY DEF Right
<1>17. \A z \in Vars : slots'[z] # Free => Twins(r.m, slots'[z].v, mem', slots'[z].v)
  BY <1>9, <1>13, <1>16, VarsShrunk
<1>18. Apart(slots, mem, slots', mem', y)
  <2>1. ASSUME NEW z \in Vars, z # y PROVE slots'[z] = slots[z] /\ (slots[z] # Free => Twins(mem, slots[z].v, mem', slots[z].v))
    <3>1. slots'[z] = slots[z]
      BY <1>3, <1>9, <2>1
    <3>2. slots[z] # Free => Twins(mem, slots[z].v, r.m, slots[z].v)
      BY <1>4, <1>14, VarsKept
    <3> QED BY <1>17, <3>1, <3>2, TwinsAre
  <2> QED BY <2>1 DEF Apart
<1>19. slots'[y] # Free /\ slots'[y].v = r.v
  <2>1. slots'[y] = [ty |-> slots[x].ty, v |-> r.v]
    BY <1>3, <1>9
  <2> QED BY <1>12, <2>1, NotFree
<1>20. Twins(mem, slots[x].v, mem', r.v)
  BY <1>15, <1>17, <1>19, TwinsAre
<1>21. Vals(slots', mem')[y] = TreeAt(mem, slots[x].v)
  BY <1>19, <1>20, SameTree DEF Vals
<1>22. Becomes(slots, mem, slots', mem', y)
  BY <1>18, ValsPut
<1> QED BY <1>2, <1>21, <1>22 DEF Becomes, Into

\* A variable that goes out of scope.
LEMMA DropInto ==
  ASSUME RegsOK, Right(slots, mem), ~mem.stuck, NEW x \in Vars, Drop(x), Right(slots', mem')
  PROVE  slots[x] # Free /\ Into(x, NoValue)
<1>1. /\ slots[x] # Free /\ slots' = [slots EXCEPT ![x] = Free]
      /\ mem' = dropValue(slots[x].v, slots[x].ty, mem)
  BY DEF Drop
<1>2. slots \in [Vars -> Contents] /\ mem \in Memories
  BY DEF Right, Shows, Sound
<1>3. slots[x].v \in Values /\ slots[x].ty \in AllTypes
  BY <1>1, <1>2 DEF Contents
<1>4. Shrinks(mem, mem')
  BY <1>1, <1>2, <1>3, DropShrinks
<1>5. PICK V : Shows(slots', mem', V)
  BY DEF Right
<1>6. \A z \in Vars : slots'[z] # Free => Twins(mem, slots'[z].v, mem', slots'[z].v)
  BY <1>4, <1>5, VarsShrunk
<1>7. Apart(slots, mem, slots', mem', x)
  BY <1>1, <1>2, <1>6 DEF Apart
<1>8. Becomes(slots, mem, slots', mem', x)
  BY <1>7, ValsPut
<1>9. Vals(slots', mem')[x] = NoValue
  BY <1>1, <1>2 DEF Vals
<1> QED BY <1>1, <1>8, <1>9 DEF Becomes, Into

\* A variable declared with an element of an array.
LEMMA ReadInto ==
  ASSUME RegsOK, Right(slots, mem), ~mem.stuck, NEW x \in Vars, NEW i, NEW y \in Vars, Read(x, i, y)
  PROVE  /\ Vals(slots, mem)[x] = <<"arr", Els(mem, slots[x].v.i)>> /\ i \in DOMAIN Els(mem, slots[x].v.i)
         /\ Into(y, Els(mem, slots[x].v.i)[i])
<1>1. /\ HasArray(x) /\ slots[y] = Free /\ i \in DOMAIN Data(x)
      /\ Place(y, ElementType(x), copyValue(Data(x)[i], ElementType(x), mem))
  BY DEF Read
<1>2. PICK r : r = copyValue(Data(x)[i], ElementType(x), mem)
  OBVIOUS
<1>3. /\ ~r.m.full /\ mem' = r.m
      /\ slots' = [slots EXCEPT ![y] = [ty |-> ElementType(x), v |-> r.v]]
  BY <1>1, <1>2, PlaceIs
<1>4. PICK W : Shows(slots, mem, W)
  BY DEF Right
<1>5. PICK p, O : p = <<x, 0>> /\ O = {}
  OBVIOUS
<1>6. Sound(mem, O, W) /\ W[p] = slots[x] /\ p \in Places
  BY <1>4, <1>5, ShownIs, OpenIs
<1>7. PICK a : a = slots[x].v.i
  OBVIOUS
<1>8. a \in Ids /\ mem.heap[a].k = "array" /\ IsRef(slots[x].v) /\ slots[x] # Free
  <2>1. HasIt(mem, x, a)
    BY <1>1, <1>5, <1>6, <1>7, ArrayHeld
  <2>2. a \in Ids /\ mem.heap[a].k = "array" /\ IsRef(slots[x].v)
    BY <2>1 DEF HasIt
  <2> QED BY <2>2, FreeIs
<1>9. Vals(slots, mem)[x] = <<"arr", Els(mem, a)>>
  <2>1. TreeAt(mem, W[p].v) = <<"arr", Els(mem, a)>>
    BY <1>6, <1>7, <1>8, TreeAtIs
  <2> QED BY <1>6, <1>8, <2>1 DEF Vals
<1>10. Data(x) = mem.heap[a].data /\ ElementType(x) = mem.heap[a].el
  BY <1>7 DEF Data, ElementType, Array
<1>11. ElementIn(mem, W, a, i)
  <2>1. At(W, a) # {}
    BY <1>6, <1>7, <1>8 DEF At
  <2> QED BY <1>1, <1>6, <1>8, <1>10, <2>1, ElementAt
<1>12. PICK q : q = <<a, i>>
  OBVIOUS
<1>13. q \in Places /\ W[q] # Free /\ W[q].ty = ElementType(x) /\ W[q].v = Data(x)[i]
  BY <1>10, <1>11, <1>12 DEF ElementIn
<1>14. Into(y, TreeAt(mem, W[q].v))
  BY <1>1, <1>2, <1>3, <1>4, <1>13, CopiedInto
<1>15. i \in DOMAIN Els(mem, a) /\ Els(mem, a)[i] = TreeAt(mem, W[q].v)
  BY <1>1, <1>10, <1>13 DEF Els
<1> QED BY <1>7, <1>9, <1>14, <1>15

LEMMA ArrayChanged ==
  ASSUME NEW s, NEW m1, NEW W, Shows(s, m1, W), NEW x \in Vars, NEW a \in Ids, IsRef(s[x].v), s[x].v.i = a,
         m1.heap[a].k = "array", NEW m, Besides(m, m1, a)
  PROVE  Around(s, x, m, m1, a)
<1>1. PICK p, O, P : p = <<x, 0>> /\ O = {} /\ P = Places \ {p}
  OBVIOUS
<1>2. Sound(m1, O, W) /\ W[p] = s[x] /\ p \in Places /\ P \in SUBSET Places
  BY <1>1, OpenIs DEF Shows
<1>3. At(W, a) # {} /\ m1.heap[a].rc = 1
  <2>1. At(W, a) # {}
    BY <1>2 DEF At
  <2>2. Keeps(m1, O, W, a)
    BY <1>2, SoundIs
  <2> QED BY <2>1, <2>2 DEF Keeps
<1>4. At(W, a) = {p}
  BY <1>2, <1>3, OnlyPlace
<1>5. Unchanged(m1, m, W, P)
  <2>1. ASSUME NEW q \in P, IsRef(W[q].v)
        PROVE  /\ Alike(m1.heap[W[q].v.i], m.heap[W[q].v.i])
               /\ \A i \in 1 .. Big : <<W[q].v.i, i>> \in P
    <3>1. PICK id : id = W[q].v.i
      OBVIOUS
    <3>2. Fits(W[q], m1) /\ W[q].v.tag \in RefTags /\ id \in Ids
      BY <1>2, <2>1, <3>1, RefIs, SoundIs
    <3>3. id # a
      BY <1>1, <1>2, <1>4, <2>1, <3>1 DEF At
    <3>4. m1.heap[id].k # "free"
      BY <2>1, <3>1, <3>2 DEF Fits, RefTags
    <3>5. Alike(m1.heap[id], m.heap[id])
      BY <3>2, <3>3, <3>4 DEF Besides, Alike
    <3>6. \A i \in 1 .. Big : <<id, i>> \in P
      BY <1>1, <3>2, PlacesAre
    <3> QED BY <3>1, <3>5, <3>6
  <2> QED BY <2>1 DEF Unchanged
<1>6. ASSUME NEW q \in P, W[q] # Free PROVE Twins(m, W[q].v, m1, W[q].v)
  <2>1. \A n \in Nat : TreesIn(m)[n][W[q].v] = TreesIn(m1)[n][W[q].v]
    BY <1>2, <1>5, <1>6, SameTrees
  <2> QED BY <2>1 DEF Twins
<1>7. ASSUME NEW z \in Vars, z # x, s[z] # Free PROVE Twins(m, s[z].v, m1, s[z].v)
  <2>1. PICK q : q = <<z, 0>>
    OBVIOUS
  <2>2. q \in P /\ W[q] = s[z]
    BY <1>1, <1>7, <2>1, OpenIs DEF Shows
  <2> QED BY <1>6, <1>7, <2>2
<1>8. ASSUME NEW j \in DOMAIN m1.heap[a].data PROVE Twins(m, m1.heap[a].data[j], m1, m1.heap[a].data[j])
  <2>1. ElementIn(m1, W, a, j)
    BY <1>2, <1>3, ElementAt
  <2>2. PICK q : q = <<a, j>>
    OBVIOUS
  <2>3. q \in Places /\ W[q] # Free /\ W[q].v = m1.heap[a].data[j] /\ j # 0
    BY <2>1, <2>2, PlacesAre DEF ElementIn
  <2>4. q \in P
    BY <1>1, <2>2, <2>3
  <2> QED BY <1>6, <2>3, <2>4
<1> QED BY <1>7, <1>8 DEF Around

\* It has the array before and after.
LEMMA HasBoth ==
  ASSUME NEW s, NEW m, NEW W, Shows(s, m, W), s = slots, NEW x \in Vars, HasArray(x), NEW a, a = slots[x].v.i
  PROVE  a \in Ids /\ m.heap[a].k = "array" /\ IsRef(slots[x].v) /\ slots[x] # Free /\ Vals(s, m)[x] = <<"arr", Els(m, a)>>
<1>1. PICK p, O : p = <<x, 0>> /\ O = {}
  OBVIOUS
<1>2. Sound(m, O, W) /\ W[p] = slots[x] /\ p \in Places
  BY <1>1, OpenIs DEF Shows
<1>3. HasIt(m, x, a)
  BY <1>1, <1>2, ArrayHeld
<1>4. a \in Ids /\ m.heap[a].k = "array" /\ IsRef(slots[x].v)
  BY <1>3 DEF HasIt
<1>5. slots[x] # Free
  BY <1>4, FreeIs
<1>6. TreeAt(m, W[p].v) = <<"arr", Els(m, a)>>
  BY <1>2, <1>4, <1>5, TreeAtIs
<1> QED BY <1>2, <1>4, <1>5, <1>6 DEF Vals

LEMMA MethodKeeps ==
  ASSUME Right(slots, mem), Right(slots', mem'), slots' = slots, NEW x \in Vars, HasArray(x), NEW a, a = slots[x].v.i,
         NEW m, Keeping(mem, m), Besides(m, mem', a)
  PROVE  Rewrites(x, a, m)
<1>1. PICK W : Shows(slots, mem, W)
  BY DEF Right
<1>2. PICK W1 : Shows(slots', mem', W1)
  BY DEF Right
<1>3. /\ a \in Ids /\ mem.heap[a].k = "array" /\ IsRef(slots[x].v) /\ slots[x] # Free
      /\ Vals(slots, mem)[x] = <<"arr", Els(mem, a)>>
  BY <1>1, HasBoth
<1>4. mem'.heap[a].k = "array" /\ Vals(slots', mem')[x] = <<"arr", Els(mem', a)>>
  BY <1>2, HasBoth
<1>5. Around(slots', x, m, mem', a)
  BY <1>2, <1>3, <1>4, ArrayChanged
<1>6. Apart(slots, mem, slots', mem', x)
  <2>1. ASSUME NEW z \in Vars, z # x, slots[z] # Free PROVE Twins(mem, slots[z].v, mem', slots[z].v)
    <3>1. Twins(mem, slots[z].v, m, slots[z].v)
      BY <1>1, <2>1, VarsKept
    <3>2. Twins(m, slots[z].v, mem', slots[z].v)
      BY <1>5, <2>1 DEF Around
    <3> QED BY <3>1, <3>2, TwinsAre
  <2> QED BY <2>1 DEF Apart
<1>7. Into(x, <<"arr", Els(mem', a)>>)
  <2>1. Becomes(slots, mem, slots', mem', x)
    BY <1>6, ValsPut
  <2> QED BY <1>4, <2>1 DEF Becomes, Into
<1>8. ASSUME NEW j \in DOMAIN mem.heap[a].data PROVE TreeAt(m, mem.heap[a].data[j]) = TreeAt(mem, mem.heap[a].data[j])
  <2>1. PICK p, q, O : p = <<x, 0>> /\ q = <<a, j>> /\ O = {}
    OBVIOUS
  <2>2. Sound(mem, O, W) /\ W[p] = slots[x] /\ p \in Places
    BY <1>1, <2>1, OpenIs DEF Shows
  <2>3. At(W, a) # {}
    BY <1>3, <2>2 DEF At
  <2>4. ElementIn(mem, W, a, j)
    BY <1>3, <2>2, <2>3, ElementAt
  <2>5. q \in Places /\ W[q] # Free /\ W[q].v = mem.heap[a].data[j]
    BY <2>1, <2>4 DEF ElementIn
  <2>6. PICK v : v = W[q].v
    OBVIOUS
  <2>7. Twins(mem, v, m, v)
    BY <2>2, <2>5, <2>6, KeepsTwin
  <2>8. TreeAt(m, v) = TreeAt(mem, v)
    BY <2>7, SameTree
  <2> QED BY <2>5, <2>6, <2>8
<1>9. \A j \in DOMAIN mem'.heap[a].data : TreeAt(mem', mem'.heap[a].data[j]) = TreeAt(m, mem'.heap[a].data[j])
  BY <1>5, SameTree DEF Around
<1> QED BY <1>3, <1>4, <1>7, <1>8, <1>9 DEF Rewrites

LEMMA DataReplaced ==
  ASSUME NEW md \in Memories, NEW a \in Ids, NEW vs, NEW m1, m1 = [md EXCEPT !.heap[a].data = vs], m1.heap[a].k = "array"
  PROVE  Replaced(md, m1, a, vs)
<1>1. md.heap \in [Ids -> Objects] /\ md.heap[a] \in Objects
  BY MemoryIs
<1>2. m1.heap = [md.heap EXCEPT ![a].data = vs]
  BY DEF Memories
<1>3. PICK o : o = md.heap[a]
  OBVIOUS
<1>4. m1.heap[a] = [o EXCEPT !.data = vs]
  BY <1>1, <1>2, <1>3
<1>5. o.k = "array"
  BY <1>1, <1>3, <1>4 DEF Objects, NoObject, Strings, Arrays, Handles
<1>6. m1.heap[a].data = vs
  BY <1>1, <1>3, <1>4, <1>5, ArrayIn DEF Arrays
<1> QED BY <1>1, <1>2, <1>3, <1>5, <1>6 DEF Aside, Replaced

LEMMA ClearInto ==
  ASSUME RegsOK, Right(slots, mem), Right(slots', mem'), NEW x \in Vars, Clear(x)
  PROVE  Same \/ \E a : HoldsArray(x, a) /\ Into(x, <<"arr", << >> >>)
<1>1. PICK a, o : a = slots[x].v.i /\ o = mem.heap[a]
  OBVIOUS
<1>2. HasArray(x) /\ slots' = slots /\ mem' = arrayClear(a, mem)
  BY <1>1, ChangeIs DEF Clear
<1>3. CASE o.fixed
  <2>1. mem' = mem
    BY <1>1, <1>2, <1>3 DEF arrayClear
  <2> QED BY <1>2, <2>1 DEF Same
<1>4. CASE ~o.fixed
  <2>1. PICK W : Shows(slots, mem, W)
    BY DEF Right
  <2>2. PICK W1 : Shows(slots', mem', W1)
    BY DEF Right
  <2>3. a \in Ids /\ o.k = "array" /\ mem'.heap[a].k = "array"
    BY <1>1, <1>2, <2>1, <2>2, HasBoth
  <2>4. mem \in Memories
    BY <2>1 DEF Shows, Sound
  <2>5. o.data \in Seq(Values) /\ o.el \in AllTypes
    BY <1>1, <2>3, <2>4, ArrayIn
  <2>6. PICK md : md = DropAll(dropping[MaxNesting + 1], o.data, o.el, mem)
    OBVIOUS
  <2>7. md \in Memories /\ Shrinks(mem, md)
    BY <2>4, <2>5, <2>6, DropValueOk, DropAllTyped
  <2>8. PICK vs : vs = << >>
    OBVIOUS
  <2>9. mem' = [md EXCEPT !.heap[a].data = vs]
    BY <1>1, <1>2, <1>4, <2>6, <2>8 DEF arrayClear
  <2>10. Replaced(md, mem', a, vs)
    BY <2>3, <2>7, <2>9, DataReplaced
  <2>11. Besides(mem, mem', a)
    BY <2>7, <2>10 DEF Replaced, Besides, Aside, Shrinks
  <2>12. Rewrites(x, a, mem)
    BY <1>1, <1>2, <2>11, KeepingIs, MethodKeeps
  <2>13. Els(mem', a) = << >>
    BY <2>8, <2>10 DEF Replaced, Els
  <2> QED BY <2>12, <2>13 DEF Rewrites, HoldsArray
<1> QED BY <1>3, <1>4

\* A sequence without an element, as ValueStore has it.
LEMMA Shortened ==
  ASSUME NEW S, NEW e \in Seq(S), NEW i \in 1 .. Len(e), NEW f, f = [j \in DOMAIN f |-> f[j]], WithoutIt(e, i, f, Len(e))
  PROVE  f = SubSeq(e, 1, i - 1) \o SubSeq(e, i + 1, Len(e))
<1>1. PICK n : n = Len(e)
  OBVIOUS
<1>2. n \in Nat /\ i \in Nat /\ 1 <= i /\ i <= n /\ DOMAIN e = 1 .. n /\ \A j \in 1 .. n : e[j] \in S
  BY <1>1, SeqFacts
<1>3. PICK c, d : c = SubSeq(e, 1, i - 1) /\ d = SubSeq(e, i + 1, n)
  OBVIOUS
<1>4. c \in Seq(S) /\ Len(c) = i - 1 /\ \A j \in 1 .. i - 1 : c[j] = e[j]
  <2>1. c = [j \in 1 .. i - 1 |-> e[j]]
    BY <1>2, <1>3
  <2>2. i - 1 \in Nat /\ \A j \in 1 .. i - 1 : e[j] \in S
    BY <1>2
  <2> QED BY <2>1, <2>2, IsSeq
<1>5. d \in Seq(S) /\ Len(d) = n - i /\ \A j \in 1 .. n - i : d[j] = e[j + i]
  <2>1. d = [j \in 1 .. n - i |-> e[j + i]]
    BY <1>2, <1>3
  <2>2. n - i \in Nat /\ \A j \in 1 .. n - i : e[j + i] \in S
    BY <1>2
  <2> QED BY <2>1, <2>2, IsSeq
<1>6. PICK g : g = c \o d
  OBVIOUS
<1>7. /\ g \in Seq(S) /\ Len(g) = n - 1
      /\ \A j \in 1 .. n - 1 : g[j] = IF j <= i - 1 THEN c[j] ELSE d[j - (i - 1)]
  <2>1. /\ c \o d \in Seq(S) /\ Len(c \o d) = Len(c) + Len(d)
        /\ \A j \in 1 .. Len(c) + Len(d) : (c \o d)[j] = IF j <= Len(c) THEN c[j] ELSE d[j - Len(c)]
    BY <1>4, <1>5, ConcatProperties
  <2>2. Len(c) + Len(d) = n - 1
    BY <1>2, <1>4, <1>5
  <2> QED BY <1>4, <1>6, <2>1, <2>2
<1>8. DOMAIN f = 1 .. n - 1 /\ \A j \in 1 .. n - 1 : f[j] = IF j < i THEN e[j] ELSE e[j + 1]
  BY <1>1 DEF WithoutIt
<1>9. ASSUME NEW j \in 1 .. n - 1 PROVE g[j] = f[j]
  <2>1. CASE j < i
    <3>1. j <= i - 1 /\ j \in 1 .. i - 1
      BY <1>2, <2>1
    <3>2. g[j] = e[j]
      BY <1>4, <1>7, <3>1
    <3>3. f[j] = e[j]
      BY <1>8, <2>1
    <3> QED BY <3>2, <3>3
  <2>2. CASE ~(j < i)
    <3>1. PICK k : k = j - (i - 1)
      OBVIOUS
    <3>2. k \in 1 .. n - i /\ k + i = j + 1 /\ ~(j <= i - 1)
      BY <1>2, <2>2, <3>1
    <3>3. g[j] = d[k]
      BY <1>7, <3>1, <3>2
    <3>4. d[k] = e[j + 1]
      BY <1>5, <3>2
    <3>5. f[j] = e[j + 1]
      BY <1>8, <2>2
    <3> QED BY <3>3, <3>4, <3>5
  <2> QED BY <2>1, <2>2
<1>10. DOMAIN g = 1 .. n - 1 /\ g = [j \in DOMAIN g |-> g[j]]
  BY <1>7
<1> QED BY <1>1, <1>3, <1>6, <1>8, <1>9, <1>10

\* The trees of an array's elements are a sequence.
LEMMA ElsIs ==
  ASSUME NEW m, NEW a, m.heap[a].data \in Seq(Values)
  PROVE  \E S : /\ Els(m, a) \in Seq(S) /\ Len(Els(m, a)) = Len(m.heap[a].data)
                /\ DOMAIN Els(m, a) = 1 .. Len(m.heap[a].data)
                /\ \A j \in 1 .. Len(m.heap[a].data) : Els(m, a)[j] = TreeAt(m, m.heap[a].data[j])
<1>1. PICK n, f : n = Len(m.heap[a].data) /\ f = Els(m, a)
  OBVIOUS
<1>2. n \in Nat /\ DOMAIN m.heap[a].data = 1 .. n
  BY <1>1, SeqFacts
<1>3. f = [j \in 1 .. n |-> TreeAt(m, m.heap[a].data[j])]
  BY <1>1, <1>2 DEF Els
<1>4. PICK S : S = {f[j] : j \in 1 .. n}
  OBVIOUS
<1>5. f \in [1 .. n -> S]
  BY <1>3, <1>4
<1>6. f \in Seq(S) /\ Len(f) = n
  BY <1>2, <1>5, IsSeq
<1> QED BY <1>1, <1>3, <1>6

\* An element is removed.
LEMMA RemoveInto ==
  ASSUME RegsOK, Right(slots, mem), Right(slots', mem'), NEW x \in Vars, NEW i, RemoveElement(x, i)
  PROVE  \/ Same
         \/ \E a : /\ HoldsArray(x, a) /\ i \in DOMAIN Els(mem, a)
                   /\ Into(x, <<"arr", SubSeq(Els(mem, a), 1, i - 1) \o SubSeq(Els(mem, a), i + 1, Len(Els(mem, a)))>>)
<1>1. PICK a, o : a = slots[x].v.i /\ o = mem.heap[a]
  OBVIOUS
<1>2. HasArray(x) /\ slots' = slots /\ mem' = arrayRemove(a, i, mem) /\ i \in DOMAIN o.data
  BY <1>1, ChangeIs DEF RemoveElement, Data, Array
<1>3. CASE o.fixed
  <2>1. mem' = mem
    BY <1>1, <1>2, <1>3 DEF arrayRemove
  <2> QED BY <1>2, <2>1 DEF Same
<1>4. CASE ~o.fixed
  <2>1. PICK W : Shows(slots, mem, W)
    BY DEF Right
  <2>2. PICK W1 : Shows(slots', mem', W1)
    BY DEF Right
  <2>3. a \in Ids /\ o.k = "array" /\ mem'.heap[a].k = "array"
    BY <1>1, <1>2, <2>1, <2>2, HasBoth
  <2>4. mem \in Memories
    BY <2>1 DEF Shows, Sound
  <2>5. o.data \in Seq(Values) /\ o.el \in AllTypes
    BY <1>1, <2>3, <2>4, ArrayIn
  <2>6. PICK n : n = Len(o.data)
    OBVIOUS
  <2>7. DOMAIN o.data = 1 .. n /\ i \in 1 .. n /\ n \in Nat /\ o.data[i] \in Values
    BY <1>2, <2>5, <2>6, SeqFacts
  <2>8. PICK md : md = dropValue(o.data[i], o.el, mem)
    OBVIOUS
  <2>9. md \in Memories /\ Shrinks(mem, md)
    BY <2>4, <2>5, <2>7, <2>8, DropShrinks
  <2>10. PICK vs : vs = Without(md.heap[a].data, i)
    OBVIOUS
  <2>11. mem' = [md EXCEPT !.heap[a].data = vs]
    BY <1>1, <1>2, <1>4, <2>8, <2>10 DEF arrayRemove
  <2>12. Replaced(md, mem', a, vs)
    BY <2>3, <2>9, <2>11, DataReplaced
  <2>13. md.heap[a].data = o.data
    BY <1>1, <2>3, <2>9, <2>12 DEF Replaced, Shrinks, Alike
  <2>14. Besides(mem, mem', a)
    BY <2>9, <2>12 DEF Replaced, Besides, Aside, Shrinks
  <2>15. Rewrites(x, a, mem)
    BY <1>1, <1>2, <2>14, KeepingIs, MethodKeeps
  <2>16. WithoutIt(o.data, i, vs, n)
    BY <2>5, <2>6, <2>7, <2>10, <2>13, WithoutIs
  <2>17. PICK e, f : e = Els(mem, a) /\ f = Els(mem', a)
    OBVIOUS
  <2>18. PICK S : /\ e \in Seq(S) /\ Len(e) = n /\ DOMAIN e = 1 .. n
                  /\ \A j \in 1 .. n : e[j] = TreeAt(mem, o.data[j])
    BY <1>1, <2>5, <2>6, <2>17, ElsIs
  <2>19. mem'.heap[a].data = vs
    BY <2>12 DEF Replaced
  <2>20. f = [j \in 1 .. n - 1 |-> TreeAt(mem', vs[j])]
    BY <2>16, <2>17, <2>19 DEF Els, WithoutIt
  <2>21. ASSUME NEW j \in 1 .. n - 1 PROVE f[j] = IF j < i THEN e[j] ELSE e[j + 1]
    <3>1. TreeAt(mem', vs[j]) = TreeAt(mem, vs[j])
      BY <2>15, <2>16, <2>19, <2>21 DEF Rewrites, WithoutIt
    <3>2. vs[j] = IF j < i THEN o.data[j] ELSE o.data[j + 1]
      BY <2>16, <2>21 DEF WithoutIt
    <3>3. j \in 1 .. n /\ j + 1 \in 1 .. n
      BY <2>7, <2>21
    <3> QED BY <2>18, <2>20, <2>21, <3>1, <3>2, <3>3
  <2>22. WithoutIt(e, i, f, Len(e))
    <3>1. n - 1 \in Nat
      BY <2>7
    <3>2. PICK S1 : S1 = {f[j] : j \in 1 .. n - 1}
      OBVIOUS
    <3>3. f \in [1 .. n - 1 -> S1]
      BY <2>20, <3>2
    <3>4. Len(f) = n - 1
      BY <3>1, <3>3, IsSeq
    <3> QED BY <2>18, <2>20, <2>21, <3>4 DEF WithoutIt
  <2>23. f = SubSeq(e, 1, i - 1) \o SubSeq(e, i + 1, Len(e))
    <3>1. f = [j \in DOMAIN f |-> f[j]]
      BY <2>20
    <3> QED BY <2>7, <2>18, <2>22, <3>1, Shortened
  <2>24. i \in DOMAIN e
    BY <2>7, <2>18
  <2> QED BY <2>15, <2>17, <2>23, <2>24 DEF Rewrites, HoldsArray
<1> QED BY <1>3, <1>4

\* A variable's copy before an array takes it.
LEMMA CopyShows ==
  ASSUME RegsOK, Right(slots, mem), ~mem.stuck, NEW y \in Vars, slots[y] # Free, NEW r, r = CopyOf(y)
  PROVE  /\ r.v \in Values /\ r.m \in Memories /\ Keeping(mem, r.m) /\ Vals(slots, mem)[y] # NoValue
         /\ ~r.m.full => TreeAt(r.m, r.v) = Vals(slots, mem)[y]
<1>1. PICK W : Shows(slots, mem, W)
  BY DEF Right
<1>2. PICK p : p = <<y, 0>>
  OBVIOUS
<1>3. /\ Sound(mem, {}, W) /\ W[p] = slots[y] /\ p \in Places /\ Hand \in Open({}) /\ W[Hand] = Free
  <2>1. \A j \in 1 .. Big : W[<<0, j>>] = Free
    BY <1>1, ShownIs
  <2>2. W[Hand] = Free
    BY <2>1, OpenIs DEF Hand
  <2> QED BY <1>1, <1>2, <2>2, ShownIs, OpenIs
<1>4. r = copyValue(W[p].v, W[p].ty, mem)
  BY <1>3 DEF CopyOf
<1>5. r \in VMs /\ Keeping(mem, r.m)
  <2>1. mem \in Memories /\ W \in [Places -> Contents]
    BY <1>3, SoundIs
  <2>2. W[p].v \in Values /\ W[p].ty \in AllTypes
    BY <1>3, <2>1, ContentIs
  <2> QED BY <1>4, <2>1, <2>2, CopyKeeps
<1>6. r.v \in Values /\ r.m \in Memories
  BY <1>5, VMIs
<1>7. Vals(slots, mem)[y] # NoValue /\ Vals(slots, mem)[y] = TreeAt(mem, slots[y].v)
  <2>1. TreeAt(mem, W[p].v) # NoValue
    <3>1. PICK O : O = {}
      OBVIOUS
    <3> QED BY <1>3, <3>1, TreeAtIs
  <2> QED BY <1>3, <2>1 DEF Vals
<1>8. ASSUME ~r.m.full PROVE TreeAt(r.m, r.v) = Vals(slots, mem)[y]
  <2>1. \E V : CopiedTo(mem, {}, W, p, Hand, r, V)
    BY <1>3, <1>4, <1>8, CopyIs
  <2>2. Twins(mem, slots[y].v, r.m, r.v)
    BY <1>3, <2>1 DEF CopiedTo
  <2>3. TreeAt(r.m, r.v) = TreeAt(mem, slots[y].v)
    BY <2>2, SameTree
  <2> QED BY <1>7, <2>3
<1> QED BY <1>5, <1>6, <1>7, <1>8

\* An element is set.
LEMMA SetInto ==
  ASSUME RegsOK, Right(slots, mem), ~mem.stuck, Right(slots', mem'), NEW x \in Vars, NEW i, NEW y \in Vars, Set(x, i, y)
  PROVE  \E a : /\ HoldsArray(x, a) /\ i \in DOMAIN Els(mem, a) /\ Vals(slots, mem)[y] # NoValue
                /\ Into(x, <<"arr", [Els(mem, a) EXCEPT ![i] = Vals(slots, mem)[y]]>>)
<1>1. PICK r, a, o : r = CopyOf(y) /\ a = slots[x].v.i /\ o = mem.heap[a]
  OBVIOUS
<1>2. PICK m1 : m1 = arraySet(a, i, r.v, r.m)
  OBVIOUS
<1>3. HasArray(x) /\ slots[y] # Free /\ i \in DOMAIN o.data /\ Change(x, m1)
  BY <1>1, <1>2 DEF Set, Takes, Data, Array
<1>4. mem' = m1 /\ slots' = slots /\ ~m1.full
  BY <1>3, ChangeIs
<1>5. PICK W : Shows(slots, mem, W)
  BY DEF Right
<1>6. PICK W1 : Shows(slots', mem', W1)
  BY DEF Right
<1>7. a \in Ids /\ o.k = "array" /\ mem'.heap[a].k = "array"
  BY <1>1, <1>3, <1>4, <1>5, <1>6, HasBoth
<1>8. r.v \in Values /\ r.m \in Memories /\ Keeping(mem, r.m) /\ Vals(slots, mem)[y] # NoValue
  BY <1>1, <1>3, CopyShows
<1>9. r.m.heap[a] = o
  BY <1>1, <1>7, <1>8 DEF Keeping
<1>10. o.data \in Seq(Values) /\ o.el \in AllTypes
  BY <1>7, <1>8, <1>9, ArrayIn
<1>11. PICK n : n = Len(o.data)
  OBVIOUS
<1>12. DOMAIN o.data = 1 .. n /\ n \in Nat /\ o.data[i] \in Values
  BY <1>3, <1>10, <1>11, SeqFacts
<1>13. PICK md : md = dropValue(o.data[i], o.el, r.m)
  OBVIOUS
<1>14. md \in Memories /\ md.full = r.m.full /\ Shrinks(r.m, md)
  BY <1>8, <1>10, <1>12, <1>13, DropShrinks
<1>15. PICK vs : vs = [md.heap[a].data EXCEPT ![i] = r.v]
  OBVIOUS
<1>16. m1 = [md EXCEPT !.heap[a].data = vs]
  <2>1. m1 = [md EXCEPT !.heap[a].data[i] = r.v]
    BY <1>2, <1>9, <1>13 DEF arraySet
  <2>2. md.heap \in [Ids -> Objects]
    BY <1>14, MemoryIs
  <2> QED BY <1>7, <1>15, <2>1, <2>2
<1>17. Replaced(md, mem', a, vs)
  BY <1>4, <1>7, <1>14, <1>16, DataReplaced
<1>18. md.heap[a].data = o.data
  BY <1>7, <1>9, <1>14, <1>17 DEF Replaced, Shrinks, Alike
<1>19. ~r.m.full
  BY <1>4, <1>14, <1>16 DEF Memories
<1>20. Besides(r.m, mem', a)
  BY <1>14, <1>17 DEF Replaced, Besides, Aside, Shrinks
<1>21. Rewrites(x, a, r.m)
  BY <1>1, <1>3, <1>4, <1>8, <1>20, MethodKeeps
<1>22. PICK e, f, c : e = Els(mem, a) /\ f = Els(mem', a) /\ c = Vals(slots, mem)[y]
  OBVIOUS
<1>23. e = [j \in 1 .. n |-> TreeAt(mem, o.data[j])]
  BY <1>1, <1>12, <1>22 DEF Els
<1>24. DOMAIN vs = 1 .. n /\ mem'.heap[a].data = vs /\ vs[i] = r.v /\ \A j \in 1 .. n : j # i => vs[j] = o.data[j]
  BY <1>3, <1>12, <1>15, <1>17, <1>18 DEF Replaced
<1>25. f = [j \in 1 .. n |-> TreeAt(mem', vs[j])]
  BY <1>22, <1>24 DEF Els
<1>26. ASSUME NEW j \in 1 .. n PROVE f[j] = IF j = i THEN c ELSE e[j]
  <2>1. TreeAt(mem', vs[j]) = TreeAt(r.m, vs[j])
    BY <1>21, <1>24, <1>26 DEF Rewrites
  <2>2. CASE j = i
    <3>1. TreeAt(r.m, r.v) = c
      BY <1>1, <1>3, <1>19, <1>22, CopyShows
    <3> QED BY <1>24, <1>25, <1>26, <2>1, <2>2, <3>1
  <2>3. CASE j # i
    <3>1. TreeAt(r.m, o.data[j]) = TreeAt(mem, o.data[j])
      BY <1>1, <1>12, <1>21, <1>26 DEF Rewrites
    <3> QED BY <1>23, <1>24, <1>25, <1>26, <2>1, <2>3, <3>1
  <2> QED BY <2>2, <2>3
<1>27. f = [e EXCEPT ![i] = c]
  BY <1>23, <1>25, <1>26
<1>28. i \in DOMAIN e
  BY <1>3, <1>12, <1>23
<1> QED BY <1>8, <1>21, <1>22, <1>27, <1>28 DEF Rewrites, HoldsArray

LEMMA Ensured ==
  ASSUME NEW m \in Memories, NEW a \in Ids, m.heap[a] \in Arrays, m.heap[a].cap \in Capacities, NEW min \in Nat,
         NEW g, g = ensureCapacity(a, min, m)
  PROVE  Grew(m, g, a)
<1>1. PICK o : o = m.heap[a]
  OBVIOUS
<1>2. \/ g = m
      \/ g = [m EXCEPT !.stuck = TRUE]
      \/ \E c \in Caps : g = Put(m, a, [o EXCEPT !.cap = c]) /\ [o EXCEPT !.cap = c] \in Arrays
  <2>1. LET oo == m.heap[a]
            r == ensureCapacity(a, min, m)
        IN  \/ oo.cap >= min /\ r = m
            \/ /\ oo.cap < min /\ r = [m EXCEPT !.stuck = TRUE]
               /\ 2 * min > CapMod
               /\ oo.cap # 0 => Doubled(oo.cap, min) = 0
            \/ \E c \in Caps : /\ oo.cap < min /\ c >= min /\ r = Put(m, a, [oo EXCEPT !.cap = c])
                               /\ [oo EXCEPT !.cap = c] \in Arrays
    BY EnsureIs
  <2> QED BY <1>1, <2>1
<1>3. o.k = "array" /\ o.data \in Seq(Values)
  BY <1>1, KindsAre
<1>4. CASE g = m
  BY <1>1, <1>3, <1>4 DEF Grew, Aside
<1>5. CASE g = [m EXCEPT !.stuck = TRUE]
  <2>1. g \in Memories /\ g.full = m.full /\ g.heap = m.heap
    BY <1>5 DEF Memories
  <2> QED BY <1>1, <1>3, <2>1 DEF Grew, Aside
<1>6. ASSUME NEW c \in Caps, NEW b, b = [o EXCEPT !.cap = c], g = Put(m, a, b), b \in Arrays PROVE Grew(m, g, a)
  <2>1. b \in Objects /\ b.k = "array" /\ b.data = o.data
    BY <1>1, <1>6, KindsAre DEF Arrays
  <2>2. IsPut(g, m, a, b)
    BY <1>6, <2>1, PutFacts
  <2> QED BY <1>1, <2>1, <2>2 DEF IsPut, Grew, Aside
<1> QED BY <1>2, <1>4, <1>5, <1>6

\* An element is added.
LEMMA AddInto ==
  ASSUME RegsOK, Right(slots, mem), ~mem.stuck, Right(slots', mem'), NEW x \in Vars, NEW y \in Vars, Add(x, y)
  PROVE  \/ Same
         \/ \E a : /\ HoldsArray(x, a) /\ Vals(slots, mem)[y] # NoValue
                   /\ Into(x, <<"arr", Append(Els(mem, a), Vals(slots, mem)[y])>>)
<1>1. PICK r, a, o : r = CopyOf(y) /\ a = slots[x].v.i /\ o = mem.heap[a]
  OBVIOUS
<1>2. PICK m1 : m1 = arrayAdd(a, r.v, r.m)
  OBVIOUS
<1>3. HasArray(x) /\ slots[y] # Free /\ ~o.fixed /\ Change(x, m1)
  BY <1>1, <1>2 DEF Add, Takes, Data, Array
<1>4. mem' = m1 /\ slots' = slots /\ ~m1.full
  BY <1>3, ChangeIs
<1>5. PICK W : Shows(slots, mem, W)
  BY DEF Right
<1>6. PICK W1 : Shows(slots', mem', W1)
  BY DEF Right
<1>7. a \in Ids /\ o.k = "array" /\ mem'.heap[a].k = "array"
  BY <1>1, <1>3, <1>4, <1>5, <1>6, HasBoth
<1>8. r.v \in Values /\ r.m \in Memories /\ Keeping(mem, r.m) /\ Vals(slots, mem)[y] # NoValue
  BY <1>1, <1>3, CopyShows
<1>9. r.m.heap[a] = o
  BY <1>1, <1>7, <1>8 DEF Keeping
<1>10. o \in Arrays /\ o.data \in Seq(Values) /\ o.cap \in Capacities
  <2>1. o \in Arrays /\ o.data \in Seq(Values)
    BY <1>7, <1>8, <1>9, ArrayIn
  <2>2. Sound(mem, {}, W)
    BY <1>5 DEF Shows
  <2>3. Sizes(o)
    BY <1>1, <1>7, <2>2 DEF Sound, Keeps
  <2> QED BY <1>3, <1>7, <2>1, <2>3 DEF Sizes
<1>11. PICK n : n = Len(o.data)
  OBVIOUS
<1>12. DOMAIN o.data = 1 .. n /\ n \in Nat /\ n + 1 \in Nat
  BY <1>10, <1>11, SeqFacts
<1>13. PICK g : g = ensureCapacity(a, n + 1, r.m)
  OBVIOUS
<1>14. Grew(r.m, g, a)
  BY <1>7, <1>8, <1>9, <1>10, <1>12, <1>13, Ensured
<1>15. g \in Memories /\ g.full = r.m.full /\ Aside(r.m, g, a) /\ g.heap[a].k = "array" /\ g.heap[a].data = o.data
  BY <1>9, <1>14 DEF Grew
<1>16. m1 = IF g.stuck THEN g ELSE [g EXCEPT !.heap[a].data = Append(g.heap[a].data, r.v)]
  <2>1. m1 = IF g.stuck THEN g ELSE [g EXCEPT !.heap[a].data = Append(@, r.v)]
    BY <1>2, <1>3, <1>9, <1>11, <1>13, Zenon DEF arrayAdd
  <2>2. [g EXCEPT !.heap[a].data = Append(@, r.v)] = [g EXCEPT !.heap[a].data = Append(g.heap[a].data, r.v)]
    OBVIOUS
  <2> QED BY <2>1, <2>2, Zenon
<1>17. PICK e, f, c : e = Els(mem, a) /\ f = Els(mem', a) /\ c = Vals(slots, mem)[y]
  OBVIOUS
<1>18. e = [j \in 1 .. n |-> TreeAt(mem, o.data[j])]
  BY <1>1, <1>12, <1>17 DEF Els
<1>19. CASE g.stuck
  <2>1. mem' = g
    BY <1>4, <1>16, <1>19
  <2>2. Besides(r.m, mem', a)
    BY <1>15, <2>1 DEF Besides, Aside, Alike
  <2>3. Rewrites(x, a, r.m)
    BY <1>1, <1>3, <1>4, <1>8, <2>2, MethodKeeps
  <2>4. \A j \in 1 .. n : TreeAt(mem', o.data[j]) = TreeAt(mem, o.data[j])
    BY <1>1, <1>12, <1>15, <2>1, <2>3 DEF Rewrites
  <2>5. f = [j \in 1 .. n |-> TreeAt(mem', o.data[j])]
    BY <1>12, <1>15, <1>17, <2>1 DEF Els
  <2>6. f = e
    BY <1>18, <2>4, <2>5
  <2>7. Same
    <3>1. PICK V, V1 : V = Vals(slots, mem) /\ V1 = Vals(slots', mem')
      OBVIOUS
    <3>2. V[x] = <<"arr", e>> /\ V1 = [V EXCEPT ![x] = <<"arr", f>>]
      BY <1>17, <2>3, <3>1 DEF Rewrites, Into
    <3>3. V = [z \in Vars |-> V[z]]
      BY <3>1 DEF Vals
    <3>4. V1 = V
      BY <2>6, <3>2, <3>3
    <3> QED BY <3>1, <3>4 DEF Same
  <2> QED BY <2>7
<1>20. CASE ~g.stuck
  <2>1. PICK vs : vs = Append(o.data, r.v)
    OBVIOUS
  <2>2. mem' = [g EXCEPT !.heap[a].data = vs]
    BY <1>4, <1>15, <1>16, <1>20, <2>1
  <2>3. Replaced(g, mem', a, vs)
    BY <1>7, <1>15, <2>2, DataReplaced
  <2>4. ~r.m.full
    BY <1>4, <1>15, <2>2 DEF Memories
  <2>5. Besides(r.m, mem', a)
    BY <1>15, <2>3 DEF Replaced, Besides, Aside, Alike
  <2>6. Rewrites(x, a, r.m)
    BY <1>1, <1>3, <1>4, <1>8, <2>5, MethodKeeps
  <2>7. /\ DOMAIN vs = 1 .. n + 1 /\ mem'.heap[a].data = vs /\ vs[n + 1] = r.v
        /\ \A j \in 1 .. n : vs[j] = o.data[j]
    <3>1. mem'.heap[a].data = vs
      BY <2>3 DEF Replaced
    <3>2. /\ vs \in Seq(Values) /\ Len(vs) = n + 1 /\ vs[n + 1] = r.v
          /\ \A j \in 1 .. n : vs[j] = o.data[j]
      BY <1>8, <1>10, <1>11, <2>1, Appended
    <3>3. DOMAIN vs = 1 .. n + 1
      BY <3>2, SeqFacts
    <3> QED BY <3>1, <3>2, <3>3
  <2>8. f = [j \in 1 .. n + 1 |-> TreeAt(mem', vs[j])]
    BY <1>17, <2>7 DEF Els
  <2>9. \A j \in 1 .. n : f[j] = e[j]
    <3> TAKE j \in 1 .. n
    <3>1. j \in 1 .. n + 1
      BY <1>12
    <3>2. TreeAt(mem', vs[j]) = TreeAt(r.m, vs[j])
      BY <2>6, <2>7, <3>1 DEF Rewrites
    <3>3. TreeAt(r.m, o.data[j]) = TreeAt(mem, o.data[j])
      BY <1>1, <1>12, <2>6 DEF Rewrites
    <3> QED BY <1>18, <2>7, <2>8, <3>1, <3>2, <3>3
  <2>10. f[n + 1] = c
    <3>1. n + 1 \in 1 .. n + 1
      BY <1>12
    <3>2. TreeAt(mem', vs[n + 1]) = TreeAt(r.m, vs[n + 1])
      BY <2>6, <2>7, <3>1 DEF Rewrites
    <3>3. TreeAt(r.m, r.v) = c
      BY <1>1, <1>3, <1>17, <2>4, CopyShows
    <3> QED BY <2>7, <2>8, <3>1, <3>2, <3>3
  <2>11. f = Append(e, c)
    <3>1. PICK S : S = {e[j] : j \in 1 .. n} \union {c}
      OBVIOUS
    <3>2. e \in [1 .. n -> S] /\ c \in S
      BY <1>18, <3>1
    <3>3. e \in Seq(S) /\ Len(e) = n
      BY <1>12, <3>2, IsSeq
    <3>4. PICK h : h = Append(e, c)
      OBVIOUS
    <3>5. h \in Seq(S) /\ Len(h) = n + 1 /\ h[n + 1] = c /\ \A j \in 1 .. n : h[j] = e[j]
      BY <3>2, <3>3, <3>4, Appended
    <3>6. DOMAIN h = 1 .. n + 1 /\ h = [j \in 1 .. n + 1 |-> h[j]]
      BY <3>5
    <3>7. \A j \in 1 .. n + 1 : j \in 1 .. n \/ j = n + 1
      BY <1>12
    <3>8. \A j \in 1 .. n + 1 : f[j] = h[j]
      BY <2>9, <2>10, <3>5, <3>7
    <3>9. f = [j \in 1 .. n + 1 |-> f[j]]
      BY <2>8
    <3> QED BY <3>4, <3>6, <3>8, <3>9
  <2> QED BY <1>8, <1>17, <2>6, <2>11 DEF Rewrites, HoldsArray
<1> QED BY <1>19, <1>20

-----------------------------------------------------------------------------
(* The steps are those of a store of values                                 *)

\* What the store has are the trees of the variables.
LEMMA SeenIs == Seen = Vals(slots, mem) /\ Seen' = Vals(slots', mem')
BY DEF Seen, Vals, NoValue, TreeAt, Tree

LEMMA HeldArray ==
  ASSUME NEW x, NEW els, Seen[x] = <<"arr", els>>
  PROVE  Store!IsArray(Seen[x]) /\ Seen[x][2] = els /\ Seen[x] # <<"free", 0>>
<1>1. Seen[x][1] = "arr" /\ Seen[x][2] = els /\ Seen[x] # <<"free", 0>>
  OBVIOUS
<1> QED BY <1>1 DEF Store!IsArray

\* A step of the store, by what becomes of the variable x.
LEMMA StoreStep ==
  ASSUME NEW x \in Vars, NEW w, Seen' = [Seen EXCEPT ![x] = w], Store!Becomes(Seen[x], w)
  PROVE  Store!Next
<1>1. Seen = [z \in Vars |-> Seen[z]]
  BY DEF Seen
<1>2. Seen'[x] = w
  BY <1>1
<1>3. Seen' = [Seen EXCEPT ![x] = Seen'[x]] /\ Store!Becomes(Seen[x], Seen'[x])
  BY <1>2
<1> QED BY <1>3 DEF Store!Next

\* The actions of the store.
LEMMA MakeMaps ==
  ASSUME NEW x \in Vars, Initializes(x)
  PROVE  Store!Next
<1>1. Seen[x] = <<"free", 0>> /\ \E c : Seen' = [Seen EXCEPT ![x] = c]
  BY SeenIs DEF Initializes, Into, NoValue
<1>2. PICK c : Seen' = [Seen EXCEPT ![x] = c]
  BY <1>1
<1>3. Store!Make(Seen[x])
  BY <1>1 DEF Store!Make
<1>4. Store!Becomes(Seen[x], c)
  BY <1>3 DEF Store!Becomes
<1> QED BY <1>2, <1>4, StoreStep

LEMMA CopyMaps ==
  ASSUME NEW x \in Vars, NEW y \in Vars, slots[x] # Free, Into(y, TreeAt(mem, slots[x].v)), Right(slots, mem)
  PROVE  Store!Next
<1>1. Seen[x] = TreeAt(mem, slots[x].v) /\ Seen' = [Seen EXCEPT ![y] = TreeAt(mem, slots[x].v)]
  BY SeenIs DEF Into, Vals
<1>2. TreeAt(mem, slots[x].v) # NoValue
  <2>1. PICK W : Shows(slots, mem, W)
    BY DEF Right
  <2>2. PICK p, O : p = <<x, 0>> /\ O = {}
    OBVIOUS
  <2>3. Sound(mem, O, W) /\ W[p] = slots[x] /\ p \in Places
    BY <2>1, <2>2, OpenIs DEF Shows
  <2> QED BY <2>3, TreeAtIs
<1>3. PICK w : w = Seen[x]
  OBVIOUS
<1>4. Store!Copy(Seen[x], w) /\ Seen[x] # <<"free", 0>>
  BY <1>1, <1>2, <1>3 DEF Store!Copy, NoValue
<1>5. Store!From(Seen[y], Seen[x], w)
  BY <1>4 DEF Store!From
<1>6. Store!Becomes(Seen[y], w)
  BY <1>5 DEF Store!Becomes
<1> QED BY <1>1, <1>3, <1>6, StoreStep

LEMMA DropMaps ==
  ASSUME RegsOK, Right(slots, mem), ~mem.stuck, NEW x \in Vars, Drop(x), Right(slots', mem')
  PROVE  Store!Next
<1>1. slots[x] # Free /\ Into(x, NoValue)
  BY DropInto
<1>2. Seen' = [Seen EXCEPT ![x] = <<"free", 0>>]
  BY <1>1, SeenIs DEF Into, NoValue
<1>3. Seen[x] # <<"free", 0>>
  <2>1. PICK W : Shows(slots, mem, W)
    BY DEF Right
  <2>2. PICK p, O : p = <<x, 0>> /\ O = {}
    OBVIOUS
  <2>3. Sound(mem, O, W) /\ W[p] = slots[x] /\ p \in Places
    BY <2>1, <2>2, OpenIs DEF Shows
  <2>4. TreeAt(mem, slots[x].v) # NoValue
    BY <1>1, <2>3, TreeAtIs
  <2> QED BY <1>1, <2>4, SeenIs DEF Vals, NoValue
<1>4. PICK w : w = <<"free", 0>>
  OBVIOUS
<1>5. Store!Drop(Seen[x], w)
  BY <1>3, <1>4 DEF Store!Drop
<1>6. Store!Becomes(Seen[x], w)
  BY <1>5 DEF Store!Becomes
<1> QED BY <1>2, <1>4, <1>6, StoreStep

LEMMA ReadMaps ==
  ASSUME RegsOK, Right(slots, mem), ~mem.stuck, NEW x \in Vars, NEW i, NEW y \in Vars, Read(x, i, y)
  PROVE  Store!Next
<1>1. PICK e : e = Els(mem, slots[x].v.i)
  OBVIOUS
<1>2. Vals(slots, mem)[x] = <<"arr", e>> /\ i \in DOMAIN e /\ Into(y, e[i])
  BY <1>1, ReadInto
<1>3. Seen[x] = <<"arr", e>> /\ Seen' = [Seen EXCEPT ![y] = e[i]]
  BY <1>2, SeenIs DEF Into
<1>4. Store!IsArray(Seen[x]) /\ Seen[x][2] = e /\ Seen[x] # <<"free", 0>>
  BY <1>3, HeldArray
<1>5. PICK w : w = e[i]
  OBVIOUS
<1>6. Store!Read(Seen[x], w)
  BY <1>2, <1>4, <1>5 DEF Store!Read
<1>7. Store!From(Seen[y], Seen[x], w)
  BY <1>4, <1>6 DEF Store!From
<1>8. Store!Becomes(Seen[y], w)
  BY <1>7 DEF Store!Becomes
<1> QED BY <1>3, <1>5, <1>8, StoreStep

LEMMA ClearMaps ==
  ASSUME RegsOK, Right(slots, mem), Right(slots', mem'), NEW x \in Vars, Clear(x)
  PROVE  Same \/ Store!Next
<1>1. Same \/ \E a : HoldsArray(x, a) /\ Into(x, <<"arr", << >> >>)
  BY ClearInto
<1>2. ASSUME NEW a, HoldsArray(x, a), Into(x, <<"arr", << >> >>) PROVE Store!Next
  <2>1. Seen[x] = <<"arr", Els(mem, a)>> /\ Seen' = [Seen EXCEPT ![x] = <<"arr", << >> >>]
    BY <1>2, SeenIs DEF HoldsArray, Into
  <2>2. Store!IsArray(Seen[x])
    BY <2>1, HeldArray
  <2>3. PICK w : w = <<"arr", << >> >>
    OBVIOUS
  <2>4. Store!Clear(Seen[x], w)
    BY <2>2, <2>3 DEF Store!Clear, Store!Array
  <2>5. Store!Becomes(Seen[x], w)
    BY <2>4 DEF Store!Becomes
  <2> QED BY <2>1, <2>3, <2>5, StoreStep
<1> QED BY <1>1, <1>2

LEMMA RemoveMaps ==
  ASSUME RegsOK, Right(slots, mem), Right(slots', mem'), NEW x \in Vars, NEW i, RemoveElement(x, i)
  PROVE  Same \/ Store!Next
<1>1. ASSUME ~Same PROVE Store!Next
  <2>1. PICK a : /\ HoldsArray(x, a) /\ i \in DOMAIN Els(mem, a)
                 /\ Into(x, <<"arr", SubSeq(Els(mem, a), 1, i - 1) \o SubSeq(Els(mem, a), i + 1, Len(Els(mem, a)))>>)
    BY <1>1, RemoveInto
  <2>2. PICK e, c : e = Els(mem, a) /\ c = SubSeq(e, 1, i - 1) \o SubSeq(e, i + 1, Len(e))
    OBVIOUS
  <2>3. Seen[x] = <<"arr", e>> /\ i \in DOMAIN e /\ Seen' = [Seen EXCEPT ![x] = <<"arr", c>>]
    BY <2>1, <2>2, SeenIs DEF HoldsArray, Into
  <2>4. Store!IsArray(Seen[x]) /\ Seen[x][2] = e
    BY <2>3, HeldArray
  <2>5. PICK w : w = <<"arr", c>>
    OBVIOUS
  <2>6. w = Store!Array(SubSeq(e, 1, i - 1) \o SubSeq(e, i + 1, Len(e)))
    BY <2>2, <2>5 DEF Store!Array
  <2>7. Store!RemoveElement(Seen[x], w)
    BY <2>3, <2>4, <2>6 DEF Store!RemoveElement
  <2>8. Store!Becomes(Seen[x], w)
    BY <2>7 DEF Store!Becomes
  <2> QED BY <2>3, <2>5, <2>8, StoreStep
<1> QED BY <1>1

LEMMA SetMaps ==
  ASSUME RegsOK, Right(slots, mem), ~mem.stuck, Right(slots', mem'), NEW x \in Vars, NEW i, NEW y \in Vars, Set(x, i, y)
  PROVE  Store!Next
<1>1. PICK a : /\ HoldsArray(x, a) /\ i \in DOMAIN Els(mem, a) /\ Vals(slots, mem)[y] # NoValue
               /\ Into(x, <<"arr", [Els(mem, a) EXCEPT ![i] = Vals(slots, mem)[y]]>>)
  BY SetInto
<1>2. PICK e : e = Els(mem, a)
  OBVIOUS
<1>3. /\ Seen[x] = <<"arr", e>> /\ i \in DOMAIN e /\ Seen[y] # <<"free", 0>>
      /\ Seen' = [Seen EXCEPT ![x] = <<"arr", [e EXCEPT ![i] = Seen[y]]>>]
  BY <1>1, <1>2, SeenIs DEF HoldsArray, Into, NoValue
<1>4. Store!IsArray(Seen[x]) /\ Seen[x][2] = e
  BY <1>3, HeldArray
<1>5. PICK w : w = <<"arr", [e EXCEPT ![i] = Seen[y]]>>
  OBVIOUS
<1>6. w = Store!Array([e EXCEPT ![i] = Seen[y]])
  BY <1>5 DEF Store!Array
<1>7. Store!Set(Seen[x], Seen[y], w)
  BY <1>3, <1>4, <1>6 DEF Store!Set
<1>8. Store!From(Seen[x], Seen[y], w)
  BY <1>3, <1>7 DEF Store!From
<1>9. Store!Becomes(Seen[x], w)
  BY <1>8 DEF Store!Becomes
<1> QED BY <1>3, <1>5, <1>9, StoreStep

LEMMA AddMaps ==
  ASSUME RegsOK, Right(slots, mem), ~mem.stuck, Right(slots', mem'), NEW x \in Vars, NEW y \in Vars, Add(x, y)
  PROVE  Same \/ Store!Next
<1>1. ASSUME ~Same PROVE Store!Next
  <2>1. PICK a : /\ HoldsArray(x, a) /\ Vals(slots, mem)[y] # NoValue
                 /\ Into(x, <<"arr", Append(Els(mem, a), Vals(slots, mem)[y])>>)
    BY <1>1, AddInto
  <2>2. PICK e : e = Els(mem, a)
    OBVIOUS
  <2>3. /\ Seen[x] = <<"arr", e>> /\ Seen[y] # <<"free", 0>>
        /\ Seen' = [Seen EXCEPT ![x] = <<"arr", Append(e, Seen[y])>>]
    BY <2>1, <2>2, SeenIs DEF HoldsArray, Into, NoValue
  <2>4. Store!IsArray(Seen[x]) /\ Seen[x][2] = e
    BY <2>3, HeldArray
  <2>5. PICK w : w = <<"arr", Append(e, Seen[y])>>
    OBVIOUS
  <2>6. Store!Add(Seen[x], Seen[y], w)
    BY <2>4, <2>5 DEF Store!Add, Store!Array
  <2>7. Store!From(Seen[x], Seen[y], w)
    BY <2>3, <2>6 DEF Store!From
  <2>8. Store!Becomes(Seen[x], w)
    BY <2>7 DEF Store!Becomes
  <2> QED BY <2>3, <2>5, <2>8, StoreStep
<1> QED BY <1>1

\* A step is one of the store, or changes no value.
LEMMA StepMaps ==
  ASSUME RVInv, [Next]_vars
  PROVE  [Store!Next]_Seen
<1>1. RegsOK /\ Right(slots, mem)
  BY DEF RVInv
<1>2. Same => Seen' = Seen
  BY SeenIs DEF Same
<1>3. CASE UNCHANGED vars
  <2>1. slots' = slots /\ mem' = mem
    BY <1>3 DEF vars
  <2> QED BY <1>2, <2>1 DEF Same
<1>4. CASE Next
  <2>1. ~mem.stuck
    BY <1>4 DEF Next, Running
  <2>2. Right(slots', mem')
    <3>1. Right(slots', mem') \/ (slots' = slots /\ mem' = mem)
      BY <1>4, StepRight
    <3> QED BY <1>1, <3>1
  <2>3. ASSUME NEW r, NEW n, RegisterType(r, n) PROVE Same
    BY <2>3 DEF RegisterType, Same
  <2>4. ASSUME NEW r, NEW n, OpenView(r, n) PROVE Same
    BY <2>4 DEF OpenView, Same
  <2>5. ASSUME NEW x \in Vars, NEW r, NEW n, allocHandle(x, r, n) PROVE Store!Next
    BY <1>1, <2>5, HandleInit, MakeMaps
  <2>6. ASSUME NEW x \in Vars, NEW t \in Types, NEW b \in Bytes, MakeString(x, t, b) PROVE Store!Next
    BY <1>1, <2>6, StringInit, MakeMaps
  <2>7. ASSUME NEW x \in Vars, NEW t \in Types, MakeNil(x, t) PROVE Store!Next
    BY <1>1, <2>7, NilInit, MakeMaps
  <2>8. ASSUME NEW x \in Vars, NEW t \in Types, MakeArray(x, t) PROVE Store!Next
    BY <1>1, <2>8, ArrayInit, MakeMaps
  <2>9. ASSUME NEW x \in Vars, NEW y \in Vars, MakeFixed(x, y) PROVE Store!Next
    BY <1>1, <2>9, FixedInit, MakeMaps
  <2>10. ASSUME NEW x \in Vars, Drop(x) PROVE Store!Next
    BY <1>1, <2>1, <2>2, <2>10, DropMaps
  <2>11. ASSUME NEW x \in Vars, Clear(x) PROVE Same \/ Store!Next
    BY <1>1, <2>2, <2>11, ClearMaps
  <2>12. ASSUME NEW x \in Vars, NEW i, RemoveElement(x, i) PROVE Same \/ Store!Next
    BY <1>1, <2>2, <2>12, RemoveMaps
  <2>13. ASSUME NEW x \in Vars, NEW y \in Vars, Copy(x, y) PROVE Store!Next
    BY <1>1, <2>1, <2>13, CopyTree, CopyMaps
  <2>14. ASSUME NEW x \in Vars, NEW y \in Vars, Assign(x, y) PROVE Store!Next
    BY <1>1, <2>1, <2>2, <2>14, AssignInto, CopyMaps
  <2>15. ASSUME NEW x \in Vars, NEW y \in Vars, Add(x, y) PROVE Same \/ Store!Next
    BY <1>1, <2>1, <2>2, <2>15, AddMaps
  <2>16. ASSUME NEW x \in Vars, NEW i, NEW y \in Vars, Read(x, i, y) PROVE Store!Next
    BY <1>1, <2>1, <2>16, ReadMaps
  <2>17. ASSUME NEW x \in Vars, NEW i, NEW y \in Vars, Set(x, i, y) PROVE Store!Next
    BY <1>1, <2>1, <2>2, <2>17, SetMaps
  <2>18. Same \/ Store!Next
    BY <1>4, <2>3, <2>4, <2>5, <2>6, <2>7, <2>8, <2>9, <2>10, <2>11, <2>12, <2>13, <2>14, <2>15, <2>16, <2>17 DEF Next
  <2> QED BY <1>2, <2>18
<1> QED BY <1>3, <1>4

\* Every variable has a value of its own: what is done to one shows in no
\* other, although handles are shared and copies are made call by call.
THEOREM Refinement == Spec => ImplementsValueStore
<1>1. Init => Store!Init
  <2> SUFFICES ASSUME Init PROVE Store!Init
    OBVIOUS
  <2>1. Seen = [x \in Vars |-> <<"free", 0>>]
    BY DEF Init, Seen
  <2> QED BY <2>1 DEF Store!Init
<1>2. RVInv /\ [Next]_vars => [Store!Next]_Seen
  BY StepMaps
<1> QED BY <1>1, <1>2, AlwaysRight, PTL DEF Spec, ImplementsValueStore, Store!Spec
-----------------------------------------------------------------------------
(* The array contains what equals an element                                *)

LEMMA EqualIs ==
  ASSUME NEW a, NEW b, NEW m
  PROVE  \E e : Compares(a, b, m, e)
<1> DEFINE Body(g) == [u \in AllTypes |->
              CASE u.k = "nullable" -> IF a.tag = "nil" \/ b.tag = "nil" THEN a.tag = b.tag ELSE g[u.t]
                [] u.k = "string" -> a.tag = "string" /\ b.tag = "string" /\ stringEquals(a.i, b.i, m)
                [] u.k = "host" -> a.tag = "host" /\ b.tag = "host" /\ handleEquals(a.i, b.i, m)
                [] OTHER -> a.tag = "array" /\ b.tag = "array" /\ a.i = b.i]
           e == CHOOSE h : h = Body(h)
<1>1. PICK nil \in BOOLEAN, none \in BOOLEAN :
        /\ nil <=> (a.tag = "nil" \/ b.tag = "nil")
        /\ none <=> (a.tag = b.tag)
  OBVIOUS
<1>2. PICK str \in BOOLEAN, host \in BOOLEAN, arr \in BOOLEAN :
        /\ str = (a.tag = "string" /\ b.tag = "string" /\ stringEquals(a.i, b.i, m))
        /\ host = (a.tag = "host" /\ b.tag = "host" /\ handleEquals(a.i, b.i, m))
        /\ arr = (a.tag = "array" /\ b.tag = "array" /\ a.i = b.i)
  <2>1. ASSUME NEW X, X \in BOOLEAN PROVE \E x \in BOOLEAN : x = X
    BY <2>1
  <2>2. /\ (a.tag = "string" /\ b.tag = "string" /\ stringEquals(a.i, b.i, m)) \in BOOLEAN
        /\ (a.tag = "host" /\ b.tag = "host" /\ handleEquals(a.i, b.i, m)) \in BOOLEAN
        /\ (a.tag = "array" /\ b.tag = "array" /\ a.i = b.i) \in BOOLEAN
    OBVIOUS
  <2> QED BY <2>1, <2>2, Zenon
<1>3. PICK base : base = [u \in AllTypes |-> IF u.k = "string" THEN str ELSE IF u.k = "host" THEN host ELSE arr]
  OBVIOUS
<1>4. PICK step : step = [u \in AllTypes |-> [x \in BOOLEAN |-> IF u.k = "nullable" THEN IF nil THEN none ELSE x ELSE arr]]
  OBVIOUS
<1>5. base \in [AllTypes -> BOOLEAN] /\ step \in [AllTypes -> [BOOLEAN -> BOOLEAN]]
  BY <1>3, <1>4
<1>6. PICK g \in [AllTypes -> BOOLEAN] : Recurs(g, AllTypes, base, step)
  BY <1>5, TypeRecursion
<1>7. ASSUME NEW u \in AllTypes PROVE g[u] = Body(g)[u]
  <2>1. g[u] = IF u.k = "nullable" THEN step[u][g[u.t]]
               ELSE IF u.k = "fix" THEN step[u][g[u.el]] ELSE base[u]
    BY <1>6 DEF Recurs
  <2>2. \/ u.k \in {"string", "host"}
        \/ u.k = "nullable" /\ u.t \in AllTypes
        \/ u.k \in {"dyn", "fix"} /\ u.el \in AllTypes
    BY AllTypesMade
  <2>3. CASE u.k = "nullable"
    <3>1. g[u.t] \in BOOLEAN
      BY <1>6, <2>2, <2>3
    <3>2. g[u] = IF nil THEN none ELSE g[u.t]
      BY <1>4, <2>1, <2>3, <3>1
    <3>3. Body(g)[u] = IF a.tag = "nil" \/ b.tag = "nil" THEN a.tag = b.tag ELSE g[u.t]
      BY <2>3
    <3> HIDE DEF Body
    <3> QED BY <1>1, <3>1, <3>2, <3>3
  <2>4. CASE u.k = "fix"
    <3>1. g[u.el] \in BOOLEAN
      BY <1>6, <2>2, <2>4
    <3>2. g[u] = arr
      BY <1>4, <2>1, <2>4, <3>1
    <3>3. Body(g)[u] = (a.tag = "array" /\ b.tag = "array" /\ a.i = b.i)
      BY <2>4
    <3> QED BY <1>2, <3>2, <3>3, Zenon
  <2>5. CASE u.k = "dyn"
    <3>1. g[u] = arr
      BY <1>3, <2>1, <2>5
    <3>2. Body(g)[u] = (a.tag = "array" /\ b.tag = "array" /\ a.i = b.i)
      BY <2>5
    <3> QED BY <1>2, <3>1, <3>2, Zenon
  <2>6. CASE u.k = "string"
    <3>1. g[u] = str
      BY <1>3, <2>1, <2>6
    <3>2. Body(g)[u] = (a.tag = "string" /\ b.tag = "string" /\ stringEquals(a.i, b.i, m))
      BY <2>6
    <3> QED BY <1>2, <3>1, <3>2, Zenon
  <2>7. CASE u.k = "host"
    <3>1. g[u] = host
      BY <1>3, <2>1, <2>7
    <3>2. Body(g)[u] = (a.tag = "host" /\ b.tag = "host" /\ handleEquals(a.i, b.i, m))
      BY <2>7
    <3> QED BY <1>2, <3>1, <3>2, Zenon
  <2> QED BY <2>2, <2>3, <2>4, <2>5, <2>6, <2>7
<1>8. g = Body(g)
  <2>1. Body(g) = [u \in AllTypes |-> Body(g)[u]]
    OBVIOUS
  <2> HIDE DEF Body
  <2> QED BY <1>6, <1>7, <2>1
<1>9. e = Body(e)
  <2> HIDE DEF Body
  <2> QED BY <1>8
<1>10. ASSUME NEW u \in AllTypes PROVE valueEqualsForType(a, b, u, m) = e[u]
  BY Zenon DEF valueEqualsForType
<1>11. ASSUME NEW u \in AllTypes PROVE Body(e)[u] = Compared(u, a, b, m, e)
  BY DEF Compared
<1> HIDE DEF e, Body
<1>12. Compares(a, b, m, e)
  BY <1>9, <1>10, <1>11 DEF Compares
<1> QED BY <1>12

\* These are compared by what they are.
LEMMA LeavesCompare ==
  ASSUME NEW a, NEW b, NEW m, NEW e, Compares(a, b, m, e)
  PROVE  \A n \in Nat : \A t \in TypesTo[n] : t \in AllTypes /\ planForType[t].drop \in {"FreeString", "Release"}
            /\ Leaf(a, t) /\ Leaf(b, t) => (e[t] <=> Agree(a, b, m))
<1> DEFINE T == {n \in Nat : \A t \in TypesTo[n] : t \in AllTypes /\ planForType[t].drop \in {"FreeString", "Release"}
                    /\ Leaf(a, t) /\ Leaf(b, t) => (e[t] <=> Agree(a, b, m))}
<1>1. ASSUME NEW t \in AllTypes, t.k = "string", Leaf(a, t), Leaf(b, t) PROVE e[t] <=> Agree(a, b, m)
  <2>1. planForType[t].drop = "FreeString"
    BY <1>1, PlanIs DEF Plan
  <2>2. a.tag = "string" /\ b.tag = "string"
    BY <1>1, <2>1 DEF Leaf
  <2>3. e[t] = Compared(t, a, b, m, e)
    BY DEF Compares
  <2>4. e[t] <=> m.heap[a.i].bytes = m.heap[b.i].bytes
    BY <1>1, <2>2, <2>3 DEF Compared, stringEquals
  <2> QED BY <2>2, <2>4 DEF Agree
<1>2. ASSUME NEW t \in AllTypes, t.k = "host", Leaf(a, t), Leaf(b, t) PROVE e[t] <=> Agree(a, b, m)
  <2>1. planForType[t].drop = "Release"
    BY <1>2, PlanIs DEF Plan
  <2>2. a.tag = "host" /\ b.tag = "host"
    BY <1>2, <2>1 DEF Leaf
  <2>3. e[t] = Compared(t, a, b, m, e)
    BY DEF Compares
  <2>4. e[t] <=> a.i = b.i
    BY <1>2, <2>2, <2>3 DEF Compared, handleEquals
  <2> QED BY <2>2, <2>4 DEF Agree
<1>3. 0 \in T
  <2>1. ASSUME NEW t \in TypesTo[0] PROVE t.k \in {"string", "host"}
    BY TypesToIs DEF Str, Host
  <2> QED BY <1>1, <1>2, <2>1
<1>4. ASSUME NEW n \in Nat, n \in T PROVE n + 1 \in T
  <2>1. ASSUME NEW t \in TypesTo[n + 1], t \in AllTypes, planForType[t].drop \in {"FreeString", "Release"},
               Leaf(a, t), Leaf(b, t)
        PROVE  e[t] <=> Agree(a, b, m)
    <3>1. Made(t, n + 1) /\ n + 1 - 1 = n
      BY TypeMade
    <3>2. CASE t.k \in {"string", "host"}
      BY <1>1, <1>2, <2>1, <3>2
    <3>3. CASE t.k = "nullable"
      <4>1. t.t \in TypesTo[n] /\ t.t \in AllTypes
        BY <2>1, <3>1, <3>3, AllTypesMade DEF Made
      <4>2. planForType[t.t] = planForType[t]
        BY <2>1, <3>3, PlanIs
      <4>3. e[t] = IF a.tag = "nil" \/ b.tag = "nil" THEN a.tag = b.tag ELSE e[t.t]
        BY <2>1, <3>3 DEF Compares, Compared
      <4>4. CASE a.tag = "nil" \/ b.tag = "nil"
        BY <4>3, <4>4 DEF Agree
      <4>5. CASE ~(a.tag = "nil" \/ b.tag = "nil")
        <5>1. Leaf(a, t.t) /\ Leaf(b, t.t)
          BY <2>1, <4>2, <4>5 DEF Leaf, Nil
        <5>2. e[t.t] <=> Agree(a, b, m)
          BY <1>4, <2>1, <4>1, <4>2, <5>1
        <5> QED BY <4>3, <4>5, <5>2
      <4> QED BY <4>4, <4>5
    <3>4. CASE t.k \in {"dyn", "fix"}
      <4>1. planForType[t].drop \in {"FreeArray", "ElementWise"}
        BY <2>1, <3>4, PlanIs DEF Plan
      <4> QED BY <2>1, <4>1
    <3> QED BY <3>1, <3>2, <3>3, <3>4 DEF Made
  <2> QED BY <2>1
<1>5. Nat \subseteq T
  <2> HIDE DEF T
  <2> QED BY <1>3, <1>4, NatInd
<1> QED BY <1>5

LEMMA LeafIs ==
  ASSUME NEW m, NEW O, NEW W, Sound(m, O, W), NEW p \in Places, W[p] # Free,
         planForType[W[p].ty].drop \in {"FreeString", "Release"}
  PROVE  LeafTree(m, W[p].v, W[p].ty)
<1>1. PICK v, t, id : v = W[p].v /\ t = W[p].ty /\ id = v.i
  OBVIOUS
<1>2. MaxNesting \in Nat /\ v \in Values /\ t \in AllTypes /\ Fits(W[p], m) /\ W[p] \in Contents
  BY <1>1, BoundsAreNat, SoundIs, ContentIs
<1>3. PICK els : TreeAt(m, v) = TreeOver(v, els, m)
  BY <1>2, TreeIs DEF TreeAt
<1>4. CASE IsRef(v)
  <2>1. id \in Ids /\ v.tag \in RefTags
    BY <1>1, <1>4, SoundIs, RefIs
  <2>2. m.heap[id].k = v.tag /\ planForType[t].drop = DropOf(m.heap[id])
    BY <1>1, <1>2, <1>4 DEF Fits
  <2>3. v.tag \in {"string", "host"}
    BY <1>1, <2>1, <2>2 DEF DropOf, RefTags
  <2>4. CASE v.tag = "string"
    <3>1. planForType[t].drop = "FreeString"
      BY <2>2, <2>4 DEF DropOf
    <3>2. TreeAt(m, v) = <<"str", m.heap[id].bytes>>
      BY <1>1, <1>3, <1>4, <2>2, <2>4, TreeOverIs
    <3> QED BY <1>1, <2>1, <2>2, <2>4, <3>1, <3>2 DEF Leaf, LeafTree
  <2>5. CASE v.tag = "host"
    <3>1. planForType[t].drop = "Release"
      BY <2>2, <2>5 DEF DropOf
    <3>2. TreeAt(m, v) = <<"host", m.heap[id].payload>>
      BY <1>1, <1>3, <1>4, <2>2, <2>5, TreeOverIs
    <3> QED BY <1>1, <2>1, <2>2, <2>5, <3>1, <3>2 DEF Leaf, LeafTree
  <2> QED BY <2>3, <2>4, <2>5
<1>5. CASE ~IsRef(v)
  <2>1. v = Nil /\ t.k = "nullable"
    BY <1>1, <1>2, <1>5 DEF Contents
  <2>2. TreeAt(m, v) = <<"nil", 0>>
    BY <1>3, <1>5, <2>1, TreeOverIs DEF Nil
  <2> QED BY <1>1, <2>1, <2>2 DEF Leaf, LeafTree, Nil
<1> QED BY <1>4, <1>5

\* Two of them are equal when their trees are.
LEMMA EqualTrees ==
  ASSUME NEW m, NEW O, NEW W, Sound(m, O, W), NEW p \in Places, NEW q \in Places, W[p] # Free, W[q] # Free,
         NEW t, t = W[p].ty, t = W[q].ty, planForType[t].drop \in {"FreeString", "Release"}
  PROVE  valueEqualsForType(W[p].v, W[q].v, t, m) <=> TreeAt(m, W[p].v) = TreeAt(m, W[q].v)
<1>1. PICK v, w : v = W[p].v /\ w = W[q].v
  OBVIOUS
<1>2. PICK e : Compares(v, w, m, e)
  BY EqualIs
<1>3. t \in AllTypes
  BY SoundIs, ContentIs
<1>4. MaxNesting \in Nat /\ t \in TypesTo[MaxNesting]
  BY <1>3, BoundsAreNat DEF AllTypes
<1>5. LeafTree(m, v, t) /\ LeafTree(m, w, t)
  BY <1>1, LeafIs
<1>6. Leaf(v, t) /\ Leaf(w, t)
  BY <1>5 DEF LeafTree
<1>7. e[t] <=> Agree(v, w, m)
  BY <1>2, <1>3, <1>4, <1>6, LeavesCompare
<1>8. valueEqualsForType(v, w, t, m) = e[t]
  BY <1>2, <1>3 DEF Compares
<1>9. Agree(v, w, m) <=> TreeAt(m, v) = TreeAt(m, w)
  <2>1. CASE v.tag = "host" /\ w.tag = "host"
    <3>1. m.heap[v.i].payload = m.heap[w.i].payload => v.i = w.i
      BY <1>5, <2>1, SoundIs, HostParts DEF LeafTree
    <3>2. TreeAt(m, v) = TreeAt(m, w) <=> m.heap[v.i].payload = m.heap[w.i].payload
      BY <1>5, <2>1 DEF LeafTree
    <3> QED BY <2>1, <3>1, <3>2 DEF Agree
  <2>2. CASE v.tag = "string" /\ w.tag = "string"
    <3>1. TreeAt(m, v) = TreeAt(m, w) <=> m.heap[v.i].bytes = m.heap[w.i].bytes
      BY <1>5, <2>2 DEF LeafTree
    <3> QED BY <2>2, <3>1 DEF Agree
  <2>3. CASE v.tag \notin {"string", "host"} /\ w.tag \notin {"string", "host"}
    BY <1>5, <2>3 DEF Agree, LeafTree
  <2>4. CASE v.tag # w.tag /\ (v.tag \in {"string", "host"} \/ w.tag \in {"string", "host"})
    <3>1. TreeAt(m, v) # TreeAt(m, w)
      <4>1. /\ v.tag = "string" => TreeAt(m, v)[1] = "str"
            /\ v.tag = "host" => TreeAt(m, v)[1] = "host"
            /\ v.tag \notin {"string", "host"} => TreeAt(m, v)[1] = "nil"
        BY <1>5 DEF LeafTree
      <4>2. /\ w.tag = "string" => TreeAt(m, w)[1] = "str"
            /\ w.tag = "host" => TreeAt(m, w)[1] = "host"
            /\ w.tag \notin {"string", "host"} => TreeAt(m, w)[1] = "nil"
        BY <1>5 DEF LeafTree
      <4> QED BY <2>4, <4>1, <4>2
    <3> QED BY <2>4, <3>1 DEF Agree
  <2> QED BY <2>1, <2>2, <2>3, <2>4
<1> QED BY <1>1, <1>7, <1>8, <1>9

LEMMA ContainsIt ==
  ASSUME RVInv
  PROVE  ContainsByValue
<1> SUFFICES ASSUME NEW x \in Vars, NEW y \in Vars, ~mem.stuck, slots[x].v.tag = "array",
                    slots[y] # Free, slots[y].ty = mem.heap[slots[x].v.i].el,
                    planForType[slots[y].ty].drop \in {"FreeString", "Release"}
             PROVE  arrayContains(slots[x].v.i, slots[y].v, mem) <=>
                    Tree[slots[y].v] \in {Tree[e] : e \in ToSet(Elements(slots[x].v.i))}
  BY DEF ContainsByValue, Comparable, ContainsTree, HasArray, ElementType, Array
<1>1. PICK W : Shows(slots, mem, W)
  BY DEF RVInv, Right
<1>2. PICK a, d, v, t : a = slots[x].v.i /\ d = mem.heap[a].data /\ v = slots[y].v /\ t = slots[y].ty
  OBVIOUS
<1>3. a \in Ids /\ mem.heap[a].k = "array" /\ IsRef(slots[x].v)
  <2>1. HasArray(x)
    BY DEF HasArray
  <2> QED BY <1>1, <1>2, <2>1, HasBoth
<1>4. PICK p, q, O : p = <<x, 0>> /\ q = <<y, 0>> /\ O = {}
  OBVIOUS
<1>5. Sound(mem, O, W) /\ W[p] = slots[x] /\ W[q] = slots[y] /\ p \in Places /\ q \in Places
  BY <1>1, <1>4, OpenIs DEF Shows
<1>6. At(W, a) # {}
  BY <1>2, <1>3, <1>5 DEF At
<1>7. ASSUME NEW i \in DOMAIN d PROVE valueEqualsForType(d[i], v, t, mem) <=> TreeAt(mem, d[i]) = TreeAt(mem, v)
  <2>1. ElementIn(mem, W, a, i)
    BY <1>2, <1>3, <1>5, <1>6, ElementAt
  <2>2. PICK r : r = <<a, i>>
    OBVIOUS
  <2>3. r \in Places /\ W[r] # Free /\ W[r].v = d[i] /\ W[r].ty = t
    <3>1. d = mem.heap[a].data /\ t = mem.heap[a].el
      BY <1>2
    <3>2. r \in Places /\ W[r] # Free /\ W[r] = [ty |-> mem.heap[a].el, v |-> mem.heap[a].data[i]]
      BY <2>1, <2>2 DEF ElementIn
    <3> QED BY <3>1, <3>2
  <2>4. valueEqualsForType(W[r].v, W[q].v, t, mem) <=> TreeAt(mem, W[r].v) = TreeAt(mem, W[q].v)
    BY <1>2, <1>5, <2>3, EqualTrees
  <2> QED BY <1>2, <1>5, <2>3, <2>4
<1>8. arrayContains(a, v, mem) <=> \E i \in DOMAIN d : valueEqualsForType(d[i], v, t, mem)
  BY <1>2 DEF arrayContains
<1>9. ToSet(Elements(a)) = {d[i] : i \in DOMAIN d}
  BY <1>2, <1>3 DEF ToSet, Elements
<1>10. Tree[v] \in {Tree[e] : e \in ToSet(Elements(a))} <=> \E i \in DOMAIN d : TreeAt(mem, d[i]) = TreeAt(mem, v)
  BY <1>9 DEF Tree, TreeAt
<1> QED BY <1>2, <1>7, <1>8, <1>10

\* An array of strings or handles contains a value when one of its elements has
\* the value's tree, whichever objects and copies hold it.
THEOREM ContainsItsValues == Spec => []ContainsByValue
<1>1. RVInv => ContainsByValue
  BY ContainsIt
<1> QED BY <1>1, AlwaysRight, PTL
=============================================================================
