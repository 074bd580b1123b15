--------------------------- MODULE RuntimeValues ---------------------------
(****************************************************************************)
(* The runtime library: strings, arrays, host handles, and how a value of a *)
(* type is copied and dropped (Handle, String, Array, ValueOps).  Variables *)
(* of a program hold values; its statements drop and store them in the      *)
(* order the emitter gives the instructions, and copy a value that gets a   *)
(* second place the way emitCopy does.  (No code calls emitCopy yet: what   *)
(* follows from that is in Execution.)                                      *)
(*                                                                          *)
(* The heap is a function of the ids of objects, NoObject for one that is   *)
(* free; `broken` says that a call used an object that was free, or another *)
(* by then.  malloc does not fail.  What the code does by recursion over a  *)
(* type is a function by levels here: a type nests at most MaxNesting times.*)
(****************************************************************************)
EXTENDS HostRegistry, FiniteSets, TLC

CONSTANTS
  Vars,          \* the program's variables
  Types,         \* the types of their values
  Bytes,         \* the contents of strings
  Registries,    \* "root" and a view
  Names,         \* the names of host types
  Visible,       \* the sets of names a view is opened with
  MaxNames, MaxObjects, MaxPayloads, MaxLength, MaxNesting,   \* bounds of the model
  InitialCapacity,                      \* kInitialCapacity
  CapMod                                \* 2^32: a capacity is a uint32_t

Str == [k |-> "string"]
Host == [k |-> "host"]
Dyn(el) == [k |-> "dyn", el |-> el]
Fix(el) == [k |-> "fix", el |-> el]
Maybe(t) == [k |-> "nullable", t |-> t]
FixedLength == 2

\* The types made of strings and handles: what owns nothing is left out.
TypesTo[n \in Nat] ==
  IF n = 0 THEN {Str, Host}
  ELSE LET ts == TypesTo[n - 1]
       IN  ts \union {Dyn(t) : t \in ts} \union {Fix(t) : t \in ts} \union {Maybe(t) : t \in ts}
AllTypes == TypesTo[MaxNesting]

(* The capacities that doubling goes through are below CapMod until one is  *)
(* half of it, as from 4 to 2^31.                                           *)
ASSUME ValuesAssumption ==
  /\ IsFiniteSet(Vars) /\ "root" \in Registries
  /\ {MaxNames, MaxObjects, MaxPayloads, MaxLength, MaxNesting} \subseteq Nat
  /\ Types \subseteq AllTypes
  /\ CapMod \in Nat
  /\ \E caps \in SUBSET (1 .. CapMod - 1) :
        InitialCapacity \in caps /\ \A c \in caps : 2 * c \in caps \union {CapMod}

Plan(copy, drop) == [copy |-> copy, drop |-> drop]
planForType[t \in AllTypes] ==
  CASE t.k = "nullable" -> planForType[t.t]
    [] t.k = "string" -> Plan("DeepCopyString", "FreeString")
    [] t.k = "host" -> Plan("Retain", "Release")
    [] t.k = "dyn" -> Plan("DeepCopyArray", "FreeArray")
    [] t.k = "fix" -> IF planForType[t.el].drop # "None" THEN Plan("ElementWise", "ElementWise")
                      ELSE Plan("BitCopy", "None")

VARIABLES slots,   \* each variable's type and value, Free for none
          mem,     \* [heap, host, broken, stuck, full]; host: what the callbacks did to each payload
           \* full: an operation needs more than MaxObjects, which the model leaves out
          regs

vars == <<slots, mem, regs>>

Ids == 1 .. MaxObjects
Nil == [tag |-> "nil", i |-> 0]
Uninitialized == [tag |-> "uninit", i |-> 0]
Ref(tag, id) == [tag |-> tag, i |-> id]
RefTags == {"string", "array", "host"}
Values == {Nil, Uninitialized} \union [tag : RefTags, i : Ids]
Free == [ty |-> [k |-> "none"], v |-> [tag |-> "none", i |-> 0]]

NoObject == [k |-> "free"]
Strings == [k : {"string"}, rc : Int, bytes : Bytes]
Arrays == [k : {"array"}, rc : Int, el : AllTypes, fixed : BOOLEAN, data : Seq(Values), cap : Nat]
Handles == [k : {"host"}, rc : Int, reg : DOMAIN regs, index : Nat, payload : Nat]
Objects == {NoObject} \union Strings \union Arrays \union Handles
Entries == Registries \X Nat
Payloads == [reg : Registries, ty : Entries, releases : Nat, by : SUBSET Entries]
Memories == [heap : [Ids -> Objects], host : Seq(Payloads),
             broken : BOOLEAN, stuck : BOOLEAN, full : BOOLEAN]

Live(id, m) == m.heap[id] # NoObject
Is(k, id, m) == m.heap[id].k = k     \* what a value with the tag k needs
Room(m) == \E i \in Ids : ~Live(i, m)
Fresh(m) == CHOOSE i \in Ids : ~Live(i, m)
Alloc(o, m) == [m EXCEPT !.heap[Fresh(m)] = o]
Unalloc(id, m) == [m EXCEPT !.heap[id] = NoObject]
Break(m) == [m EXCEPT !.broken = TRUE]
Count(id, d, m) == [m EXCEPT !.heap[id].rc = @ + d]

----------------------------------------------------------------------------
(* Handles.  The callback of the host's type, if typeAt finds it: by is the *)
(* set of the entries whose callbacks a payload has seen.                   *)

Called(p, n, entry) == [p EXCEPT !.releases = @ + n, !.by = @ \union {entry}]
Calls(h, n, m) ==
  LET entry == typeAt(regs, h.reg, h.index)
  IN  IF entry = NoEntry THEN m
      ELSE [m EXCEPT !.host[h.payload] = Called(@, n, entry)]

\* The callback runs, the count stays as it is.
ForgetsCount(id, m) == IF Is("host", id, m) THEN Calls(m.heap[id], 0, m) ELSE Break(m)

retainHandle(id, m) ==
  IF ~Is("host", id, m) THEN Break(m)
  ELSE LET h == m.heap[id]
       IN  IF h.rc + 1 = 2 THEN Calls(h, 0, Count(id, 1, m)) ELSE Count(id, 1, m)

\* The callback runs when the count goes down to one as well.
ReleasesEarly(id, m) ==
  IF ~Is("host", id, m) THEN Break(m)
  ELSE LET h == m.heap[id]
       IN  IF h.rc > 1 THEN Calls(h, 1, Count(id, -1, m)) ELSE Unalloc(id, Calls(h, 1, m))

releaseHandle(id, m) ==
  IF ~Is("host", id, m) THEN Break(m)
  ELSE LET h == m.heap[id]
       IN  IF h.rc > 1 THEN Count(id, -1, m) ELSE Unalloc(id, Calls(h, 1, m))

----------------------------------------------------------------------------
(* Strings and the buffers of arrays.  *)

StringObject(b) == [k |-> "string", rc |-> 1, bytes |-> b]
ArrayObject(t, fixed, data, cap) == [k |-> "array", rc |-> 1, el |-> t, fixed |-> fixed, data |-> data, cap |-> cap]
allocString(b, m) == Alloc(StringObject(b), m)
allocArray(t, m) == Alloc(ArrayObject(t, FALSE, << >>, 0), m)
allocFixedArray(t, m) == Alloc(ArrayObject(t, TRUE, <<Uninitialized, Uninitialized>>, FixedLength), m)

releaseString(id, m) ==
  IF ~Is("string", id, m) THEN Break(m)
  ELSE IF m.heap[id].rc > 1 THEN Count(id, -1, m) ELSE Unalloc(id, m)

\* Doubling until the capacity is more than what is asked for.
DoublesPast(cap, min) ==
  LET after[n \in Nat] == IF n = 0 THEN cap
                          ELSE LET c == after[n - 1] IN IF c > min \/ c = 0 THEN c ELSE (2 * c) % CapMod
  IN  after[CapMod]

(* The doubling of ensureCapacity, zero when it does not end.  It ends, or  *)
(* arrives at zero, in fewer than CapMod steps.                             *)
Doubled(cap, min) ==
  LET after[n \in Nat] == IF n = 0 THEN cap
                          ELSE LET c == after[n - 1] IN IF c >= min \/ c = 0 THEN c ELSE (2 * c) % CapMod
  IN  after[CapMod]

ensureCapacity(id, min, m) ==
  LET cap == m.heap[id].cap
      new == Doubled(IF cap = 0 THEN InitialCapacity ELSE cap, min)
  IN  IF cap >= min THEN m
      ELSE IF new = 0 THEN [m EXCEPT !.stuck = TRUE]
      ELSE [m EXCEPT !.heap[id].cap = new]

----------------------------------------------------------------------------
(* dropValue and releaseArray; drop is dropValue for the values in v.       *)

DropAll(drop, vs, t, m) ==
  LET after[i \in 0 .. Len(vs)] == IF i = 0 THEN m ELSE drop[<<vs[i], t, after[i - 1]>>]
  IN  IF planForType[t].drop = "None" THEN m ELSE after[Len(vs)]

releaseArray(drop, id, m) ==
  IF m.heap[id].rc > 1 THEN Count(id, -1, m)
  ELSE Unalloc(id, DropAll(drop, m.heap[id].data, m.heap[id].el, m))

Dropped(drop, v, t, m) ==
  LET kind == planForType[t].drop
  IN  CASE kind = "FreeString" /\ v.tag = "string" -> releaseString(v.i, m)
        [] kind = "Release" /\ v.tag = "host" -> releaseHandle(v.i, m)
        [] kind \in {"FreeArray", "ElementWise"} /\ v.tag = "array" ->
             IF ~Is("array", v.i, m) THEN Break(m)
             ELSE IF kind = "FreeArray" THEN releaseArray(drop, v.i, m)
             ELSE DropAll(drop, m.heap[v.i].data, m.heap[v.i].el, m)
        [] OTHER -> m

\* A value, its type and the memory: what dropValue and copyValue are called with.
Arguments == Values \X AllTypes \X Memories
dropping[n \in Nat] ==
  [a \in Arguments |-> IF n = 0 THEN a[3] ELSE Dropped(dropping[n - 1], a[1], a[2], a[3])]
dropValue(v, t, m) == dropping[MaxNesting + 1][<<v, t, m>>]

----------------------------------------------------------------------------
(* copyValue and copyArray: the value and the memory with it.               *)

VM(v, m) == [v |-> v, m |-> m]
Full(m) == VM(Nil, [m EXCEPT !.full = TRUE])

\* Every element of src, into the array dst that has been allocated for it.
CopyInto(copy, dst, src, m) ==
  LET o == m.heap[src]
      after[i \in 0 .. Len(o.data)] ==
        IF i = 0 THEN VM(<< >>, m)
        ELSE LET before == after[i - 1]
                 r == copy[<<o.data[i], o.el, before.m>>]
             IN  VM(Append(before.v, r.v), r.m)
      all == after[Len(o.data)]
  IN  VM(Ref("array", dst), [all.m EXCEPT !.heap[dst].data = all.v])

ElementWise(copy, src, m) ==
  IF ~Room(m) THEN Full(m)
  ELSE CopyInto(copy, Fresh(m), src, allocFixedArray(m.heap[src].el, m))

\* One more reference to the array instead of an array of its own.
SharesArray(copy, src, m) == VM(Ref("array", src), Count(src, 1, m))

copyArray(copy, src, m) ==
  IF m.heap[src].fixed THEN ElementWise(copy, src, m)
  ELSE IF ~Room(m) THEN Full(m)
  ELSE LET dst == Fresh(m)
       IN  CopyInto(copy, dst, src, ensureCapacity(dst, Len(m.heap[src].data), allocArray(m.heap[src].el, m)))

CopyString(id, m) == IF ~Room(m) THEN Full(m)
                     ELSE VM(Ref("string", Fresh(m)), allocString(m.heap[id].bytes, m))

Copied(copy, v, t, m) ==
  LET kind == planForType[t].copy
  IN  IF v.tag \in RefTags /\ ~Is(v.tag, v.i, m) THEN VM(Nil, Break(m))
      ELSE CASE kind = "DeepCopyString" /\ v.tag = "string" -> CopyString(v.i, m)
             [] kind = "DeepCopyArray" /\ v.tag = "array" -> copyArray(copy, v.i, m)
             [] kind = "Retain" /\ v.tag = "host" -> VM(v, retainHandle(v.i, m))
             [] kind = "ElementWise" /\ v.tag = "array" -> ElementWise(copy, v.i, m)
             [] OTHER -> VM(v, m)

copying[n \in Nat] ==
  [a \in Arguments |-> IF n = 0 THEN VM(a[1], a[3]) ELSE Copied(copying[n - 1], a[1], a[2], a[3])]
copyValue(v, t, m) == copying[MaxNesting + 1][<<v, t, m>>]

----------------------------------------------------------------------------
(* Arrays.  *)

arrayAdd(a, v, m) ==
  LET grown == ensureCapacity(a, Len(m.heap[a].data) + 1, m)
  IN  IF m.heap[a].fixed \/ grown.stuck THEN grown ELSE [grown EXCEPT !.heap[a].data = Append(@, v)]

\* The elements after the i-th move down by one.
Without(s, i) == [j \in 1 .. Len(s) - 1 |-> IF j < i THEN s[j] ELSE s[j + 1]]
arrayRemove(a, i, m) ==
  LET o == m.heap[a]
  IN  IF o.fixed THEN m
      ELSE [dropValue(o.data[i], o.el, m) EXCEPT !.heap[a].data = Without(@, i)]

arrayClear(a, m) ==
  LET o == m.heap[a]
  IN  IF o.fixed THEN m ELSE [DropAll(dropping[MaxNesting + 1], o.data, o.el, m) EXCEPT !.heap[a].data = << >>]

arraySet(a, i, v, m) ==
  LET o == m.heap[a] IN [dropValue(o.data[i], o.el, m) EXCEPT !.heap[a].data[i] = v]

\* valueEqualsForType: strings by their bytes, handles by handleEquals (no
\* type of the host registers an equality), nil only to nil.
SameString(a, b, m) == a = b
stringEquals(a, b, m) == m.heap[a].bytes = m.heap[b].bytes
handleEquals(a, b, m) == a = b
valueEqualsForType(a, b, t, m) ==
  LET equal[u \in AllTypes] ==
        CASE u.k = "nullable" -> IF a.tag = "nil" \/ b.tag = "nil" THEN a.tag = b.tag ELSE equal[u.t]
          [] u.k = "string" -> a.tag = "string" /\ b.tag = "string" /\ stringEquals(a.i, b.i, m)
          [] u.k = "host" -> a.tag = "host" /\ b.tag = "host" /\ handleEquals(a.i, b.i, m)
          [] OTHER -> a.tag = "array" /\ b.tag = "array" /\ a.i = b.i
  IN  equal[t]

arrayContains(a, v, m) ==
  \E i \in DOMAIN m.heap[a].data : valueEqualsForType(m.heap[a].data[i], v, m.heap[a].el, m)

----------------------------------------------------------------------------
(* The host registers types and opens a view; it gives handles, with a      *)
(* payload of one of the types a registry finds by name.                    *)

Init == /\ slots = [x \in Vars |-> Free]
        /\ mem = [heap |-> [i \in Ids |-> NoObject], host |-> << >>,
                  broken |-> FALSE, stuck |-> FALSE, full |-> FALSE]
        /\ regs = [r \in {"root"} |-> NewRegistry]

RegisterType(r, n) == /\ CanRegister(regs, r, n) /\ Len(regs[r].names) < MaxNames
                      /\ regs' = Register(regs, r, n)
                      /\ UNCHANGED <<slots, mem>>

OpenView(r, names) == /\ r \in Registries \ DOMAIN regs
                      /\ regs' = scopedView([q \in DOMAIN regs \union {r} |-> IF q = r THEN NewRegistry ELSE regs[q]],
                                          r, "root", names)
                      /\ UNCHANGED <<slots, mem>>

Place(x, ty, r) == /\ ~r.m.full
                   /\ slots' = [slots EXCEPT ![x] = [ty |-> ty, v |-> r.v]]
                   /\ mem' = r.m
                   /\ UNCHANGED regs

\* The entry a name stands for: of the nearest registry that has it.
Owner(r, n) == IF n \in ToSet(regs[r].names) THEN r ELSE regs[r].parent
Payload(r, n, e) == [reg |-> r, ty |-> <<Owner(r, n), e[2]>>, releases |-> 0, by |-> {}]

allocHandle(x, r, n) ==
  LET e == find(regs, r, n)
      p == Len(mem.host) + 1
      h == [k |-> "host", rc |-> 1, reg |-> r, index |-> e[2], payload |-> p]
  IN  /\ slots[x] = Free /\ e # NoEntry
      /\ p <= MaxPayloads /\ Room(mem)
      /\ Place(x, Host, VM(Ref("host", Fresh(mem)),
                           Alloc(h, [mem EXCEPT !.host = Append(@, Payload(r, n, e))])))

----------------------------------------------------------------------------
(* The statements of the program.  *)

Running == ~mem.broken /\ ~mem.stuck
HasArray(x) == slots[x].v.tag = "array"
Array(x) == mem.heap[slots[x].v.i]
Data(x) == Array(x).data
ElementType(x) == Array(x).el
CopyOf(x) == copyValue(slots[x].v, slots[x].ty, mem)

MakeString(x, t, b) == /\ slots[x] = Free /\ planForType[t].copy = "DeepCopyString" /\ Room(mem)
                       /\ Place(x, t, VM(Ref("string", Fresh(mem)), allocString(b, mem)))
MakeNil(x, t) == slots[x] = Free /\ t.k = "nullable" /\ Place(x, t, VM(Nil, mem))
MakeArray(x, t) == /\ slots[x] = Free /\ t.k = "dyn" /\ Room(mem)
                   /\ Place(x, t, VM(Ref("array", Fresh(mem)), allocArray(t.el, mem)))

\* A fixed array literal whose elements are all y: each is a copy of y.
MakeFixed(x, y) ==
  LET a == Fresh(mem)
      filled[i \in 0 .. FixedLength] ==
        IF i = 0 THEN allocFixedArray(slots[y].ty, mem)
        ELSE LET r == copyValue(slots[y].v, slots[y].ty, filled[i - 1]) IN arraySet(a, i, r.v, r.m)
  IN  /\ slots[x] = Free /\ Fix(slots[y].ty) \in Types /\ Room(mem)
      /\ Place(x, Fix(slots[y].ty), VM(Ref("array", a), filled[FixedLength]))

\* A variable declared with another's value, and assigned it: the copy is
\* made before the old value is dropped.
Copy(x, y) == slots[x] # Free /\ slots[y] = Free /\ Place(y, slots[x].ty, CopyOf(x))
Assign(x, y) == /\ slots[x] # Free /\ slots[x].ty = slots[y].ty
                /\ LET r == CopyOf(x) IN Place(y, slots[x].ty, VM(r.v, dropValue(slots[y].v, slots[y].ty, r.m)))

Drop(x) == /\ slots[x] # Free
           /\ slots' = [slots EXCEPT ![x] = Free]
           /\ mem' = dropValue(slots[x].v, slots[x].ty, mem)
           /\ UNCHANGED regs

Read(x, i, y) == /\ HasArray(x) /\ slots[y] = Free /\ i \in DOMAIN Data(x)
                 /\ Place(y, ElementType(x), copyValue(Data(x)[i], ElementType(x), mem))

\* An array method: its memory, the variables stay as they are.
Change(x, m) == HasArray(x) /\ ~m.full /\ mem' = m /\ UNCHANGED <<slots, regs>>
Takes(x, y) == HasArray(x) /\ slots[y] # Free /\ slots[y].ty = ElementType(x)

Add(x, y) == /\ Takes(x, y) /\ ~Array(x).fixed /\ Len(Data(x)) < MaxLength
             /\ LET r == CopyOf(y) IN Change(x, arrayAdd(slots[x].v.i, r.v, r.m))
Set(x, i, y) == /\ Takes(x, y) /\ i \in DOMAIN Data(x)
                /\ LET r == CopyOf(y) IN Change(x, arraySet(slots[x].v.i, i, r.v, r.m))
RemoveElement(x, i) == HasArray(x) /\ i \in DOMAIN Data(x) /\ Change(x, arrayRemove(slots[x].v.i, i, mem))
Clear(x) == HasArray(x) /\ Data(x) # << >> /\ Change(x, arrayClear(slots[x].v.i, mem))

Next ==
  /\ Running
  /\ \/ \E r \in DOMAIN regs, n \in Names : RegisterType(r, n)
     \/ \E r \in Registries, names \in Visible : OpenView(r, names)
     \/ \E x \in Vars :
          \/ \E r \in DOMAIN regs, n \in Names : allocHandle(x, r, n)
          \/ \E t \in Types, b \in Bytes : MakeString(x, t, b)
          \/ \E t \in Types : MakeNil(x, t) \/ MakeArray(x, t)
          \/ Drop(x)
          \/ Clear(x)
          \/ \E i \in 1 .. MaxLength : RemoveElement(x, i)
          \/ \E y \in Vars : \/ MakeFixed(x, y)
                             \/ Copy(x, y)
                             \/ Assign(x, y)
                             \/ Add(x, y)
                             \/ \E i \in 1 .. MaxLength : Read(x, i, y) \/ Set(x, i, y)

Spec == Init /\ [][Next]_vars

----------------------------------------------------------------------------
(* Properties *)

\* What the program can reach: the objects of variables, and their elements'.
IsRef(v) == v.tag \in RefTags
Elements(id) == IF mem.heap[id].k = "array" THEN mem.heap[id].data ELSE << >>
Referred(id) == {v.i : v \in {w \in ToSet(Elements(id)) : IsRef(w)}}
Roots == {slots[x].v.i : x \in {y \in Vars : IsRef(slots[y].v)}}
Reached(roots) ==
  LET closed == {S \in SUBSET Ids : roots \subseteq S /\ \A id \in S : Referred(id) \subseteq S}
  IN  {id \in Ids : \A S \in closed : id \in S}
Held == Reached(Roots)
Allocated == {id \in Ids : Live(id, mem)}

\* The places an object is held in: variables, and elements of the arrays in held.
Owners(id, held) ==
  {<<x, 0>> : x \in {y \in Vars : IsRef(slots[y].v) /\ slots[y].v.i = id}}
    \union {e \in held \X (1 .. MaxLength + FixedLength) :
               e[2] \in DOMAIN Elements(e[1]) /\ IsRef(Elements(e[1])[e[2]]) /\ Elements(e[1])[e[2]].i = id}

CountsMatch(held) ==
  /\ held \subseteq Allocated
  /\ \A id \in held :
       /\ mem.heap[id].rc = Cardinality(Owners(id, held))
       /\ mem.heap[id].k = "host" \/ mem.heap[id].rc = 1
  /\ \A id \in Allocated \ held : mem.heap[id].k = "array" /\ mem.heap[id].fixed

(* The count of an object is the number of places that hold it, one for a   *)
(* string or an array; no place holds an object that has been freed, no     *)
(* call uses one, and one that nothing holds any more has been freed, but   *)
(* for the fixed arrays, of which dropValue drops the elements only (retain *)
(* and release, copyValue and dropValue).  A call that does not end has no  *)
(* state after it to speak of.                                              *)
RefsMatchOwners == ~mem.stuck => ~mem.broken /\ CountsMatch(Held)

(* The host's release callback runs once for a payload, when the last value *)
(* that holds it goes; and unless a view has types of its own, every        *)
(* callback is one of the type the payload was given as, whatever types are *)
(* registered while the handle lives.                                       *)
Wrapped(p) == \E id \in Allocated : mem.heap[id].k = "host" /\ mem.heap[id].payload = p
ReleasedByItsType ==
  \A p \in DOMAIN mem.host :
     LET h == mem.host[p]
     IN  /\ h.releases = IF Wrapped(p) THEN 0 ELSE 1
         /\ (h.reg = "root" \/ regs[h.reg].names = << >>) => h.by \subseteq {h.ty}

(* The doubling of an array's capacity fails to end only when the array     *)
(* already has half of the lengths a uint32_t can name.                     *)
GrowsToHalf ==
  /\ mem.stuck => \E id \in Allocated : mem.heap[id].k = "array" /\ 2 * Len(mem.heap[id].data) >= CapMod
  /\ \A id \in Allocated : mem.heap[id].k = "array" => Len(mem.heap[id].data) <= mem.heap[id].cap

(* What a variable's value is to the program.  *)
TreeOver(v, els, m) ==
  CASE ~IsRef(v) -> <<v.tag, v.i>>
    [] IsRef(v) /\ Is("string", v.i, m) -> <<"str", m.heap[v.i].bytes>>
    [] IsRef(v) /\ Is("host", v.i, m) -> <<"host", m.heap[v.i].payload>>
    [] IsRef(v) /\ Is("array", v.i, m) -> <<"arr", els>>
    [] OTHER -> <<"gone", 0>>
TreesIn(m) ==
  LET trees[n \in Nat] ==
        [v \in Values |->
           TreeOver(v, IF n = 0 THEN << >> ELSE [i \in DOMAIN m.heap[v.i].data |-> trees[n - 1][m.heap[v.i].data[i]]], m)]
  IN  trees
Tree == TreesIn(mem)[MaxNesting + 1]

(* CONTAINS asks whether x, an array, has an element equal to y, and the    *)
(* answer is the one that the trees give.                                   *)
Comparable(x, y) == /\ ~mem.broken /\ ~mem.stuck /\ HasArray(x)
                    /\ slots[y] # Free /\ slots[y].ty = ElementType(x)
ContainsTree(x, y) == arrayContains(slots[x].v.i, slots[y].v, mem) <=>
                      Tree[slots[y].v] \in {Tree[e] : e \in ToSet(Elements(slots[x].v.i))}

(* An array of strings contains a value when one of its elements has the    *)
(* same content, an array of handles when one has the same payload, in      *)
(* whichever object a copy has put it (arrayContains).                      *)
ContainsByValue ==
  \A x, y \in Vars :
     Comparable(x, y) /\ planForType[slots[y].ty].drop \in {"FreeString", "Release"}
       => ContainsTree(x, y)

(* Arrays are equal when they have the "same length, each element equal"    *)
(* (LucidGrammar.md:957), so an array in an array should be found like any  *)
(* other element.  The code differs: it asks for the same object, which an  *)
(* element never is (Array.cpp:166-172).                                    *)
ContainsStructurally == \A x, y \in Vars : Comparable(x, y) => ContainsTree(x, y)

(* Every variable has a value of its own: what is done to one shows in no   *)
(* other, although handles are shared and copies are made call by call.     *)
Seen == [x \in Vars |-> IF slots[x] = Free THEN <<"free", 0>> ELSE Tree[slots[x].v]]
Store == INSTANCE ValueStore WITH Free <- <<"free", 0>>, val <- Seen
ImplementsValueStore == Store!Spec
=============================================================================
