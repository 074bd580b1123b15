------------------------- MODULE RuntimeValuesInvariant -------------------------
(****************************************************************************)
(* The invariant RVInv of RuntimeValues: it says where every value is, in a *)
(* variable or in an element of an array.  An operation takes apart what it *)
(* works on, as if it had some arrays to itself and a value in its hand,    *)
(* and Sound says what holds between any two of its steps.                  *)
(*                                                                          *)
(* The other definitions say what the parts of an operation do to that, and *)
(* to the values as ValueStore has them.  RuntimeValuesLemmas and           *)
(* RuntimeValuesProofs have the lemmas and the theorems.                    *)
(****************************************************************************)
EXTENDS RuntimeValues

-----------------------------------------------------------------------------
(* Recursion *)

\* The first n values of a recursion from x.
Partial(n, S, x, step) ==
  {g \in [0 .. n -> S] : g[0] = x /\ \A k \in 0 .. n - 1 : g[k + 1] = step[k][g[k]]}

\* All of them.
Follows(f, S, x, step) ==
  f \in [Nat -> S] /\ f[0] = x /\ \A n \in Nat : f[n + 1] = step[n][f[n]]

\* The set of types with one level more.
Deeper(ts) == ts \union {Dyn(t) : t \in ts} \union {Fix(t) : t \in ts} \union {Maybe(t) : t \in ts}

\* g has the types of the first levels.
Levels(n, g) == /\ g[0] = {Str, Host}
                /\ \A k \in 0 .. n - 1 : g[k + 1] = Deeper(g[k])

\* A type of n levels and the one it is made of.
Made(t, n) ==
  \/ t.k \in {"string", "host"}
  \/ n > 0 /\ t.k = "nullable" /\ t.t \in TypesTo[n - 1]
  \/ n > 0 /\ t.k \in {"dyn", "fix"} /\ t.el \in TypesTo[n - 1]

\* A recursion over the types, through those of nullable types and fixed arrays.
Recurs(g, ts, base, step) ==
  \A t \in ts : g[t] = IF t.k = "nullable" THEN step[t][g[t.t]]
                       ELSE IF t.k = "fix" THEN step[t][g[t.el]] ELSE base[t]

\* The plans of the types: what a value of one holds.
Plans == {Plan("DeepCopyString", "FreeString"), Plan("Retain", "Release"),
          Plan("DeepCopyArray", "FreeArray"), Plan("ElementWise", "ElementWise")}

-----------------------------------------------------------------------------
(* Registries                                                              *)

RegistryRecords == [names : Seq(Names), parent : {"", "root"}, visible : {{}} \union Visible]

\* The root and views of it.
RegsOK ==
  /\ "root" \in DOMAIN regs /\ DOMAIN regs \subseteq Registries
  /\ regs \in [DOMAIN regs -> RegistryRecords]
  /\ \A r \in DOMAIN regs : regs[r].parent = IF r = "root" THEN "" ELSE "root"

\* What the lookups find: in the registry or in the root.
Entry(r, i) == IF i \in DOMAIN regs[r].names THEN <<r, i>>
               ELSE IF i \in DOMAIN regs["root"].names THEN <<"root", i>> ELSE NoEntry

-----------------------------------------------------------------------------
(* Memories                                                                *)

\* The object id of m is o now.
Put(m, id, o) == [m EXCEPT !.heap[id] = o]

-----------------------------------------------------------------------------
(* Capacities                                                              *)

\* The capacities that doubling goes through.
Caps == CHOOSE caps \in SUBSET (1 .. CapMod - 1) :
          InitialCapacity \in caps /\ \A c \in caps : 2 * c \in caps \union {CapMod}

\* A capacity of an array that grows.
Capacities == Caps \union {0}

-----------------------------------------------------------------------------
(* Places                                                                  *)

\* Where a value can be: a variable <<x, 0>>, the i-th element <<id, i>> of an
\* array, or <<0, 1>>, the hand of the operation that has a value in no place yet.
Big == MaxLength + FixedLength
Places == (Vars \X {0}) \union ((0 .. MaxObjects) \X (1 .. Big))
Hand == << 0, 1 >>
Contents == {Free} \union {c \in [ty : AllTypes, v : Values] : IsRef(c.v) \/ (c.v = Nil /\ c.ty.k = "nullable")}

\* The places that hold the object id, and the objects that a place holds.
At(W, id) == {p \in Places : IsRef(W[p].v) /\ W[p].v.i = id}
Named(W) == {id \in Ids : At(W, id) # {}}

\* The places that an operation may write when it has the arrays in O to itself.
Open(O) == {p \in Places : p[2] = 0 \/ p[1] \in O \union {0}}

\* Elements of type el nest less deep than t does.
Under(el, t) == \A n \in Nat : t \in TypesTo[n] => n > 0 /\ el \in TypesTo[n - 1]

\* What a place holds is an object of the kind that its type's plan is for.
DropOf(o) == CASE o.k = "string" -> "FreeString"
               [] o.k = "host" -> "Release"
               [] o.k = "array" -> IF o.fixed THEN "ElementWise" ELSE "FreeArray"
               [] OTHER -> "None"
Fits(c, m) ==
  IsRef(c.v) => LET o == m.heap[c.v.i]
                IN  /\ o.k = c.v.tag
                    /\ planForType[c.ty].drop = DropOf(o)
                    /\ o.k = "array" => Under(o.el, c.ty)

Sizes(o) ==
  o.k = "array" => /\ Len(o.data) <= o.cap
                   /\ o.fixed => Len(o.data) = FixedLength
                   /\ ~o.fixed => o.cap \in Capacities /\ Len(o.data) <= MaxLength

\* The element places of an object that a place holds are those of its data.
Element(o, i) == IF o.k = "array" /\ i \in DOMAIN o.data THEN [ty |-> o.el, v |-> o.data[i]] ELSE Free

\* An array to itself is in no place; an object in a place has its count; and
\* what is in no place is free, or a fixed array that has been dropped.
Keeps(m, O, W, id) ==
  LET o == m.heap[id]
  IN  /\ id \in O => o.k = "array" /\ o.rc = 1 /\ At(W, id) = {}
      /\ At(W, id) # {} => /\ o.rc = Cardinality(At(W, id)) /\ (o.k = "host" \/ o.rc = 1)
                           /\ \A i \in 1 .. Big : W[<<id, i>>] = Element(o, i)
      /\ id \notin O /\ At(W, id) = {} => /\ o = NoObject \/ (o.k = "array" /\ o.fixed)
                                          /\ \A i \in 1 .. Big : W[<<id, i>>] = Free
      /\ Sizes(o)

\* A handle keeps a payload that is not released yet, and finds the entry it
\* was given as when its registry has no types of its own.
Plain(r) == r = "root" \/ regs[r].names = << >>
HandleOK(h, host) ==
  /\ h.payload \in DOMAIN host /\ h.reg = host[h.payload].reg
  /\ Entry(h.reg, h.index) # NoEntry
  /\ Plain(h.reg) => Entry(h.reg, h.index) = host[h.payload].ty
Holds(m, p) == {id \in Ids : m.heap[id].k = "host" /\ m.heap[id].payload = p}
Hosted(m) ==
  /\ \A id \in Ids : m.heap[id].k = "host" => HandleOK(m.heap[id], m.host)
  /\ \A id, j \in Ids : m.heap[id].k = "host" /\ m.heap[j].k = "host" /\ m.heap[id].payload = m.heap[j].payload => id = j
  /\ \A p \in DOMAIN m.host : /\ m.host[p].releases = IF Holds(m, p) # {} THEN 0 ELSE 1
                              /\ m.host[p].reg \in DOMAIN regs
                              /\ Plain(m.host[p].reg) => m.host[p].by \subseteq {m.host[p].ty}

\* The invariant of an operation: m is the memory, O the arrays it has to itself.
Sound(m, O, W) ==
  /\ m \in Memories /\ O \subseteq Ids /\ W \in [Places -> Contents] /\ ~m.broken
  /\ \A p \in Places : Fits(W[p], m)
  /\ \A id \in Ids : Keeps(m, O, W, id)
  /\ Hosted(m)

\* An operation that changes the objects in E only, and places that hold these
\* before and after or are elements of them.
Local(m, O, W, m1, O1, W1, E) ==
  /\ \A j \in Ids \ E : m1.heap[j] = m.heap[j] /\ (j \in O1 <=> j \in O)
  /\ \A q \in Places : \/ W1[q] = W[q]
                       \/ /\ q \in Open(O \union E)
                          /\ IsRef(W[q].v) => W[q].v.i \in E
                          /\ IsRef(W1[q].v) => W1[q].v.i \in E
  /\ \A q \in Places : IsRef(W1[q].v) /\ W1[q].v.i \in E => Fits(W1[q], m1)
  /\ \A id \in E : Keeps(m1, O1, W1, id)

-----------------------------------------------------------------------------
(* The steps of operations                                                 *)

\* The objects id of two memories are one handle, perhaps counted otherwise.
SameHandle(h, h1) == h1.k = h.k /\ h1.payload = h.payload /\ h1.reg = h.reg /\ h1.index = h.index

\* The memory r is m with the object o.
IsPut(r, m, id, o) ==
  /\ r \in Memories /\ r.host = m.host /\ r.broken = m.broken /\ r.stuck = m.stuck /\ r.full = m.full
  /\ r.heap = [m.heap EXCEPT ![id] = o] /\ r.heap[id] = o
  /\ \A j \in Ids : j # id => r.heap[j] = m.heap[j]

-----------------------------------------------------------------------------
(* dropValue as a function                                                 *)

\* Something done n times, from x on.
Iterates(g, S, n, x, step) == g \in [0 .. n -> S] /\ g[0] = x /\ \A i \in 1 .. n : g[i] = step[i][g[i - 1]]

\* Two objects that say the same.
Alike(o, o1) == /\ o1.k = o.k
                /\ o.k = "string" => o1.bytes = o.bytes
                /\ o.k = "host" => o1.payload = o.payload
                /\ o.k = "array" => o1.data = o.data

\* What a drop leaves says what it did before.
Shrinks(m, m1) == \A id \in Ids : m1.heap[id].k # "free" => Alike(m.heap[id], m1.heap[id])

\* What dropValue is at every level: it leaves the flags and what is left as they are.
DropFns == {d \in [Arguments -> Memories] :
              \A a \in Arguments : d[a].full = a[3].full /\ d[a].stuck = a[3].stuck /\ Shrinks(a[3], d[a])}

\* The memories a list of drops goes through.
DropsAll(g, d, vs, t, m) ==
  /\ g \in [0 .. Len(vs) -> Memories]
  /\ g[0] = m /\ \A i \in 1 .. Len(vs) : g[i] = d[<<vs[i], t, g[i - 1]>>]
  /\ DropAll(d, vs, t, m) = g[Len(vs)]

\* What the functions of one object give.
Lessens(m, r) == r \in Memories /\ r.full = m.full /\ r.stuck = m.stuck /\ Shrinks(m, r)

-----------------------------------------------------------------------------
(* copyValue as a function                                                 *)

\* A copy changes no string and no array, no handle but in its count, and stays full.
Keeping(m, m1) == /\ \A id \in Ids : m.heap[id].k \in {"string", "array"} => m1.heap[id] = m.heap[id]
                  /\ \A id \in Ids : m.heap[id].k = "host" => SameHandle(m.heap[id], m1.heap[id])
                  /\ m.full => m1.full
VMs == [v : Values, m : Memories]
CopyFns == {c \in [Arguments -> VMs] : \A a \in Arguments : Keeping(a[3], c[a].m)}

\* The values of a copied array so far, and the memory.
Parts == [v : Seq(Values), m : Memories]

\* The elements one after the other.
Collects(g, c, o, m) ==
  /\ g \in [0 .. Len(o.data) -> Parts] /\ g[0] = VM(<< >>, m)
  /\ \A i \in 1 .. Len(o.data) : LET r == c[<<o.data[i], o.el, g[i - 1].m>>]
                                 IN  g[i] = VM(Append(g[i - 1].v, r.v), r.m)

\* The array dst with the elements that were collected.
IntoArray(g, c, o, m, dst, r) ==
  /\ Collects(g, c, o, m)
  /\ r = VM(Ref("array", dst), [g[Len(o.data)].m EXCEPT !.heap[dst].data = g[Len(o.data)].v])

\* A memory that is m but for the array dst.
Beside(m, r, dst) ==
  /\ r \in Memories /\ (m.full => r.full)
  /\ \A id \in Ids \ {dst} : m.heap[id].k \in {"string", "array"} => r.heap[id] = m.heap[id]
  /\ \A id \in Ids \ {dst} : m.heap[id].k = "host" => SameHandle(m.heap[id], r.heap[id])

-----------------------------------------------------------------------------
(* What a count and a callback do to the host's part                       *)

\* The host's part after a callback for the handle id: the counts of the others
\* and what is known of each payload are as before.
HostCalled(m, m1, h, n) ==
  /\ DOMAIN m1.host = DOMAIN m.host /\ h.payload \in DOMAIN m.host
  /\ m1.host[h.payload] = Called(m.host[h.payload], n, Entry(h.reg, h.index))
  /\ \A p \in DOMAIN m.host : p # h.payload => m1.host[p] = m.host[p]

-----------------------------------------------------------------------------
(* Dropping a value                                                        *)

\* The place p is empty, the other places that may be written are as before,
\* and so are the operation's own arrays.
Emptied(m, O, W, p, m1, W1) ==
  /\ Sound(m1, O, W1) /\ W1[p] = Free
  /\ \A q \in Open(O) : q # p => W1[q] = W[q]
  /\ \A id \in O : m1.heap[id] = m.heap[id]

\* What d does to the value in any place, when its type is one of T.
DropOk(d, T) ==
  \A m \in Memories, O \in SUBSET Ids, W \in [Places -> Contents], p \in Places :
     Sound(m, O, W) /\ p \in Open(O) /\ W[p] # Free /\ W[p].ty \in T
       => \E W1 : Emptied(m, O, W, p, d[<<W[p].v, W[p].ty, m>>], W1)

\* The first k elements of the array a are gone.
AllEmptied(m, O, W, a, k, m1, W1) ==
  /\ Sound(m1, O, W1)
  /\ \A i \in 1 .. k : W1[<<a, i>>] = Free
  /\ \A q \in Open(O) : (\A i \in 1 .. k : q # <<a, i>>) => W1[q] = W[q]
  /\ \A id \in O : m1.heap[id] = m.heap[id]

-----------------------------------------------------------------------------
(* One level of dropValue                                                  *)

\* Types that are made of types of T.
Above(U, T) == \A t \in U : \A el : Under(el, t) => el \in T

-----------------------------------------------------------------------------
(* The trees of values                                                     *)

\* The trees of no depth, and those that are one level deeper than others.
Bare(m) == [v \in Values |-> TreeOver(v, << >>, m)]
Taller(m, ts) == [v \in Values |-> TreeOver(v, [i \in DOMAIN m.heap[v.i].data |-> ts[m.heap[v.i].data[i]]], m)]
Forest(n, g, m) == g[0] = Bare(m) /\ \A k \in 0 .. n - 1 : g[k + 1] = Taller(m, g[k])

\* An element of an array in a place is in a place.
ElementIn(m, W, id, i) ==
  /\ i \in 1 .. Big /\ <<id, i>> \in Places /\ W[<<id, i>>] # Free
  /\ W[<<id, i>>] = [ty |-> m.heap[id].el, v |-> m.heap[id].data[i]]
  /\ m.heap[id].data[i] \in Values

\* The places in P hold the same in m1 as in m, and so do their elements.
Unchanged(m, m1, W, P) ==
  \A p \in P : IsRef(W[p].v) => /\ Alike(m.heap[W[p].v.i], m1.heap[W[p].v.i])
                                /\ \A i \in 1 .. Big : <<W[p].v.i, i>> \in P

\* A value in a memory has the tree that another has in another.
Twins(m, v, m1, w) == \A n \in Nat : TreesIn(m1)[n][w] = TreesIn(m)[n][v]

-----------------------------------------------------------------------------
(* Copying a value                                                         *)

\* The copy of the value in p is in q and has its tree; what held something does
\* still, and the other places that may be written are as before.
CopiedTo(m, O, W, p, q, r, W1) ==
  /\ Sound(r.m, O, W1) /\ r.m.stuck = m.stuck
  /\ W1[q] = [ty |-> W[p].ty, v |-> r.v] /\ Twins(m, W[p].v, r.m, r.v)
  /\ \A s \in Places : s # q /\ (W[s] # Free \/ s \in Open(O)) => W1[s] = W[s]

\* What c does to the value in any place, when its type is one of T.
CopyOk(c, T) ==
  \A m \in Memories, O \in SUBSET Ids, W \in [Places -> Contents], p \in Places, q \in Places :
     Sound(m, O, W) /\ W[p] # Free /\ W[p].ty \in T /\ q \in Open(O) /\ W[q] = Free
       => LET r == c[<<W[p].v, W[p].ty, m>>] IN r.m.full \/ \E W1 : CopiedTo(m, O, W, p, q, r, W1)

\* The first k elements of the array dst are copies of those of the object o.
AllCopied(m, O, W, dst, o, k, r, W1) ==
  /\ Sound(r.m, O, W1) /\ r.m.stuck = m.stuck
  /\ \A i \in 1 .. k : W1[<<dst, i>>] = [ty |-> o.el, v |-> r.v[i]] /\ Twins(m, o.data[i], r.m, r.v[i])
  /\ \A s \in Places : (\A i \in 1 .. k : s # <<dst, i>>) /\ (W[s] # Free \/ s \in Open(O)) => W1[s] = W[s]

\* The array f is ready to become a copy of o.
Ready(b, o) ==
  /\ b.k = "array" /\ b.el = o.el /\ b.fixed = o.fixed /\ b.cap >= Len(o.data)
  /\ ~o.fixed => b.cap \in Capacities

\* The type t holds arrays like o.
ArrayType(t, o) == t \in AllTypes /\ planForType[t].drop = DropOf(o) /\ Under(o.el, t)

\* The value of r is in q now, as one of type t, and has the tree of the array src.
Filled(m, O, W, q, t, src, r, W1) ==
  /\ Sound(r.m, O, W1) /\ r.m.stuck = m.stuck /\ Twins(m, Ref("array", src), r.m, r.v)
  /\ W1[q] = [ty |-> t, v |-> r.v]
  /\ \A s \in Places : s # q /\ (W[s] # Free \/ s \in Open(O)) => W1[s] = W[s]

-----------------------------------------------------------------------------
(* One level of copyValue                                                  *)

\* m1 is m with an array f that can take the elements of src.
Prepared(m, O, W, f, src, m1) ==
  /\ Sound(m1, O \union {f}, W) /\ m1.stuck = m.stuck
  /\ \A j \in Ids : j # f => m1.heap[j] = m.heap[j]
  /\ m1.heap[src] = m.heap[src] /\ Ready(m1.heap[f], m.heap[src])

-----------------------------------------------------------------------------
(* More names and views                                                    *)

\* What there was is there, and is found by what it was found by.
Grown ==
  /\ DOMAIN regs \subseteq DOMAIN regs'
  /\ \A r \in DOMAIN regs : Plain(r)' => Plain(r)
  /\ \A r \in DOMAIN regs : \A i :
       Entry(r, i) # NoEntry => Entry(r, i)' # NoEntry /\ (Plain(r)' => Entry(r, i)' = Entry(r, i))

-----------------------------------------------------------------------------
(* The invariant of the program                                            *)

\* W says where the values are: of the variables where slots has them, and
\* none is left in the hand unless a call does not end.
Shows(s, m, W) ==
  /\ Sound(m, {}, W)
  /\ \A x \in Vars : W[<<x, 0>>] = s[x]
  /\ ~m.stuck => \A j \in 1 .. Big : W[<<0, j>>] = Free

\* Some array has half of the lengths there are.
HalfFull(m) == \E id \in Ids : m.heap[id].k = "array" /\ 2 * Len(m.heap[id].data) >= CapMod

Right(s, m) ==
  /\ s \in [Vars -> Contents] /\ ~m.full
  /\ m.stuck => HalfFull(m)
  /\ \E W : Shows(s, m, W)

RVInv == RegsOK /\ Right(slots, mem)

\* The variable x holds c after an operation.
Puts(W, x, c, m1, W1) ==
  /\ ~m1.full /\ ~m1.stuck /\ Sound(m1, {}, W1) /\ W1[<<x, 0>>] = c
  /\ \A p \in Open({}) : p # <<x, 0>> => W1[p] = W[p]

-----------------------------------------------------------------------------
(* copyValue and dropValue in a statement                                  *)

\* The variable x has the array a.
HasIt(m, x, a) ==
  /\ a \in Ids /\ m.heap[a].k = "array" /\ IsRef(slots[x].v) /\ slots[x].ty \in AllTypes
  /\ slots[x] = [ty |-> slots[x].ty, v |-> Ref("array", a)]
  /\ planForType[slots[x].ty].drop = DropOf(m.heap[a]) /\ Under(m.heap[a].el, slots[x].ty)
  /\ m.heap[a].rc = 1

\* A handle and a payload for it.
NewHandle(m, m1, f, h, pl) ==
  /\ m1.heap[f] = h /\ \A j \in Ids : j # f => m1.heap[j] = m.heap[j]
  /\ m1.host = Append(m.host, pl)
  /\ h.k = "host" /\ h.payload = Len(m.host) + 1

-----------------------------------------------------------------------------
(* The methods of arrays                                                   *)

\* A method has the array a of the variable x to itself, and perhaps a value
\* in the hand.
Within(W, x, a, m, W1) ==
  /\ Sound(m, {a}, W1) /\ W1[<<x, 0>>] = Free
  /\ \A p \in Open({}) : p # <<x, 0>> /\ p # Hand => W1[p] = W[p]
  /\ \A i \in 1 .. Big : W1[<<a, i>>] = Element(m.heap[a], i)

Taken(W, x, a, m, c, W1) == Within(W, x, a, m, W1) /\ W1[Hand] = c

\* Other data in an array of the operation.
Rewritten(m, a, W, vs, m1) ==
  /\ Sound(m1, {a}, W) /\ m1.full = m.full /\ m1.stuck = m.stuck
  /\ m1.heap[a].data = vs /\ m1.heap[a].el = m.heap[a].el /\ m1.heap[a].fixed = m.heap[a].fixed
  /\ m1.heap[a].k = "array" /\ m1.heap[a].cap = m.heap[a].cap
  /\ \A j \in Ids : j # a => m1.heap[j] = m.heap[j]

\* The i-th element of the operation's array a is what was in the hand.
ElementSet(a, i, v, m, W, m1, W1) ==
  /\ Sound(m1, {a}, W1) /\ m1.full = m.full /\ m1.stuck = m.stuck /\ W1[Hand] = Free
  /\ m1.heap[a].k = "array" /\ m1.heap[a].el = m.heap[a].el /\ m1.heap[a].fixed = m.heap[a].fixed
  /\ m1.heap[a].data = [m.heap[a].data EXCEPT ![i] = v]
  /\ \A j \in 1 .. Big : W1[<<a, j>>] = Element(m1.heap[a], j)
  /\ \A p \in Open({}) : p # Hand => W1[p] = W[p]

\* An array that is within a method.
Method(W, x, a, m, c, W1) ==
  /\ Sound(m, {a}, W1) /\ W1[<<x, 0>>] = Free /\ W1[Hand] = c /\ a \in Ids /\ m \in Memories
  /\ W1 \in [Places -> Contents]
  /\ m.heap[a].k = "array" /\ m.heap[a].rc = 1 /\ m.heap[a] \in Arrays /\ Sizes(m.heap[a])
  /\ \A p \in Open({}) : p # <<x, 0>> /\ p # Hand => W1[p] = W[p]
  /\ \A i \in 1 .. Big : W1[<<a, i>>] = Element(m.heap[a], i)

\* A sequence without its i-th element.
WithoutIt(s, i, t, n) ==
  /\ Len(t) = n - 1 /\ DOMAIN t = 1 .. n - 1
  /\ \A j \in 1 .. n - 1 : t[j] = IF j < i THEN s[j] ELSE s[j + 1]

\* The elements of a from the i-th on have moved down as far as the h-th.
Hole(a, i, h, m, W, V) ==
  /\ Sound(m, {a}, V) /\ V[<<a, h>>] = Free
  /\ \A j \in 1 .. Big : j < i \/ j > h => V[<<a, j>>] = W[<<a, j>>]
  /\ \A j \in 1 .. Big : i <= j /\ j < h => V[<<a, j>>] = W[<<a, j + 1>>]
  /\ \A q \in Open({}) : V[q] = W[q]

\* An array of the operation with room for one element more.
Roomier(m, a, W, g) ==
  /\ Sound(g, {a}, W) /\ g.full = m.full /\ g.stuck = m.stuck
  /\ g.heap[a].k = "array" /\ m.heap[a].k = "array" /\ g.heap[a].data = m.heap[a].data /\ g.heap[a].el = m.heap[a].el
  /\ ~g.heap[a].fixed /\ g.heap[a].cap >= Len(m.heap[a].data) + 1

\* ensureCapacity before an element is added.
NotEnough(m, a, g) == g = [m EXCEPT !.stuck = TRUE] /\ 2 * Len(m.heap[a].data) >= CapMod

\* The array a has one element more: what was in the hand.
OneMore(a, v, m, W, m1, W1) ==
  /\ Sound(m1, {a}, W1) /\ m1.full = m.full /\ m1.stuck = m.stuck /\ W1[Hand] = Free
  /\ m1.heap[a].k = "array" /\ m1.heap[a].el = m.heap[a].el /\ m1.heap[a].fixed = m.heap[a].fixed
  /\ \A j \in 1 .. Big : W1[<<a, j>>] = Element(m1.heap[a], j)
  /\ \A p \in Open({}) : p # Hand => W1[p] = W[p]

\* What arraySet writes where nothing was yet: r is the copy.
Given(m, a, i, r, m1) ==
  /\ r \in VMs /\ r.v \in Values /\ r.m \in Memories /\ m1 \in Memories /\ m1.full = r.m.full /\ (m.full => r.m.full)
  /\ r.m.heap[a] = m.heap[a]
  /\ m1 = [r.m EXCEPT !.heap[a].data = [m.heap[a].data EXCEPT ![i] = r.v]]
  /\ m1.heap[a].data = [m.heap[a].data EXCEPT ![i] = r.v]
  /\ m1.heap[a] \in Arrays /\ m1.heap[a].el = m.heap[a].el /\ m1.heap[a].fixed = m.heap[a].fixed
  /\ m1.heap[a].cap = m.heap[a].cap /\ m1.heap[a].k = "array"

\* The copy of what is in p is the i-th element of a.
Filling(m, W, a, i, c, m1, W1) ==
  /\ Sound(m1, {a}, W1) /\ m1.stuck = m.stuck /\ W1[<<a, i>>] = c
  /\ \A s \in Places : s # <<a, i>> /\ (W[s] # Free \/ s \in Open({a})) => W1[s] = W[s]

\* The two elements of a fixed array literal one after the other.
FillsTwo(x, y, a, t, m0, r1, m1, r2, m2) ==
  /\ m0 = allocFixedArray(t, mem)
  /\ r1 = copyValue(slots[y].v, t, m0) /\ m1 = arraySet(a, 1, r1.v, r1.m)
  /\ r2 = copyValue(slots[y].v, t, m1) /\ m2 = arraySet(a, 2, r2.v, r2.m)
  /\ slots[x] = Free /\ Fix(t) \in Types /\ Room(mem)
  /\ Place(x, Fix(t), VM(Ref("array", a), m2))

-----------------------------------------------------------------------------
(* What the program reaches                                                *)

\* The set of the objects of variables and of what their elements refer to.
Closed(S) == S \in SUBSET Ids /\ Roots \subseteq S /\ \A id \in S : Referred(id) \subseteq S

\* W shows the values, and every call ended.
Showing(W) ==
  /\ Sound(mem, {}, W) /\ \A x \in Vars : W[<<x, 0>>] = slots[x]
  /\ \A j \in 1 .. Big : W[<<0, j>>] = Free

\* The place p is a variable, or an element of an array that a place refers to.
InVariable(W, p) == \E x \in Vars : p = <<x, 0>> /\ W[p] = slots[x]
InArray(W, p) == \E a \in Ids, i \in 1 .. Big :
  /\ p = <<a, i>> /\ At(W, a) # {} /\ mem.heap[a].k = "array" /\ i \in DOMAIN mem.heap[a].data
  /\ W[p] = [ty |-> mem.heap[a].el, v |-> mem.heap[a].data[i]]

\* An element of an object in a place is in a place.
Placed(W, a, i) == /\ i \in 1 .. Big /\ <<a, i>> \in Places
                   /\ W[<<a, i>>] = [ty |-> mem.heap[a].el, v |-> Elements(a)[i]]

\* The places with a reference to an object that is not in S.
Beyond(W, S) == {p \in Places : IsRef(W[p].v) /\ W[p].v.i \notin S}

-----------------------------------------------------------------------------
(* What the program sees                                                   *)

\* The values of the variables, as ValueStore has them.
NoValue == <<"free", 0>>
TreeAt(m, v) == TreesIn(m)[MaxNesting + 1][v]
Vals(s, m) == [x \in Vars |-> IF s[x] = Free THEN NoValue ELSE TreeAt(m, s[x].v)]
Els(m, a) == [i \in DOMAIN m.heap[a].data |-> TreeAt(m, m.heap[a].data[i])]

\* What the variable x has been given, and what the others keep.
Apart(s, m, s1, m1, x) == \A z \in Vars : z # x => s1[z] = s[z] /\ (s[z] # Free => Twins(m, s[z].v, m1, s[z].v))
Becomes(s, m, s1, m1, x) == Vals(s1, m1) = [Vals(s, m) EXCEPT ![x] = Vals(s1, m1)[x]]

\* The variable x has the tree c after a step, the others have what they had.
Into(x, c) == Vals(slots', mem') = [Vals(slots, mem) EXCEPT ![x] = c]
Initializes(x) == Vals(slots, mem)[x] = NoValue /\ \E c : Into(x, c)

\* What is done to an object that was free before changes none.
Aside(m, m1, a) == \A j \in Ids : j # a => m1.heap[j] = m.heap[j]

\* An operation on the array a: what it leaves is as it was in m.
Besides(m, m1, a) == \A id \in Ids : id # a /\ m1.heap[id].k # "free" => Alike(m.heap[id], m1.heap[id])
Around(s, x, m, m1, a) ==
  /\ \A z \in Vars : z # x /\ s[z] # Free => Twins(m, s[z].v, m1, s[z].v)
  /\ \A j \in DOMAIN m1.heap[a].data : Twins(m, m1.heap[a].data[j], m1, m1.heap[a].data[j])

\* A method of x's array: what it copies first leaves m.
Rewrites(x, a, m) ==
  /\ a \in Ids /\ mem.heap[a].k = "array" /\ mem'.heap[a].k = "array"
  /\ Vals(slots, mem)[x] = <<"arr", Els(mem, a)>> /\ Into(x, <<"arr", Els(mem', a)>>)
  /\ \A j \in DOMAIN mem.heap[a].data : TreeAt(m, mem.heap[a].data[j]) = TreeAt(mem, mem.heap[a].data[j])
  /\ \A j \in DOMAIN mem'.heap[a].data : TreeAt(mem', mem'.heap[a].data[j]) = TreeAt(m, mem'.heap[a].data[j])

\* Other data for an array.
Replaced(md, m1, a, vs) == Aside(md, m1, a) /\ md.heap[a].k = "array" /\ m1.heap[a].data = vs

\* x has the array a; nothing changes.
HoldsArray(x, a) == Vals(slots, mem)[x] = <<"arr", Els(mem, a)>>
Same == Vals(slots', mem') = Vals(slots, mem)

\* The buffer of the array grows, and nothing else changes.
Grew(m, g, a) == /\ g \in Memories /\ g.full = m.full /\ Aside(m, g, a)
                 /\ g.heap[a].k = "array" /\ g.heap[a].data = m.heap[a].data

-----------------------------------------------------------------------------
(* The array contains what equals an element                                *)

\* What valueEqualsForType compares for each kind of type.
Compared(u, a, b, m, e) ==
  CASE u.k = "nullable" -> IF a.tag = "nil" \/ b.tag = "nil" THEN a.tag = b.tag ELSE e[u.t]
    [] u.k = "string" -> a.tag = "string" /\ b.tag = "string" /\ stringEquals(a.i, b.i, m)
    [] u.k = "host" -> a.tag = "host" /\ b.tag = "host" /\ handleEquals(a.i, b.i, m)
    [] OTHER -> a.tag = "array" /\ b.tag = "array" /\ a.i = b.i
Compares(a, b, m, e) ==
  /\ \A u \in AllTypes : e[u] = Compared(u, a, b, m, e)
  /\ \A u \in AllTypes : valueEqualsForType(a, b, u, m) = e[u]

\* A string, a handle or nil, as a type of strings or handles has it.
Leaf(a, t) ==
  \/ a = Nil /\ t.k = "nullable"
  \/ a.tag = "string" /\ planForType[t].drop = "FreeString"
  \/ a.tag = "host" /\ planForType[t].drop = "Release"
Agree(a, b, m) == /\ a.tag = b.tag
                  /\ a.tag = "string" => m.heap[a.i].bytes = m.heap[b.i].bytes
                  /\ a.tag = "host" => a.i = b.i

\* What a place of such a type has.
LeafTree(m, v, t) ==
  /\ Leaf(v, t)
  /\ v.tag = "string" => v.i \in Ids /\ m.heap[v.i].k = "string" /\ TreeAt(m, v) = <<"str", m.heap[v.i].bytes>>
  /\ v.tag = "host" => v.i \in Ids /\ m.heap[v.i].k = "host" /\ TreeAt(m, v) = <<"host", m.heap[v.i].payload>>
  /\ v.tag \notin {"string", "host"} => v = Nil /\ TreeAt(m, v) = <<"nil", 0>>

=============================================================================
