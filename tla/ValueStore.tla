------------------------------ MODULE ValueStore ------------------------------
(* What the values of a Lucid program are to the program: every variable    *)
(* has a tree of its own, and an operation changes the variable it names.   *)
(* RuntimeValues is shown to implement this specification.                  *)
EXTENDS Naturals, Sequences

CONSTANTS Vars, Free     \* Free: the variable has no value

VARIABLE val             \* a leaf is <<kind, x>>, an array <<"arr", elements>>

Init == val = [x \in Vars |-> Free]

IsArray(v) == v # Free /\ v[1] = "arr"
Array(els) == <<"arr", els>>

\* A variable's value v becomes w: an expression, of any value, initializes it,
\* it ends, or its array changes.
Make(v) == v = Free
Drop(v, w) == v # Free /\ w = Free
Clear(v, w) == IsArray(v) /\ w = Array(<< >>)
RemoveElement(v, w) ==
  IsArray(v) /\ \E i \in DOMAIN v[2] : w = Array(SubSeq(v[2], 1, i - 1) \o SubSeq(v[2], i + 1, Len(v[2])))

\* With the value u of a variable: copied, read from, added, stored.
Copy(u, w) == w = u
Read(u, w) == IsArray(u) /\ \E i \in DOMAIN u[2] : w = u[2][i]
Add(v, u, w) == IsArray(v) /\ w = Array(Append(v[2], u))
Set(v, u, w) == IsArray(v) /\ \E i \in DOMAIN v[2] : w = Array([v[2] EXCEPT ![i] = u])
From(v, u, w) == u # Free /\ (Copy(u, w) \/ Read(u, w) \/ Add(v, u, w) \/ Set(v, u, w))

Becomes(v, w) == \/ Make(v) \/ Drop(v, w) \/ Clear(v, w) \/ RemoveElement(v, w)
                 \/ \E y \in Vars : From(v, val[y], w)

\* An operation changes one variable.
Next == \E x \in Vars : val' = [val EXCEPT ![x] = val'[x]] /\ Becomes(val[x], val'[x])

Spec == Init /\ [][Next]_val
=============================================================================
