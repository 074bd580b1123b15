------------------------- MODULE RuntimeValuesLemmas -------------------------
(****************************************************************************)
(* What the parts of the operations of RuntimeValues do: to the memory, to  *)
(* what the places hold, and to the trees of the values.                    *)
(*                                                                          *)
(* dropValue and copyValue are shown to keep the invariant level by level:  *)
(* what they do at level n for the types of n levels follows from what they *)
(* do one level below for the types of the elements.  With it they are      *)
(* shown to keep the trees of the values: a copy has the tree of what was   *)
(* copied, and nothing that is still held has another tree than before.     *)
(****************************************************************************)
EXTENDS RuntimeValuesInvariant, SequenceTheorems, FiniteSetTheorems, WellFoundedInduction, TLAPS

-----------------------------------------------------------------------------
(* Induction over the natural numbers, with sets in the place of predicates *)

\* A set of numbers that is not empty has a least one.
LEMMA Least ==
  ASSUME NEW T \in SUBSET Nat, T # {}
  PROVE  \E m \in T : \A n \in T : m <= n
<1> DEFINE R == {p \in Nat \X Nat : p[1] < p[2]}
<1>1. R = OpToRel(<, Nat)
  BY DEF OpToRel
<1>2. IsWellFoundedOn(R, Nat)
  BY <1>1, NatLessThanWellFounded
<1>3. \E x \in T : \A y \in T : ~ (<<y, x>> \in R)
  <2> HIDE DEF R
  <2> QED BY <1>2, WFMin
<1>4. PICK x \in T : \A y \in T : ~ (<<y, x>> \in R)
  BY <1>3
<1>5. ASSUME NEW y \in T PROVE x <= y
  <2>1. ~ (<<y, x>> \in R)
    BY <1>4
  <2>2. <<y, x>> \in Nat \X Nat /\ <<y, x>>[1] = y /\ <<y, x>>[2] = x
    OBVIOUS
  <2> QED BY <2>1, <2>2
<1> QED BY <1>5

\* The numbers up to m are in every set that has zero and, with a number below
\* m, the next one.
LEMMA UpTo ==
  ASSUME NEW m \in Nat, NEW S, 0 \in S, \A n \in 0 .. m - 1 : n \in S => n + 1 \in S
  PROVE  0 .. m \subseteq S
<1>1. SUFFICES ASSUME (0 .. m) \ S # {} PROVE FALSE
  OBVIOUS
<1>2. PICK n \in (0 .. m) \ S : \A k \in (0 .. m) \ S : n <= k
  <2> DEFINE T == (0 .. m) \ S
  <2>1. T \in SUBSET Nat /\ T # {}
    BY <1>1
  <2> HIDE DEF T
  <2>2. \E k \in T : \A l \in T : k <= l
    BY <2>1, Least
  <2> QED BY <2>2 DEF T
<1>3. n # 0 /\ n - 1 \in 0 .. m - 1
  BY <1>2
<1>4. n - 1 \in S
  BY <1>2, <1>3
<1> QED BY <1>2, <1>3, <1>4

\* All the numbers are in every set that has zero and, with each, the next.
LEMMA NatInd ==
  ASSUME NEW S, 0 \in S, \A n \in Nat : n \in S => n + 1 \in S
  PROVE  Nat \subseteq S
<1> SUFFICES ASSUME NEW m \in Nat PROVE m \in S
  OBVIOUS
<1>1. 0 .. m \subseteq S
  BY UpTo
<1> QED BY <1>1

-----------------------------------------------------------------------------
(* Recursion *)

\* They exist.
LEMMA PartialExists ==
  ASSUME NEW S, NEW x \in S, NEW step \in [Nat -> [S -> S]], NEW n \in Nat
  PROVE  Partial(n, S, x, step) # {}
<1> DEFINE T == {m \in Nat : Partial(m, S, x, step) # {}}
<1>1. 0 \in T
  <2>1. [k \in 0 .. 0 |-> x] \in Partial(0, S, x, step)
    BY DEF Partial
  <2> QED BY <2>1
<1>2. ASSUME NEW m \in Nat, m \in T PROVE m + 1 \in T
  <2>1. PICK g : g \in Partial(m, S, x, step)
    BY <1>2
  <2>2. g \in [0 .. m -> S] /\ g[0] = x /\ \A k \in 0 .. m - 1 : g[k + 1] = step[k][g[k]]
    BY <2>1 DEF Partial
  <2> DEFINE h == [k \in 0 .. m + 1 |-> IF k = m + 1 THEN step[m][g[m]] ELSE g[k]]
  <2>3. step[m][g[m]] \in S
    BY <2>2
  <2>4. h \in [0 .. m + 1 -> S] /\ h[0] = x
    BY <2>2, <2>3
  <2>5. ASSUME NEW k \in 0 .. m PROVE h[k + 1] = step[k][h[k]]
    BY <2>2
  <2>6. h \in Partial(m + 1, S, x, step)
    <3>1. 0 .. m + 1 - 1 = 0 .. m
      OBVIOUS
    <3> HIDE DEF h
    <3> QED BY <2>4, <2>5, <3>1 DEF Partial
  <2> QED BY <2>6
<1>3. Nat \subseteq T
  <2> HIDE DEF T
  <2> QED BY <1>1, <1>2, NatInd
<1> QED BY <1>3

\* And agree with each other.
LEMMA PartialAgree ==
  ASSUME NEW S, NEW x \in S, NEW step \in [Nat -> [S -> S]], NEW n \in Nat, NEW m \in Nat,
         NEW g \in Partial(n, S, x, step), NEW h \in Partial(m, S, x, step), n <= m
  PROVE  \A k \in 0 .. n : g[k] = h[k]
<1> DEFINE T == {k \in 0 .. n : g[k] = h[k]}
<1>1. 0 \in T
  BY DEF Partial
<1>2. ASSUME NEW k \in 0 .. n - 1, k \in T PROVE k + 1 \in T
  <2>1. g[k + 1] = step[k][g[k]]
    BY DEF Partial
  <2>2. k \in 0 .. m - 1 /\ k + 1 \in 0 .. n
    OBVIOUS
  <2>3. h[k + 1] = step[k][h[k]]
    BY <2>2 DEF Partial
  <2> QED BY <1>2, <2>1, <2>2, <2>3
<1>3. 0 .. n \subseteq T
  <2> HIDE DEF T
  <2> QED BY <1>1, <1>2, UpTo
<1> QED BY <1>3

\* There is a function with a given first value and, at each number, what step
\* makes of the value before.
LEMMA Recursion ==
  ASSUME NEW S, NEW x \in S, NEW step \in [Nat -> [S -> S]]
  PROVE  \E f : Follows(f, S, x, step)
<1> DEFINE g == [n \in Nat |-> CHOOSE p \in Partial(n, S, x, step) : TRUE]
           f == [n \in Nat |-> g[n][n]]
<1>1. ASSUME NEW n \in Nat PROVE g[n] \in Partial(n, S, x, step)
  BY PartialExists
<1> HIDE DEF g
<1>2. ASSUME NEW n \in Nat PROVE f[n] \in S
  BY <1>1 DEF Partial
<1>3. f[0] = x
  BY <1>1 DEF Partial
<1>4. ASSUME NEW n \in Nat PROVE f[n + 1] = step[n][f[n]]
  <2>1. g[n + 1][n + 1] = step[n][g[n + 1][n]]
    <3>1. g[n + 1] \in Partial(n + 1, S, x, step)
      BY <1>1
    <3>2. n \in 0 .. n + 1 - 1
      OBVIOUS
    <3>3. PICK q : q = g[n + 1]
      OBVIOUS
    <3>4. q \in Partial(n + 1, S, x, step)
      BY <3>1, <3>3
    <3>5. q[n + 1] = step[n][q[n]]
      BY <3>2, <3>4 DEF Partial
    <3> QED BY <3>3, <3>5
  <2>2. g[n][n] = g[n + 1][n]
    <3>1. g[n] \in Partial(n, S, x, step) /\ g[n + 1] \in Partial(n + 1, S, x, step)
      BY <1>1
    <3>2. n + 1 \in Nat /\ n <= n + 1 /\ n \in 0 .. n
      OBVIOUS
    <3>3. PICK p : p = g[n]
      OBVIOUS
    <3>4. PICK q : q = g[n + 1]
      OBVIOUS
    <3>5. p \in Partial(n, S, x, step) /\ q \in Partial(n + 1, S, x, step)
      BY <3>1, <3>3, <3>4
    <3>6. n \in Nat /\ n + 1 \in Nat /\ n <= n + 1
      BY <3>2
    <3>7. \A k \in 0 .. n : p[k] = q[k]
      BY <3>5, <3>6, PartialAgree
    <3> QED BY <3>2, <3>3, <3>4, <3>7
  <2>3. f[n + 1] = g[n + 1][n + 1] /\ f[n] = g[n][n]
    OBVIOUS
  <2> QED BY <2>1, <2>2, <2>3
<1>5. f \in [Nat -> S]
  BY <1>2
<1>6. Follows(f, S, x, step)
  <2> HIDE DEF f
  <2> QED BY <1>3, <1>4, <1>5 DEF Follows
<1> QED BY <1>6

\* TypesTo is the function its definition says.
LEMMA TypesToIs == TypesTo[0] = {Str, Host} /\ \A n \in Nat : TypesTo[n + 1] = Deeper(TypesTo[n])
<1> DEFINE T == {n \in Nat : \E g : Levels(n, g)}
<1>1. 0 \in T
  <2> DEFINE g == [k \in 0 .. 0 |-> {Str, Host}]
  <2>1. Levels(0, g)
    BY DEF Levels
  <2> QED BY <2>1
<1>2. ASSUME NEW n \in Nat, n \in T PROVE n + 1 \in T
  <2>1. PICK g : Levels(n, g)
    BY <1>2
  <2> DEFINE h == [k \in 0 .. n + 1 |-> IF k = n + 1 THEN Deeper(g[n]) ELSE g[k]]
  <2>2. Levels(n + 1, h)
    <3>1. h[0] = {Str, Host}
      BY <2>1 DEF Levels
    <3>2. ASSUME NEW k \in 0 .. n PROVE h[k + 1] = Deeper(h[k])
      <4>1. CASE k = n
        <5>1. h[k + 1] = Deeper(g[n]) /\ h[k] = g[n]
          BY <4>1
        <5> QED BY <5>1, <4>1
      <4>2. CASE k # n
        <5>1. h[k + 1] = g[k + 1] /\ h[k] = g[k] /\ k \in 0 .. n - 1
          BY <4>2
        <5> QED BY <2>1, <5>1 DEF Levels
      <4> QED BY <4>1, <4>2
    <3>3. 0 .. n + 1 - 1 = 0 .. n
      OBVIOUS
    <3>4. \A k \in 0 .. n + 1 - 1 : h[k + 1] = Deeper(h[k])
      BY <3>2, <3>3
    <3> HIDE DEF h
    <3> QED BY <3>1, <3>4 DEF Levels
  <2> HIDE DEF h
  <2> QED BY <2>2
<1>3. Nat \subseteq T
  <2> HIDE DEF T
  <2> QED BY <1>1, <1>2, NatInd
<1> DEFINE G == [n \in Nat |-> CHOOSE g : Levels(n, g)]
           f == [n \in Nat |-> G[n][n]]
<1>4. \A n \in Nat : Levels(n, G[n])
  BY <1>3
<1> HIDE DEF G
<1>5. ASSUME NEW n \in Nat, NEW m \in Nat, n <= m PROVE \A k \in 0 .. n : G[n][k] = G[m][k]
  <2> DEFINE U == {k \in 0 .. n : G[n][k] = G[m][k]}
  <2>4. Levels(n, G[n]) /\ Levels(m, G[m])
    BY <1>4
  <2>1. 0 \in U
    <3>1. G[n][0] = G[m][0]
      BY <2>4 DEF Levels
    <3> QED BY <3>1
  <2>2. ASSUME NEW k \in 0 .. n - 1, k \in U PROVE k + 1 \in U
    <3>1. k \in 0 .. m - 1 /\ k + 1 \in 0 .. n
      BY <1>5
    <3>2. G[n][k + 1] = Deeper(G[n][k]) /\ G[m][k + 1] = Deeper(G[m][k])
      BY <2>4, <3>1 DEF Levels
    <3> QED BY <2>2, <3>1, <3>2
  <2>3. 0 .. n \subseteq U
    <3> HIDE DEF U
    <3> QED BY <2>1, <2>2, UpTo
  <2> QED BY <2>3
<1>6. f[0] = {Str, Host}
  BY <1>4 DEF Levels
<1>7. ASSUME NEW n \in Nat PROVE f[n + 1] = Deeper(f[n])
  <2>1. G[n + 1][n + 1] = Deeper(G[n + 1][n])
    <3>1. Levels(n + 1, G[n + 1]) /\ n \in 0 .. n + 1 - 1
      BY <1>4
    <3> QED BY <3>1 DEF Levels
  <2>2. G[n][n] = G[n + 1][n]
    BY <1>5
  <2>3. f[n + 1] = G[n + 1][n + 1] /\ f[n] = G[n][n]
    OBVIOUS
  <2> QED BY <2>1, <2>2, <2>3
<1> DEFINE Body(g) == [n \in Nat |-> IF n = 0 THEN {Str, Host}
                          ELSE LET ts == g[n - 1]
                               IN  ts \union {Dyn(t) : t \in ts} \union {Fix(t) : t \in ts} \union {Maybe(t) : t \in ts}]
<1>8. f = Body(f)
  <2>1. ASSUME NEW n \in Nat PROVE f[n] = Body(f)[n]
    <3> HIDE DEF f
    <3>1. CASE n = 0
      BY <3>1, <1>6
    <3>2. CASE n # 0
      <4>1. n - 1 \in Nat /\ n - 1 + 1 = n
        BY <3>2
      <4>2. f[n] = Deeper(f[n - 1])
        BY <4>1, <1>7
      <4> QED BY <3>2, <4>2 DEF Deeper
    <3> QED BY <3>1, <3>2
  <2> QED BY <2>1
<1>9. TypesTo = CHOOSE h : h = Body(h)
  BY DEF TypesTo
<1>10. TypesTo = Body(TypesTo)
  <2> HIDE DEF Body, f
  <2> QED BY <1>8, <1>9
<1>11. TypesTo[0] = {Str, Host}
  BY <1>10
<1>12. ASSUME NEW n \in Nat PROVE TypesTo[n + 1] = Deeper(TypesTo[n])
  <2>1. n + 1 \in Nat /\ n + 1 # 0 /\ n + 1 - 1 = n
    OBVIOUS
  <2>2. TypesTo[n + 1] = Body(TypesTo)[n + 1]
    BY <1>10
  <2> QED BY <2>1, <2>2 DEF Deeper
<1> QED BY <1>11, <1>12

\* Every type is made of one with a level less.
LEMMA TypeMade == ASSUME NEW n \in Nat, NEW t \in TypesTo[n] PROVE Made(t, n)
<1> DEFINE T == {k \in Nat : \A u \in TypesTo[k] : Made(u, k)}
<1>1. 0 \in T
  BY TypesToIs DEF Made, Str, Host
<1>2. ASSUME NEW k \in Nat, k \in T PROVE k + 1 \in T
  <2>1. TypesTo[k + 1] = Deeper(TypesTo[k]) /\ k + 1 - 1 = k /\ k + 1 > 0
    BY TypesToIs
  <2>2. ASSUME NEW u \in TypesTo[k + 1] PROVE Made(u, k + 1)
    <3>1. CASE u \in TypesTo[k]
      <4>1. Made(u, k)
        BY <1>2, <3>1
      <4>2. CASE k = 0
        BY <4>1, <4>2 DEF Made
      <4>3. CASE k # 0
        <5>1. TypesTo[k] = Deeper(TypesTo[k - 1])
          <6>1. k - 1 \in Nat /\ k - 1 + 1 = k
            BY <4>3
          <6> QED BY <6>1, TypesToIs
        <5>2. TypesTo[k - 1] \subseteq TypesTo[k]
          BY <5>1 DEF Deeper
        <5> QED BY <2>1, <4>1, <5>2 DEF Made
      <4> QED BY <4>2, <4>3
    <3>2. CASE \E v \in TypesTo[k] : u = Dyn(v) \/ u = Fix(v) \/ u = Maybe(v)
      BY <2>1, <3>2 DEF Made, Dyn, Fix, Maybe
    <3> QED BY <2>1, <3>1, <3>2 DEF Deeper
  <2> QED BY <2>2
<1>3. Nat \subseteq T
  <2> HIDE DEF T
  <2> QED BY <1>1, <1>2, NatInd
<1> QED BY <1>3

\* A type of some levels is one of more.
LEMMA TypesUp == ASSUME NEW n \in Nat, NEW m \in Nat, n <= m PROVE TypesTo[n] \subseteq TypesTo[m]
<1> DEFINE T == {k \in Nat : TypesTo[n] \subseteq TypesTo[n + k]}
<1>1. 0 \in T
  <2>1. n + 0 = n
    OBVIOUS
  <2> QED BY <2>1
<1>2. ASSUME NEW k \in Nat, k \in T PROVE k + 1 \in T
  <2>1. TypesTo[n + k + 1] = Deeper(TypesTo[n + k]) /\ n + (k + 1) = n + k + 1
    BY TypesToIs
  <2>2. TypesTo[n + k] \subseteq TypesTo[n + (k + 1)]
    BY <2>1 DEF Deeper
  <2> QED BY <1>2, <2>2
<1>3. Nat \subseteq T
  <2> HIDE DEF T
  <2> QED BY <1>1, <1>2, NatInd
<1>4. m - n \in T
  BY <1>3
<1>5. n + (m - n) = m
  OBVIOUS
<1> QED BY <1>4, <1>5

\* MaxNesting and the other bounds are numbers.
LEMMA BoundsAreNat == MaxNames \in Nat /\ MaxObjects \in Nat /\ MaxPayloads \in Nat /\ MaxLength \in Nat /\ MaxNesting \in Nat
BY ValuesAssumption

\* What a type of the program is made of is one of AllTypes.
LEMMA AllTypesMade ==
  ASSUME NEW t \in AllTypes
  PROVE  \/ t.k \in {"string", "host"}
         \/ t.k = "nullable" /\ t.t \in AllTypes
         \/ t.k \in {"dyn", "fix"} /\ t.el \in AllTypes
<1>1. MaxNesting \in Nat
  BY BoundsAreNat
<1>2. Made(t, MaxNesting)
  BY <1>1, TypeMade DEF AllTypes
<1>3. MaxNesting > 0 => TypesTo[MaxNesting - 1] \subseteq AllTypes
  <2> HAVE MaxNesting > 0
  <2>1. MaxNesting - 1 \in Nat /\ MaxNesting - 1 <= MaxNesting
    BY <1>1
  <2> QED BY <1>1, <2>1, TypesUp DEF AllTypes
<1> QED BY <1>2, <1>3 DEF Made

\* The function there is for it.
LEMMA TypeRecursion ==
  ASSUME NEW S, NEW base \in [AllTypes -> S], NEW step \in [AllTypes -> [S -> S]]
  PROVE  \E g \in [AllTypes -> S] : Recurs(g, AllTypes, base, step)
<1>1. MaxNesting \in Nat
  BY BoundsAreNat
<1> DEFINE T == {n \in Nat : n <= MaxNesting => \E g \in [TypesTo[n] -> S] : Recurs(g, TypesTo[n], base, step)}
<1>2. 0 \in T
  <2>1. TypesTo[0] \subseteq AllTypes
    BY <1>1, TypesUp DEF AllTypes
  <2> DEFINE g == [t \in TypesTo[0] |-> base[t]]
  <2>2. g \in [TypesTo[0] -> S]
    BY <2>1
  <2>3. Recurs(g, TypesTo[0], base, step)
    BY TypesToIs DEF Recurs, Str, Host
  <2> QED BY <2>2, <2>3
<1>3. ASSUME NEW n \in Nat, n \in T PROVE n + 1 \in T
  <2> SUFFICES ASSUME n + 1 <= MaxNesting
               PROVE  \E g \in [TypesTo[n + 1] -> S] : Recurs(g, TypesTo[n + 1], base, step)
    OBVIOUS
  <2>1. n <= MaxNesting
    BY <1>1
  <2>2. PICK f \in [TypesTo[n] -> S] : Recurs(f, TypesTo[n], base, step)
    BY <1>3, <2>1
  <2>3. TypesTo[n + 1] \subseteq AllTypes /\ TypesTo[n] \subseteq TypesTo[n + 1]
    <3>1. n + 1 \in Nat /\ n <= n + 1
      OBVIOUS
    <3> QED BY <1>1, <3>1, TypesUp DEF AllTypes
  <2>4. ASSUME NEW t \in TypesTo[n + 1]
        PROVE  (t.k = "nullable" => t.t \in TypesTo[n]) /\ (t.k = "fix" => t.el \in TypesTo[n])
    <3>1. n + 1 \in Nat /\ n + 1 - 1 = n
      OBVIOUS
    <3>2. Made(t, n + 1)
      BY <3>1, TypeMade
    <3> QED BY <3>1, <3>2 DEF Made
  <2> DEFINE g == [t \in TypesTo[n + 1] |-> IF t.k = "nullable" THEN step[t][f[t.t]]
                                            ELSE IF t.k = "fix" THEN step[t][f[t.el]] ELSE base[t]]
  <2>5. g \in [TypesTo[n + 1] -> S]
    BY <2>2, <2>3, <2>4
  <2>6. ASSUME NEW t \in TypesTo[n] PROVE g[t] = f[t]
    BY <2>2, <2>3 DEF Recurs
  <2>7. Recurs(g, TypesTo[n + 1], base, step)
    <3>1. ASSUME NEW t \in TypesTo[n + 1]
          PROVE  g[t] = IF t.k = "nullable" THEN step[t][g[t.t]]
                        ELSE IF t.k = "fix" THEN step[t][g[t.el]] ELSE base[t]
      <4>1. t.k = "nullable" => g[t.t] = f[t.t]
        BY <2>4, <2>6
      <4>2. t.k = "fix" => g[t.el] = f[t.el]
        BY <2>4, <2>6
      <4>3. g[t] = IF t.k = "nullable" THEN step[t][f[t.t]]
                   ELSE IF t.k = "fix" THEN step[t][f[t.el]] ELSE base[t]
        OBVIOUS
      <4> HIDE DEF g
      <4> QED BY <4>1, <4>2, <4>3
    <3> HIDE DEF g
    <3> QED BY <3>1 DEF Recurs
  <2> HIDE DEF g
  <2> QED BY <2>5, <2>7
<1>4. MaxNesting \in T
  <2>1. Nat \subseteq T
    <3> HIDE DEF T
    <3> QED BY <1>2, <1>3, NatInd
  <2> QED BY <1>1, <2>1
<1> QED BY <1>1, <1>4 DEF AllTypes

\* planForType by the way a type is made.
LEMMA PlanIs ==
  ASSUME NEW t \in AllTypes
  PROVE  /\ t.k = "nullable" => planForType[t] = planForType[t.t]
         /\ t.k = "string" => planForType[t] = Plan("DeepCopyString", "FreeString")
         /\ t.k = "host" => planForType[t] = Plan("Retain", "Release")
         /\ t.k = "dyn" => planForType[t] = Plan("DeepCopyArray", "FreeArray")
         /\ t.k = "fix" => planForType[t] = Plan("ElementWise", "ElementWise")
         /\ planForType[t] \in Plans
<1> DEFINE base == [u \in AllTypes |-> IF u.k = "string" THEN Plan("DeepCopyString", "FreeString")
                                      ELSE IF u.k = "host" THEN Plan("Retain", "Release")
                                      ELSE Plan("DeepCopyArray", "FreeArray")]
           step == [u \in AllTypes |-> [p \in Plans |-> IF u.k = "nullable" THEN p
                                                       ELSE Plan("ElementWise", "ElementWise")]]
           Body(g) == [u \in AllTypes |->
                         CASE u.k = "nullable" -> g[u.t]
                           [] u.k = "string" -> Plan("DeepCopyString", "FreeString")
                           [] u.k = "host" -> Plan("Retain", "Release")
                           [] u.k = "dyn" -> Plan("DeepCopyArray", "FreeArray")
                           [] u.k = "fix" -> IF g[u.el].drop # "None" THEN Plan("ElementWise", "ElementWise")
                                             ELSE Plan("BitCopy", "None")]
<1>1. base \in [AllTypes -> Plans] /\ step \in [AllTypes -> [Plans -> Plans]]
  BY DEF Plans
<1>2. PICK g \in [AllTypes -> Plans] : Recurs(g, AllTypes, base, step)
  <2> HIDE DEF base, step
  <2> QED BY <1>1, TypeRecursion
<1>3. ASSUME NEW p \in Plans PROVE p.drop # "None"
  BY DEF Plans, Plan
<1>4. ASSUME NEW u \in AllTypes
      PROVE  g[u] = CASE u.k = "nullable" -> g[u.t]
                      [] u.k = "string" -> Plan("DeepCopyString", "FreeString")
                      [] u.k = "host" -> Plan("Retain", "Release")
                      [] u.k = "dyn" -> Plan("DeepCopyArray", "FreeArray")
                      [] u.k = "fix" -> IF g[u.el].drop # "None" THEN Plan("ElementWise", "ElementWise")
                                        ELSE Plan("BitCopy", "None")
  <2>1. g[u] = IF u.k = "nullable" THEN step[u][g[u.t]]
               ELSE IF u.k = "fix" THEN step[u][g[u.el]] ELSE base[u]
    BY <1>2 DEF Recurs
  <2>2. \/ u.k \in {"string", "host"}
        \/ u.k = "nullable" /\ u.t \in AllTypes
        \/ u.k \in {"dyn", "fix"} /\ u.el \in AllTypes
    BY AllTypesMade
  <2>3. CASE u.k = "nullable"
    BY <1>2, <2>1, <2>2, <2>3
  <2>4. CASE u.k = "fix"
    <3>1. u.el \in AllTypes /\ g[u.el] \in Plans
      BY <1>2, <2>2, <2>4
    <3>2. g[u.el].drop # "None"
      BY <1>3, <3>1
    <3> QED BY <2>1, <2>4, <3>1, <3>2
  <2>5. CASE u.k \in {"string", "host", "dyn"}
    BY <2>1, <2>5
  <2> QED BY <2>2, <2>3, <2>4, <2>5
<1>5. g = Body(g)
  <2> HIDE DEF base, step
  <2> QED BY <1>2, <1>4
<1>6. planForType = CHOOSE h : h = Body(h)
  BY DEF planForType
<1>7. planForType = Body(planForType)
  <2> HIDE DEF Body
  <2> QED BY <1>5, <1>6
<1> DEFINE P == planForType
<1>8. ASSUME NEW u \in AllTypes
      PROVE  P[u] = CASE u.k = "nullable" -> P[u.t]
                      [] u.k = "string" -> Plan("DeepCopyString", "FreeString")
                      [] u.k = "host" -> Plan("Retain", "Release")
                      [] u.k = "dyn" -> Plan("DeepCopyArray", "FreeArray")
                      [] u.k = "fix" -> IF P[u.el].drop # "None" THEN Plan("ElementWise", "ElementWise")
                                        ELSE Plan("BitCopy", "None")
  BY <1>7
<1> HIDE DEF Body, P
<1> DEFINE T == {n \in Nat : \A u \in TypesTo[n] : u \in AllTypes => P[u] \in Plans}
<1>9. 0 \in T
  <2>1. ASSUME NEW u \in TypesTo[0], u \in AllTypes PROVE P[u] \in Plans
    <3>1. u.k \in {"string", "host"}
      BY TypesToIs DEF Str, Host
    <3> QED BY <1>8, <2>1, <3>1 DEF Plans
  <2> QED BY <2>1
<1>10. ASSUME NEW n \in Nat, n \in T PROVE n + 1 \in T
  <2>1. ASSUME NEW u \in TypesTo[n + 1], u \in AllTypes PROVE P[u] \in Plans
    <3>1. Made(u, n + 1) /\ n + 1 - 1 = n
      BY TypeMade
    <3>2. \/ u.k \in {"string", "host"}
          \/ u.k = "nullable" /\ u.t \in AllTypes
          \/ u.k \in {"dyn", "fix"} /\ u.el \in AllTypes
      BY <2>1, AllTypesMade
    <3>3. CASE u.k \in {"string", "host", "dyn"}
      BY <1>8, <2>1, <3>3 DEF Plans
    <3>4. CASE u.k = "nullable"
      <4>1. u.t \in TypesTo[n] /\ u.t \in AllTypes
        BY <3>1, <3>2, <3>4 DEF Made
      <4>2. P[u.t] \in Plans
        BY <1>10, <4>1
      <4> QED BY <1>8, <2>1, <3>4, <4>2
    <3>5. CASE u.k = "fix"
      <4>1. u.el \in TypesTo[n] /\ u.el \in AllTypes
        BY <3>1, <3>2, <3>5 DEF Made
      <4>2. P[u.el] \in Plans
        BY <1>10, <4>1
      <4>3. P[u.el].drop # "None"
        BY <1>3, <4>2
      <4>4. P[u] = Plan("ElementWise", "ElementWise")
        BY <1>8, <2>1, <3>5, <4>3
      <4> QED BY <4>4 DEF Plans
    <3> QED BY <3>2, <3>3, <3>4, <3>5
  <2> QED BY <2>1
<1>11. \A u \in AllTypes : P[u] \in Plans
  <2>1. Nat \subseteq T
    <3> HIDE DEF T
    <3> QED BY <1>9, <1>10, NatInd
  <2>2. MaxNesting \in T
    BY <2>1, BoundsAreNat
  <2> QED BY <2>2 DEF AllTypes
<1>12. t.k = "fix" => P[t] = Plan("ElementWise", "ElementWise")
  <2> HAVE t.k = "fix"
  <2>1. t.el \in AllTypes
    BY AllTypesMade
  <2>2. P[t.el].drop # "None"
    BY <1>3, <1>11, <2>1
  <2> QED BY <1>8, <2>2
<1>13. t.k = "nullable" => P[t] = P[t.t]
  BY <1>8
<1>14. t.k = "string" => P[t] = Plan("DeepCopyString", "FreeString")
  BY <1>8
<1>15. t.k = "host" => P[t] = Plan("Retain", "Release")
  BY <1>8
<1>16. t.k = "dyn" => P[t] = Plan("DeepCopyArray", "FreeArray")
  BY <1>8
<1> QED BY <1>11, <1>12, <1>13, <1>14, <1>15, <1>16 DEF P

-----------------------------------------------------------------------------
(* Registries                                                              *)

\* typeAt finds that entry.
LEMMA TypeAtIs ==
  ASSUME RegsOK, NEW r \in DOMAIN regs, NEW i
  PROVE  typeAt(regs, r, i) = Entry(r, i)
<1> DEFINE Body(f) == [q \in DOMAIN regs |->
                         IF i \in DOMAIN regs[q].names THEN <<q, i>>
                         ELSE IF regs[q].parent # "" THEN f[regs[q].parent] ELSE NoEntry]
           g == [q \in DOMAIN regs |-> Entry(q, i)]
<1>1. ASSUME NEW q \in DOMAIN regs
      PROVE  g[q] = IF i \in DOMAIN regs[q].names THEN <<q, i>>
                    ELSE IF regs[q].parent # "" THEN g[regs[q].parent] ELSE NoEntry
  BY DEF RegsOK, Entry
<1>2. g = Body(g)
  <2> HIDE DEF g
  <2>1. g = [q \in DOMAIN regs |-> g[q]]
    BY DEF g
  <2> QED BY <1>1, <2>1
<1> DEFINE e == CHOOSE h : h = Body(h)
<1>3. e = Body(e)
  <2> HIDE DEF Body, g
  <2> QED BY <1>2
<1>4. typeAt(regs, r, i) = e[r]
  BY DEF typeAt, resolveByIndex
<1> HIDE DEF e
<1>5. e["root"] = Entry("root", i)
  BY <1>3 DEF RegsOK, Entry
<1>6. e[r] = Entry(r, i)
  <2>1. CASE r = "root"
    BY <1>5, <2>1
  <2>2. CASE r # "root"
    <3>1. regs[r].parent = "root" /\ "root" # ""
      BY <2>2 DEF RegsOK
    <3>2. e[r] = IF i \in DOMAIN regs[r].names THEN <<r, i>> ELSE e["root"]
      BY <1>3, <3>1
    <3> QED BY <1>5, <3>2 DEF Entry
  <2> QED BY <2>1, <2>2
<1> QED BY <1>4, <1>6

\* An entry is of one of the registries.
LEMMA EntryType ==
  ASSUME RegsOK, NEW r \in DOMAIN regs, NEW i, Entry(r, i) # NoEntry
  PROVE  Entry(r, i) \in Entries /\ Entry(r, i)[2] = i /\ i \in Nat
<1>1. ASSUME NEW q \in DOMAIN regs, i \in DOMAIN regs[q].names PROVE i \in Nat /\ q \in Registries
  <2>1. regs[q].names \in Seq(Names)
    BY DEF RegsOK, RegistryRecords
  <2>2. DOMAIN regs[q].names = 1 .. Len(regs[q].names) /\ Len(regs[q].names) \in Nat
    BY <2>1
  <2>3. q \in Registries
    BY DEF RegsOK
  <2>4. i \in Nat
    <3>1. PICK k : k = Len(regs[q].names)
      OBVIOUS
    <3> QED BY <1>1, <2>2, <3>1
  <2> QED BY <2>3, <2>4
<1>2. "root" \in DOMAIN regs
  BY DEF RegsOK
<1> QED BY <1>1, <1>2 DEF Entry, Entries

\* Which index findIndex gives: of the registry's own, or of the root's.
LEMMA FindIndexIs ==
  ASSUME RegsOK, NEW r \in DOMAIN regs, NEW n \in Names, findIndex(regs, r, n) # 0
  PROVE  LET i == findIndex(regs, r, n)
         IN  \/ i \in DOMAIN regs[r].names /\ regs[r].names[i] = n
             \/ r # "root" /\ n \notin ToSet(regs[r].names) /\ i \in DOMAIN regs["root"].names
<1> DEFINE here(q) == {i \in DOMAIN regs[q].names : regs[q].names[i] = n}
           own(q) == CHOOSE i \in here(q) : TRUE
           top == IF here("root") # {} THEN own("root") ELSE 0
           Body(f) == [q \in DOMAIN regs |->
                         IF regs[q].parent # "" /\ n \notin regs[q].visible THEN 0
                         ELSE IF here(q) # {} THEN own(q)
                         ELSE IF regs[q].parent # "" THEN f[regs[q].parent] ELSE 0]
           g == [q \in DOMAIN regs |->
                   IF q = "root" THEN top
                   ELSE IF n \notin regs[q].visible THEN 0
                   ELSE IF here(q) # {} THEN own(q) ELSE top]
<1> HIDE DEF here, own
<1>1. ASSUME NEW q \in DOMAIN regs
      PROVE  g[q] = IF regs[q].parent # "" /\ n \notin regs[q].visible THEN 0
                    ELSE IF here(q) # {} THEN own(q)
                    ELSE IF regs[q].parent # "" THEN g[regs[q].parent] ELSE 0
  BY DEF RegsOK
<1>2. g = Body(g)
  <2> HIDE DEF g
  <2>1. g = [q \in DOMAIN regs |-> g[q]]
    BY DEF g
  <2> QED BY <1>1, <2>1
<1> DEFINE e == CHOOSE h : h = Body(h)
<1>3. e = Body(e)
  <2> HIDE DEF Body, g
  <2> QED BY <1>2
<1>4. findIndex(regs, r, n) = e[r]
  BY DEF findIndex, here, own
<1> HIDE DEF e
<1>5. e["root"] = top
  BY <1>3 DEF RegsOK
<1>6. ASSUME NEW q, here(q) # {} PROVE own(q) \in DOMAIN regs[q].names /\ regs[q].names[own(q)] = n
  <2>1. own(q) \in here(q)
    BY <1>6 DEF own
  <2> QED BY <2>1 DEF here
<1>7. ASSUME NEW q, here(q) = {} PROVE n \notin ToSet(regs[q].names)
  BY <1>7 DEF here, ToSet
<1>8. CASE here(r) # {} /\ e[r] = own(r)
  BY <1>4, <1>6, <1>8
<1>9. CASE ~(here(r) # {} /\ e[r] = own(r))
  <2>1. r # "root"
    <3>1. CASE r = "root"
      <4>1. e[r] # 0
        BY <1>4
      <4> QED BY <1>5, <1>9, <3>1, <4>1
    <3> QED BY <3>1
  <2>2. regs[r].parent = "root" /\ "root" # ""
    BY <2>1 DEF RegsOK
  <2>3. e[r] = IF n \notin regs[r].visible THEN 0
               ELSE IF here(r) # {} THEN own(r) ELSE e["root"]
    BY <1>3, <2>2
  <2>4. e[r] # 0
    BY <1>4
  <2>5. here(r) = {} /\ e[r] = top /\ top # 0
    BY <1>5, <1>9, <2>3, <2>4
  <2>6. top \in DOMAIN regs["root"].names
    BY <1>6, <2>5
  <2> QED BY <1>4, <1>7, <2>1, <2>5, <2>6
<1> QED BY <1>8, <1>9

\* The entry that a lookup by name finds is the one its index stands for, and
\* of the type the name has unless a view has names of its own.
LEMMA FindIs ==
  ASSUME RegsOK, NEW r \in DOMAIN regs, NEW n \in Names, NEW e, e = find(regs, r, n), e # NoEntry
  PROVE  /\ e \in Entries /\ Entry(r, e[2]) = e
         /\ (r = "root" \/ regs[r].names = << >>) => <<Owner(r, n), e[2]>> = e
         /\ Owner(r, n) \in Registries
<1> DEFINE i == findIndex(regs, r, n)
<1>1. i # 0 /\ e = typeAt(regs, r, i)
  BY DEF find, typeAt
<1>2. e = Entry(r, i)
  BY <1>1, TypeAtIs
<1>3. e \in Entries /\ e[2] = i
  BY <1>2, EntryType
<1>4. \/ i \in DOMAIN regs[r].names /\ regs[r].names[i] = n
      \/ r # "root" /\ n \notin ToSet(regs[r].names) /\ i \in DOMAIN regs["root"].names
  BY <1>1, FindIndexIs
<1> HIDE DEF i
<1>5. i \in DOMAIN regs[r].names /\ regs[r].names[i] = n => n \in ToSet(regs[r].names)
  BY DEF ToSet
<1>6. Owner(r, n) \in Registries
  BY ValuesAssumption, <1>4, <1>5 DEF Owner, RegsOK
<1>7. CASE r = "root"
  <2>1. i \in DOMAIN regs[r].names /\ Owner(r, n) = r
    BY <1>4, <1>5, <1>7 DEF Owner
  <2>2. e = <<r, i>>
    BY <1>2, <2>1 DEF Entry
  <2> QED BY <1>2, <1>3, <1>6, <2>1, <2>2
<1>8. CASE r # "root" /\ regs[r].names = << >>
  <2>1. DOMAIN regs[r].names = {} /\ n \notin ToSet(regs[r].names)
    BY <1>8 DEF ToSet
  <2>2. i \in DOMAIN regs["root"].names /\ Owner(r, n) = "root"
    BY <1>4, <1>8, <2>1 DEF Owner, RegsOK
  <2>3. e = <<"root", i>>
    BY <1>2, <2>1, <2>2 DEF Entry
  <2> QED BY <1>2, <1>3, <1>6, <2>2, <2>3
<1>9. CASE r # "root" /\ regs[r].names # << >>
  BY <1>2, <1>3, <1>6, <1>9
<1> QED BY <1>7, <1>8, <1>9

-----------------------------------------------------------------------------
(* Sequences                                                               *)

\* A function on 1..n is a sequence of length n.
LEMMA IsSeq ==
  ASSUME NEW S, NEW n \in Nat, NEW f \in [1 .. n -> S]
  PROVE  f \in Seq(S) /\ Len(f) = n
<1>1. f \in Seq(S)
  BY SeqDef
<1>2. Len(f) \in Nat /\ 1 .. Len(f) = 1 .. n
  BY <1>1, LenProperties
<1>3. Len(f) = n
  BY <1>2
<1> QED BY <1>1, <1>3

\* One element more.
LEMMA Appended ==
  ASSUME NEW S, NEW f \in Seq(S), NEW e \in S
  PROVE  /\ Append(f, e) \in Seq(S) /\ Len(Append(f, e)) = Len(f) + 1 /\ Append(f, e)[Len(f) + 1] = e
         /\ \A i \in 1 .. Len(f) : Append(f, e)[i] = f[i]
         /\ Len(f) \in Nat
OBVIOUS

\* The elements of a sequence.
LEMMA SeqFacts ==
  ASSUME NEW S, NEW f \in Seq(S)
  PROVE  /\ Len(f) \in Nat /\ DOMAIN f = 1 .. Len(f)
         /\ \A i \in 1 .. Len(f) : f[i] \in S
BY LenProperties, ElementOfSeq

-----------------------------------------------------------------------------
(* Memories                                                                *)

\* An object by its kind.
LEMMA ObjectIs ==
  ASSUME NEW o \in Objects
  PROVE  /\ o.k \in {"free", "string", "array", "host"}
         /\ o.k = "free" <=> o = NoObject
         /\ o.k = "string" <=> o \in Strings
         /\ o.k = "array" <=> o \in Arrays
         /\ o.k = "host" <=> o \in Handles
BY DEF Objects, NoObject, Strings, Arrays, Handles

\* The kinds of objects.
LEMMA KindsAre ==
  /\ \A o \in Strings : o \in Objects /\ o.k = "string" /\ o.rc \in Int /\ o.bytes \in Bytes
  /\ \A o \in Arrays : /\ o \in Objects /\ o.k = "array" /\ o.rc \in Int /\ o.el \in AllTypes /\ o.fixed \in BOOLEAN
                       /\ o.data \in Seq(Values) /\ o.cap \in Nat
  /\ \A o \in Handles : /\ o \in Objects /\ o.k = "host" /\ o.rc \in Int /\ o.reg \in DOMAIN regs
                        /\ o.index \in Nat /\ o.payload \in Nat
  /\ NoObject \in Objects /\ NoObject.k = "free"
BY DEF Objects, NoObject, Strings, Arrays, Handles

\* The parts of a memory.
LEMMA MemoryIs ==
  ASSUME NEW m \in Memories
  PROVE  /\ m.heap \in [Ids -> Objects] /\ m.host \in Seq(Payloads)
         /\ m.broken \in BOOLEAN /\ m.stuck \in BOOLEAN /\ m.full \in BOOLEAN
BY DEF Memories

\* The parts of a memory with another object.
LEMMA PutIs ==
  ASSUME NEW m \in Memories, NEW id \in Ids, NEW o \in Objects
  PROVE  /\ Put(m, id, o) \in Memories
         /\ Put(m, id, o).heap = [m.heap EXCEPT ![id] = o]
         /\ Put(m, id, o).heap[id] = o
         /\ \A j \in Ids : j # id => Put(m, id, o).heap[j] = m.heap[j]
         /\ Put(m, id, o).host = m.host /\ Put(m, id, o).broken = m.broken
         /\ Put(m, id, o).stuck = m.stuck /\ Put(m, id, o).full = m.full
<1>1. m.heap \in [Ids -> Objects]
  BY MemoryIs
<1>2. [m.heap EXCEPT ![id] = o] \in [Ids -> Objects]
  BY <1>1
<1>3. Put(m, id, o) = [m EXCEPT !.heap = [m.heap EXCEPT ![id] = o]]
  BY DEF Put
<1> QED BY <1>1, <1>2, <1>3 DEF Memories

\* Room is for the object that Fresh names.
LEMMA FreshIs ==
  ASSUME NEW m \in Memories, Room(m)
  PROVE  Fresh(m) \in Ids /\ m.heap[Fresh(m)] = NoObject
BY DEF Room, Fresh, Live

\* The flags.
LEMMA FlagsAre ==
  ASSUME NEW m \in Memories
  PROVE  /\ Break(m) \in Memories /\ Break(m).full = m.full /\ Break(m).stuck = m.stuck /\ Break(m).heap = m.heap
         /\ Full(m).m \in Memories /\ Full(m).m.full /\ Full(m).v = Nil /\ Full(m).m.stuck = m.stuck
         /\ Full(m).m.heap = m.heap
BY DEF Break, Full, VM, Memories

\* Another count.
LEMMA CountIs ==
  ASSUME NEW m \in Memories, NEW id \in Ids, m.heap[id].k # "free", NEW d \in Int
  PROVE  /\ Count(id, d, m) = Put(m, id, [m.heap[id] EXCEPT !.rc = m.heap[id].rc + d])
         /\ [m.heap[id] EXCEPT !.rc = m.heap[id].rc + d] \in Objects
         /\ Count(id, d, m) \in Memories
<1> DEFINE o == m.heap[id]
<1>1. m.heap \in [Ids -> Objects] /\ o \in Objects
  BY MemoryIs
<1>2. Count(id, d, m) = Put(m, id, [o EXCEPT !.rc = o.rc + d])
  BY <1>1 DEF Count, Put
<1>3. [o EXCEPT !.rc = o.rc + d] \in Objects
  <2> HIDE DEF o
  <2>1. CASE o \in Strings
    <3>1. [o EXCEPT !.rc = o.rc + d] \in Strings
      BY <2>1 DEF Strings
    <3> QED BY <3>1 DEF Objects
  <2>2. CASE o \in Arrays
    <3>1. [o EXCEPT !.rc = o.rc + d] \in Arrays
      BY <2>2 DEF Arrays
    <3> QED BY <3>1 DEF Objects
  <2>3. CASE o \in Handles
    <3>1. [o EXCEPT !.rc = o.rc + d] \in Handles
      BY <2>3 DEF Handles
    <3> QED BY <3>1 DEF Objects
  <2>4. o.k # "free"
    BY DEF o
  <2> QED BY <1>1, <2>1, <2>2, <2>3, <2>4, ObjectIs
<1>4. PICK q : q = [o EXCEPT !.rc = o.rc + d]
  OBVIOUS
<1>5. Put(m, id, q) \in Memories
  BY <1>3, <1>4, PutIs
<1> QED BY <1>2, <1>3, <1>4, <1>5

\* The callback is an entry of the registry, and nothing but the payload changes.
LEMMA CallsIs ==
  ASSUME RegsOK, NEW m \in Memories, NEW h \in Handles, NEW n \in {0, 1}
  PROVE  /\ Calls(h, n, m) \in Memories /\ Calls(h, n, m).heap = m.heap /\ Calls(h, n, m).broken = m.broken
         /\ Calls(h, n, m).stuck = m.stuck /\ Calls(h, n, m).full = m.full
         /\ Calls(h, n, m).host =
              IF Entry(h.reg, h.index) = NoEntry THEN m.host
              ELSE [m.host EXCEPT ![h.payload] = Called(m.host[h.payload], n, Entry(h.reg, h.index))]
<1> DEFINE e == Entry(h.reg, h.index)
<1>1. h.reg \in DOMAIN regs /\ h.index \in Nat /\ h.payload \in Nat
  BY KindsAre
<1>2. typeAt(regs, h.reg, h.index) = e
  BY <1>1, TypeAtIs
<1>3. CASE e = NoEntry
  BY <1>2, <1>3 DEF Calls
<1>4. CASE e # NoEntry
  <2>1. e \in Entries
    BY <1>1, <1>4, EntryType
  <2>2. Calls(h, n, m) = [m EXCEPT !.host = [m.host EXCEPT ![h.payload] = Called(m.host[h.payload], n, e)]]
    <3>1. typeAt(regs, h.reg, h.index) # NoEntry
      BY <1>2, <1>4
    <3>2. PICK t : t = typeAt(regs, h.reg, h.index)
      OBVIOUS
    <3>3. Calls(h, n, m) = [m EXCEPT !.host = [m.host EXCEPT ![h.payload] = Called(m.host[h.payload], n, t)]]
      BY <3>1, <3>2 DEF Calls
    <3> QED BY <1>2, <3>2, <3>3
  <2>3. m.host \in Seq(Payloads)
    BY MemoryIs
  <2>4. ASSUME NEW p \in Payloads PROVE Called(p, n, e) \in Payloads
    <3> HIDE DEF e
    <3>1. p.releases + n \in Nat /\ p.by \union {e} \in SUBSET Entries
      BY <2>1, <2>4 DEF Payloads
    <3>2. PICK rel \in Nat, by \in SUBSET Entries : rel = p.releases + n /\ by = p.by \union {e}
      BY <3>1
    <3>3. Called(p, n, e) = [p EXCEPT !.releases = rel, !.by = by]
      BY <3>2 DEF Called
    <3> QED BY <2>4, <3>3 DEF Payloads
  <2> DEFINE g == [m.host EXCEPT ![h.payload] = Called(m.host[h.payload], n, e)]
  <2>5. g \in Seq(Payloads)
    <3> HIDE DEF e
    <3>1. DOMAIN m.host = 1 .. Len(m.host) /\ Len(m.host) \in Nat /\ \A j \in 1 .. Len(m.host) : m.host[j] \in Payloads
      BY <2>3, SeqFacts
    <3>2. g \in [1 .. Len(m.host) -> Payloads]
      BY <2>4, <3>1
    <3> HIDE DEF g
    <3> QED BY <3>1, <3>2, IsSeq
  <2> HIDE DEF g, e
  <2>6. [m EXCEPT !.host = g] \in Memories /\ [m EXCEPT !.host = g].host = g
    BY <2>5 DEF Memories
  <2>7. /\ [m EXCEPT !.host = g].heap = m.heap /\ [m EXCEPT !.host = g].broken = m.broken
        /\ [m EXCEPT !.host = g].stuck = m.stuck /\ [m EXCEPT !.host = g].full = m.full
    BY DEF Memories
  <2> QED BY <1>4, <2>2, <2>6, <2>7 DEF g, e
<1> QED BY <1>3, <1>4

-----------------------------------------------------------------------------
(* Capacities                                                              *)

\* There are such capacities (ValuesAssumption).
LEMMA CapsAre ==
  /\ Caps \subseteq 1 .. CapMod - 1 /\ InitialCapacity \in Caps /\ CapMod \in Nat
  /\ \A c \in Caps : 2 * c \in Caps \union {CapMod} /\ 2 * c <= CapMod
<1>1. CapMod \in Nat
  BY ValuesAssumption
<1>2. /\ Caps \in SUBSET (1 .. CapMod - 1)
      /\ InitialCapacity \in Caps /\ \A c \in Caps : 2 * c \in Caps \union {CapMod}
  BY ValuesAssumption DEF Caps
<1>3. ASSUME NEW c \in Caps PROVE 2 * c <= CapMod
  <2>1. 2 * c \in 1 .. CapMod - 1 \/ 2 * c = CapMod
    BY <1>2
  <2> QED BY <1>1, <1>2, <2>1
<1> QED BY <1>1, <1>2, <1>3

\* Doubling gives a capacity that is enough, or ends at zero because no number
\* that a capacity can be is.
LEMMA DoubledIs ==
  ASSUME NEW cap \in Caps, NEW min \in Nat
  PROVE  /\ Doubled(cap, min) \in Capacities
         /\ Doubled(cap, min) # 0 => Doubled(cap, min) >= min
         /\ Doubled(cap, min) = 0 => 2 * min > CapMod
<1> DEFINE step == [n \in Nat |-> [c \in Capacities |-> IF c >= min \/ c = 0 THEN c ELSE (2 * c) % CapMod]]
           Body(f) == [n \in Nat |->
                         IF n = 0 THEN cap
                         ELSE LET c == f[n - 1] IN IF c >= min \/ c = 0 THEN c ELSE (2 * c) % CapMod]
<1>1. CapMod \in Nat /\ \A c \in Caps : c \in 1 .. CapMod - 1
  BY CapsAre
<1>2. ASSUME NEW c \in Caps PROVE (2 * c) % CapMod = IF 2 * c = CapMod THEN 0 ELSE 2 * c
  <2>1. 2 * c \in Nat /\ c >= 1 /\ CapMod > 0
    BY <1>1
  <2>2. 2 * c \in Caps \/ 2 * c = CapMod
    BY CapsAre
  <2>3. CASE 2 * c = CapMod
    BY <2>1, <2>3
  <2>4. CASE 2 * c \in Caps
    <3>1. 2 * c < CapMod
      BY <1>1, <2>4
    <3>2. PICK q \in Nat : q = 2 * c
      BY <2>1
    <3>3. q % CapMod = q
      BY <1>1, <2>1, <3>1, <3>2
    <3>4. 2 * c # CapMod
      BY <1>1, <3>1, <3>2
    <3> QED BY <3>2, <3>3, <3>4
  <2> QED BY <2>2, <2>3, <2>4
<1>3. step \in [Nat -> [Capacities -> Capacities]] /\ cap \in Capacities
  <2>1. ASSUME NEW c \in Capacities PROVE (IF c >= min \/ c = 0 THEN c ELSE (2 * c) % CapMod) \in Capacities
    BY <1>2, CapsAre DEF Capacities
  <2> QED BY <2>1 DEF Capacities
<1>4. PICK f : Follows(f, Capacities, cap, step)
  <2> HIDE DEF step
  <2> QED BY <1>3, Recursion
<1>5. /\ f \in [Nat -> Capacities] /\ f[0] = cap
      /\ \A n \in Nat : f[n + 1] = IF f[n] >= min \/ f[n] = 0 THEN f[n] ELSE (2 * f[n]) % CapMod
  BY <1>4 DEF Follows
<1>6. f = Body(f)
  <2>1. ASSUME NEW n \in Nat PROVE f[n] = Body(f)[n]
    <3>1. CASE n = 0
      BY <1>5, <3>1
    <3>2. CASE n # 0
      <4>1. n - 1 \in Nat /\ n - 1 + 1 = n
        BY <3>2
      <4>2. f[n] = IF f[n - 1] >= min \/ f[n - 1] = 0 THEN f[n - 1] ELSE (2 * f[n - 1]) % CapMod
        BY <1>5, <4>1
      <4> QED BY <3>2, <4>2
    <3> QED BY <3>1, <3>2
  <2> HIDE DEF step
  <2>2. f = [n \in Nat |-> f[n]]
    BY <1>5
  <2> QED BY <2>1, <2>2
<1> DEFINE e == CHOOSE h : h = Body(h)
<1>7. e = Body(e)
  <2> HIDE DEF Body
  <2> QED BY <1>6
<1>8. Doubled(cap, min) = e[CapMod]
  BY DEF Doubled
<1> HIDE DEF e, step
<1>9. e[0] = cap
  BY <1>7
<1>10. ASSUME NEW n \in Nat PROVE e[n + 1] = IF e[n] >= min \/ e[n] = 0 THEN e[n] ELSE (2 * e[n]) % CapMod
  <2>1. n + 1 \in Nat /\ n + 1 # 0 /\ n + 1 - 1 = n
    OBVIOUS
  <2> QED BY <1>7, <2>1
<1> HIDE DEF Body
<1> DEFINE T == {n \in Nat : /\ e[n] \in Capacities
                             /\ e[n] = 0 => 2 * min > CapMod
                             /\ e[n] # 0 => e[n] >= min \/ e[n] > n}
<1>11. 0 \in T
  BY <1>1, <1>9 DEF Capacities
<1>12. ASSUME NEW n \in Nat, n \in T PROVE n + 1 \in T
  <2>1. CASE e[n] >= min \/ e[n] = 0
    <3>1. e[n + 1] = e[n]
      BY <1>10, <2>1
    <3> QED BY <1>12, <2>1, <3>1
  <2>2. CASE ~(e[n] >= min \/ e[n] = 0)
    <3>1. e[n] \in Caps /\ e[n] < min /\ e[n] > n
      BY <1>1, <1>12, <2>2 DEF Capacities
    <3>2. e[n + 1] = IF 2 * e[n] = CapMod THEN 0 ELSE 2 * e[n]
      BY <1>2, <1>10, <2>2, <3>1
    <3>3. CASE 2 * e[n] = CapMod
      BY <1>1, <3>1, <3>2, <3>3 DEF Capacities
    <3>4. CASE 2 * e[n] # CapMod
      <4>2. PICK x \in Caps : x = e[n]
        BY <3>1
      <4>3. x \in Nat /\ 2 * x \in Caps
        BY <1>1, <3>4, <4>2, CapsAre
      <4>4. 2 * x > n + 1
        BY <3>1, <4>2, <4>3
      <4>1. e[n + 1] \in Caps /\ e[n + 1] > n + 1
        BY <3>2, <3>4, <4>2, <4>3, <4>4
      <4> QED BY <1>1, <4>1 DEF Capacities
    <3> QED BY <3>3, <3>4
  <2> QED BY <2>1, <2>2
<1>13. CapMod \in T
  <2>1. Nat \subseteq T
    <3> HIDE DEF T
    <3> QED BY <1>11, <1>12, NatInd
  <2> QED BY <1>1, <2>1
<1>14. e[CapMod] # 0 => e[CapMod] >= min
  <2> HAVE e[CapMod] # 0
  <2>1. e[CapMod] \in Caps
    BY <1>13 DEF Capacities
  <2> QED BY <1>1, <1>13, <2>1
<1> QED BY <1>8, <1>13, <1>14

\* What ensureCapacity makes of an array.
LEMMA EnsureIs ==
  ASSUME NEW m \in Memories, NEW id \in Ids, m.heap[id] \in Arrays, m.heap[id].cap \in Capacities, NEW min \in Nat
  PROVE  LET o == m.heap[id]
             r == ensureCapacity(id, min, m)
         IN  \/ o.cap >= min /\ r = m
             \/ /\ o.cap < min /\ r = [m EXCEPT !.stuck = TRUE]
                /\ 2 * min > CapMod
                /\ o.cap # 0 => Doubled(o.cap, min) = 0
             \/ \E c \in Caps : /\ o.cap < min /\ c >= min /\ r = Put(m, id, [o EXCEPT !.cap = c])
                                /\ [o EXCEPT !.cap = c] \in Arrays
<1> DEFINE o == m.heap[id]
           from == IF o.cap = 0 THEN InitialCapacity ELSE o.cap
           new == Doubled(from, min)
<1>1. from \in Caps
  BY CapsAre DEF Capacities
<1>2. new \in Capacities /\ (new # 0 => new >= min) /\ (new = 0 => 2 * min > CapMod)
  <2> HIDE DEF from
  <2> QED BY <1>1, DoubledIs
<1>3. o.cap \in Nat
  BY KindsAre
<1>4. ensureCapacity(id, min, m) = IF o.cap >= min THEN m
                                   ELSE IF new = 0 THEN [m EXCEPT !.stuck = TRUE]
                                   ELSE [m EXCEPT !.heap[id].cap = new]
  BY DEF ensureCapacity
<1>5. CASE o.cap >= min
  BY <1>4, <1>5
<1>6. CASE o.cap < min /\ new = 0
  <2>1. ~(o.cap >= min)
    <3> HIDE DEF o
    <3> QED BY <1>3, <1>6
  <2>2. ensureCapacity(id, min, m) = [m EXCEPT !.stuck = TRUE]
    <3> HIDE DEF new, from
    <3> QED BY <1>4, <1>6, <2>1
  <2>3. o.cap # 0 => from = o.cap
    OBVIOUS
  <2> HIDE DEF from
  <2> QED BY <1>2, <1>6, <2>2, <2>3
<1>7. CASE o.cap < min /\ new # 0
  <2>1. new \in Caps /\ new \in Nat
    BY <1>2, <1>7, CapsAre DEF Capacities
  <2> HIDE DEF new
  <2>2. ensureCapacity(id, min, m) = [m EXCEPT !.heap[id].cap = new]
    BY <1>3, <1>4, <1>7
  <2>3. m.heap \in [Ids -> Objects]
    BY MemoryIs
  <2>4. [m EXCEPT !.heap[id].cap = new] = Put(m, id, [o EXCEPT !.cap = new])
    BY <2>3 DEF Put
  <2>5. [o EXCEPT !.cap = new] \in Arrays
    BY <2>1 DEF Arrays
  <2> QED BY <1>2, <1>7, <2>1, <2>2, <2>4, <2>5
<1>8. o.cap >= min \/ (o.cap < min /\ (new = 0 \/ new # 0))
  <2> HIDE DEF new, from, o
  <2> QED BY <1>3
<1> HIDE DEF new, from
<1> QED BY <1>5, <1>6, <1>7, <1>8

-----------------------------------------------------------------------------
(* Places                                                                  *)

\* The parts of a sound memory.
LEMMA SoundIs ==
  ASSUME NEW m, NEW O, NEW W, Sound(m, O, W)
  PROVE  /\ m \in Memories /\ O \subseteq Ids /\ W \in [Places -> Contents] /\ ~m.broken
         /\ \A p \in Places : Fits(W[p], m)
         /\ \A id \in Ids : Keeps(m, O, W, id)
         /\ Hosted(m)
BY DEF Sound

\* The numbers of the places.
LEMMA PlacesAre ==
  /\ Big \in Nat /\ FixedLength = 2 /\ Ids = 1 .. MaxObjects /\ MaxObjects \in Nat /\ MaxLength \in Nat
  /\ IsFiniteSet(Places) /\ Hand \in Places
  /\ \A x \in Vars : <<x, 0>> \in Places
  /\ \A id \in Ids, i \in 1 .. Big : <<id, i>> \in Places /\ id # 0 /\ i # 0
<1>1. MaxObjects \in Nat /\ MaxLength \in Nat /\ IsFiniteSet(Vars) /\ FixedLength = 2
  BY ValuesAssumption, BoundsAreNat DEF FixedLength
<1>2. Big \in Nat /\ Big >= 2
  BY <1>1 DEF Big
<1>3. IsFiniteSet({0}) /\ IsFiniteSet(0 .. MaxObjects) /\ IsFiniteSet(1 .. Big)
  <2>1. IsFiniteSet(0 .. MaxObjects)
    BY <1>1, FS_Interval
  <2>2. IsFiniteSet(1 .. Big)
    BY <1>2, FS_Interval
  <2>3. IsFiniteSet({0})
    BY FS_Singleton
  <2> QED BY <2>1, <2>2, <2>3
<1>4. IsFiniteSet(Vars \X {0}) /\ IsFiniteSet((0 .. MaxObjects) \X (1 .. Big))
  BY <1>1, <1>3, FS_Product
<1>5. IsFiniteSet(Places)
  BY <1>4, FS_Union DEF Places
<1>6. Hand \in Places
  BY <1>1, <1>2 DEF Hand, Places
<1>7. \A x \in Vars : <<x, 0>> \in Places
  BY DEF Places
<1>8. \A id \in Ids, i \in 1 .. Big : <<id, i>> \in Places /\ id # 0 /\ i # 0
  BY <1>1, <1>2 DEF Places, Ids
<1> QED BY <1>1, <1>2, <1>5, <1>6, <1>7, <1>8 DEF Ids

\* What it leaves alone stays sound.
LEMMA Touches ==
  ASSUME NEW m, NEW O, NEW W, Sound(m, O, W),
         NEW E \in SUBSET Ids, NEW m1 \in Memories, NEW O1 \in SUBSET Ids, NEW W1 \in [Places -> Contents],
         ~m1.broken, Hosted(m1), Local(m, O, W, m1, O1, W1, E)
  PROVE  Sound(m1, O1, W1)
<1> USE DEF Local
<1>1. /\ W \in [Places -> Contents] /\ O \subseteq Ids
      /\ \A p \in Places : Fits(W[p], m)
      /\ \A id \in Ids : Keeps(m, O, W, id)
  BY SoundIs
<1>2. ASSUME NEW j \in Ids \ E PROVE At(W1, j) = At(W, j)
  BY <1>2 DEF At
<1>3. ASSUME NEW j \in Ids \ E PROVE Keeps(m1, O1, W1, j)
  <2>1. m1.heap[j] = m.heap[j] /\ (j \in O1 <=> j \in O) /\ Keeps(m, O, W, j)
    BY <1>1
  <2>2. ASSUME j \notin O, NEW i \in 1 .. Big PROVE W1[<<j, i>>] = W[<<j, i>>]
    <3>1. <<j, i>> \in Places /\ j # 0 /\ i # 0 /\ j \notin E
      BY PlacesAre
    <3>2. <<j, i>> \notin Open(O \union E)
      BY <2>2, <3>1 DEF Open
    <3> QED BY <3>1, <3>2
  <2>3. j \in O => At(W, j) = {}
    BY <2>1 DEF Keeps
  <2> QED BY <1>2, <2>1, <2>2, <2>3 DEF Keeps
<1>4. ASSUME NEW p \in Places PROVE Fits(W1[p], m1)
  <2>1. CASE IsRef(W1[p].v) /\ W1[p].v.i \in E
    BY <2>1
  <2>2. CASE ~IsRef(W1[p].v)
    BY <2>2, Zenon DEF Fits
  <2>3. CASE IsRef(W1[p].v) /\ W1[p].v.i \notin E
    <3>1. W1[p] = W[p]
      BY <2>3
    <3>2. W1[p] \in Contents
      OBVIOUS
    <3>3. W1[p].v.i \in Ids
      <4>1. CASE W1[p] = Free
        BY <2>3, <4>1 DEF IsRef, RefTags, Free
      <4>2. CASE W1[p] # Free
        <5>1. W1[p].v \in Values
          BY <3>2, <4>2 DEF Contents
        <5> QED BY <2>3, <5>1 DEF Values, Nil, Uninitialized, IsRef, RefTags
      <4> QED BY <4>1, <4>2
    <3>4. m1.heap[W1[p].v.i] = m.heap[W1[p].v.i]
      BY <2>3, <3>3
    <3> QED BY <1>1, <3>1, <3>4 DEF Fits
  <2> QED BY <2>1, <2>2, <2>3
<1>5. \A id \in Ids : Keeps(m1, O1, W1, id)
  BY <1>3
<1> QED BY <1>4, <1>5 DEF Sound

-----------------------------------------------------------------------------
(* What a place holds                                                      *)

\* A reference in a place has an object, which is of its kind.
LEMMA RefIs ==
  ASSUME NEW m, NEW O, NEW W, Sound(m, O, W), NEW p \in Places, IsRef(W[p].v)
  PROVE  /\ W[p] \in Contents /\ W[p].ty \in AllTypes /\ W[p].v \in Values
         /\ W[p].v.i \in Ids /\ W[p].v.tag \in RefTags /\ W[p] = [ty |-> W[p].ty, v |-> W[p].v]
         /\ p \in At(W, W[p].v.i) /\ At(W, W[p].v.i) # {} /\ W[p].v.i \notin O
         /\ W[p] # Free
<1>1. W[p] \in Contents
  BY DEF Sound
<1>2. W[p] # Free
  BY DEF IsRef, RefTags, Free
<1>3. W[p] \in [ty : AllTypes, v : Values]
  BY <1>1, <1>2 DEF Contents
<1>4. W[p].ty \in AllTypes /\ W[p].v \in Values /\ W[p] = [ty |-> W[p].ty, v |-> W[p].v]
  BY <1>3
<1>5. W[p].v.i \in Ids /\ W[p].v.tag \in RefTags
  BY <1>4 DEF Values, Nil, Uninitialized, IsRef, RefTags
<1>6. p \in At(W, W[p].v.i)
  BY DEF At
<1>7. Keeps(m, O, W, W[p].v.i)
  BY <1>5, Zenon DEF Sound
<1>8. W[p].v.i \notin O
  BY <1>6, <1>7 DEF Keeps
<1> QED BY <1>1, <1>2, <1>4, <1>5, <1>6, <1>8

\* A value in a place, if there is one.
LEMMA ContentIs ==
  ASSUME NEW W \in [Places -> Contents], NEW p \in Places, W[p] # Free
  PROVE  W[p].ty \in AllTypes /\ W[p].v \in Values /\ W[p] = [ty |-> W[p].ty, v |-> W[p].v]
BY DEF Contents

\* Free is no reference.
LEMMA FreeIs == ~IsRef(Free.v) /\ Free \in Contents
BY DEF IsRef, RefTags, Free, Contents

\* The values.
LEMMA ValuesAre ==
  /\ Nil \in Values /\ Uninitialized \in Values /\ ~IsRef(Nil) /\ ~IsRef(Uninitialized)
  /\ \A id \in Ids, k \in RefTags : /\ Ref(k, id) \in Values /\ IsRef(Ref(k, id))
                                    /\ Ref(k, id).i = id /\ Ref(k, id).tag = k
  /\ \A v \in Values : IsRef(v) => v.i \in Ids /\ v.tag \in RefTags /\ v = Ref(v.tag, v.i)
BY DEF Values, Nil, Uninitialized, IsRef, RefTags, Ref

\* No place holds what is free.
LEMMA FreeUnheld ==
  ASSUME NEW m, NEW O, NEW W, Sound(m, O, W), NEW f \in Ids, m.heap[f] = NoObject
  PROVE  At(W, f) = {} /\ f \notin O /\ \A i \in 1 .. Big : W[<<f, i>>] = Free
<1>1. At(W, f) = {}
  <2> SUFFICES ASSUME NEW q \in At(W, f) PROVE FALSE
    OBVIOUS
  <2>1. q \in Places /\ IsRef(W[q].v) /\ W[q].v.i = f /\ Fits(W[q], m)
    BY DEF At, Sound
  <2> QED BY <2>1 DEF Fits, NoObject, IsRef, RefTags
<1>2. Keeps(m, O, W, f)
  BY DEF Sound
<1>3. f \notin O
  BY <1>2 DEF Keeps, NoObject
<1> QED BY <1>1, <1>2, <1>3 DEF Keeps

\* The places that hold an object are finitely many.
LEMMA AtIs ==
  ASSUME NEW W, NEW id
  PROVE  At(W, id) \subseteq Places /\ IsFiniteSet(At(W, id)) /\ Cardinality(At(W, id)) \in Nat
<1>1. At(W, id) \in SUBSET Places
  BY DEF At
<1>2. IsFiniteSet(At(W, id))
  BY <1>1, PlacesAre, FS_Subset
<1> QED BY <1>1, <1>2, FS_CardinalityType

\* What is done to objects that are no handles leaves the host's part as it is.
LEMMA HostedSame ==
  ASSUME NEW m, NEW m1, Hosted(m), m1.host = m.host,
         \A id \in Ids : m1.heap[id] = m.heap[id] \/ (m1.heap[id].k # "host" /\ m.heap[id].k # "host")
  PROVE  Hosted(m1)
<1>1. \A id \in Ids : m1.heap[id].k = "host" <=> m.heap[id].k = "host"
  OBVIOUS
<1>2. \A id \in Ids : m1.heap[id].k = "host" => m1.heap[id] = m.heap[id]
  OBVIOUS
<1>3. ASSUME NEW p PROVE Holds(m1, p) = Holds(m, p)
  BY <1>1, <1>2 DEF Holds
<1> QED BY <1>1, <1>2, <1>3 DEF Hosted

-----------------------------------------------------------------------------
(* The steps of operations                                                 *)

\* A place that refers to nothing gets a value that refers to nothing.
LEMMA Blanked ==
  ASSUME NEW m, NEW O, NEW W, Sound(m, O, W), NEW p \in Open(O), ~IsRef(W[p].v), NEW c \in Contents, ~IsRef(c.v)
  PROVE  Sound(m, O, [W EXCEPT ![p] = c])
<1> DEFINE W1 == [W EXCEPT ![p] = c]
<1>1. m \in Memories /\ O \in SUBSET Ids /\ W \in [Places -> Contents] /\ ~m.broken /\ Hosted(m)
  BY DEF Sound
<1>2. W1 \in [Places -> Contents]
  BY <1>1
<1>3. p \in Places /\ W1[p] = c /\ \A q \in Places : q # p => W1[q] = W[q]
  BY <1>1 DEF Open
<1>4. {} \in SUBSET Ids /\ O \union {} = O
  OBVIOUS
<1> HIDE DEF W1
<1>5. \A q \in Places : \/ W1[q] = W[q]
                        \/ /\ q \in Open(O \union {})
                           /\ IsRef(W[q].v) => W[q].v.i \in {}
                           /\ IsRef(W1[q].v) => W1[q].v.i \in {}
  BY <1>3, <1>4
<1>6. PICK E : E = {}
  OBVIOUS
<1>7. Local(m, O, W, m, O, W1, E)
  BY <1>5, <1>6 DEF Local
<1>8. Sound(m, O, W1)
  BY <1>1, <1>2, <1>4, <1>6, <1>7, Touches
<1> QED BY <1>8 DEF W1

\* A value goes from a place to another, as one of a type that has its plan.
LEMMA Moved ==
  ASSUME NEW m, NEW O, NEW W, Sound(m, O, W), NEW p \in Open(O), NEW q \in Open(O), p # q,
         IsRef(W[p].v), ~IsRef(W[q].v), NEW c \in Contents, c.v = W[p].v, Fits(c, m)
  PROVE  Sound(m, O, [W EXCEPT ![q] = c, ![p] = Free])
<1> DEFINE W1 == [W EXCEPT ![q] = c, ![p] = Free]
<1>1. m \in Memories /\ O \in SUBSET Ids /\ W \in [Places -> Contents] /\ ~m.broken /\ Hosted(m)
  BY DEF Sound
<1>2. W1 \in [Places -> Contents]
  BY <1>1, FreeIs
<1>3. /\ p \in Places /\ q \in Places /\ W1[p] = Free /\ W1[q] = c
      /\ \A r \in Places : r # p /\ r # q => W1[r] = W[r]
  BY <1>1 DEF Open
<1> HIDE DEF W1
<1>4. PICK id : id = W[p].v.i
  OBVIOUS
<1>5. id \in Ids /\ id \notin O /\ At(W, id) # {} /\ p \in At(W, id)
  BY <1>3, <1>4, RefIs, Zenon
<1>6. PICK E : E = {id}
  OBVIOUS
<1>7. \A r \in Places : \/ W1[r] = W[r]
                        \/ /\ r \in Open(O \union E)
                           /\ IsRef(W[r].v) => W[r].v.i \in E
                           /\ IsRef(W1[r].v) => W1[r].v.i \in E
  <2>1. p \in Open(O \union E) /\ q \in Open(O \union E)
    BY DEF Open
  <2> QED BY <1>3, <1>4, <1>6, <2>1, FreeIs
<1>8. \A r \in Places : IsRef(W1[r].v) /\ W1[r].v.i \in E => Fits(W1[r], m)
  BY <1>3, FreeIs DEF Sound
<1>9. Cardinality(At(W1, id)) = Cardinality(At(W, id)) /\ At(W1, id) # {}
  <2> DEFINE S == At(W, id) \ {p}
  <2>1. IsFiniteSet(At(W, id)) /\ Cardinality(At(W, id)) \in Nat
    BY AtIs
  <2>2. IsFiniteSet(S) /\ Cardinality(S) = Cardinality(At(W, id)) - 1
    BY <1>5, <2>1, FS_RemoveElement
  <2>3. At(W1, id) = S \union {q}
    BY <1>3, <1>4, FreeIs DEF At
  <2>4. q \notin S
    BY DEF At
  <2> HIDE DEF S
  <2>5. Cardinality(S \union {q}) = Cardinality(S) + 1
    BY <2>2, <2>4, FS_AddElement
  <2> QED BY <2>1, <2>2, <2>3, <2>5
<1>10. \A i \in 1 .. Big : W1[<<id, i>>] = W[<<id, i>>]
  <2> TAKE i \in 1 .. Big
  <2>1. <<id, i>> \in Places /\ id # 0 /\ i # 0
    BY <1>5, PlacesAre
  <2>2. <<id, i>> \notin Open(O)
    BY <1>5, <2>1 DEF Open
  <2> QED BY <1>3, <2>1, <2>2
<1>11. Keeps(m, O, W1, id)
  <2>1. Keeps(m, O, W, id)
    BY <1>5 DEF Sound
  <2> QED BY <1>5, <1>9, <1>10, <2>1 DEF Keeps
<1>12. E \in SUBSET Ids /\ \A j \in E : Keeps(m, O, W1, j)
  BY <1>5, <1>6, <1>11
<1>13. Local(m, O, W, m, O, W1, E)
  BY <1>7, <1>8, <1>12 DEF Local
<1>14. Sound(m, O, W1)
  BY <1>1, <1>2, <1>12, <1>13, Touches
<1> QED BY <1>14 DEF W1

\* A new string or handle, in one place.
LEMMA NewLeaf ==
  ASSUME NEW m, NEW O, NEW W, Sound(m, O, W), NEW f \in Ids, m.heap[f] = NoObject,
         NEW m1 \in Memories, ~m1.broken, Hosted(m1), \A j \in Ids \ {f} : m1.heap[j] = m.heap[j],
         m1.heap[f].k \in {"string", "host"}, m1.heap[f].rc = 1,
         NEW p \in Open(O), ~IsRef(W[p].v), NEW t \in AllTypes, planForType[t].drop = DropOf(m1.heap[f])
  PROVE  Sound(m1, O, [W EXCEPT ![p] = [ty |-> t, v |-> Ref(m1.heap[f].k, f)]])
<1> DEFINE k == m1.heap[f].k
           c == [ty |-> t, v |-> Ref(k, f)]
           W1 == [W EXCEPT ![p] = c]
<1>1. m \in Memories /\ O \in SUBSET Ids /\ W \in [Places -> Contents] /\ ~m.broken /\ Hosted(m)
  BY DEF Sound
<1>2. k \in RefTags /\ Ref(k, f) \in Values /\ IsRef(Ref(k, f)) /\ Ref(k, f).i = f /\ Ref(k, f).tag = k
  BY ValuesAre DEF RefTags
<1>3. c \in Contents /\ c.v = Ref(k, f) /\ c.ty = t
  BY <1>2 DEF Contents
<1>4. W1 \in [Places -> Contents]
  <2> HIDE DEF c
  <2> QED BY <1>1, <1>3
<1>5. p \in Places /\ W1[p] = c /\ \A r \in Places : r # p => W1[r] = W[r]
  <2> HIDE DEF c
  <2> QED BY <1>1 DEF Open
<1>6. Fits(c, m1)
  BY <1>2 DEF Fits
<1> HIDE DEF W1, c, k
<1>7. At(W, f) = {} /\ f \notin O /\ \A i \in 1 .. Big : W[<<f, i>>] = Free
  BY FreeUnheld
<1>8. PICK E : E = {f}
  OBVIOUS
<1>9. \A r \in Places : \/ W1[r] = W[r]
                        \/ /\ r \in Open(O \union E)
                           /\ IsRef(W[r].v) => W[r].v.i \in E
                           /\ IsRef(W1[r].v) => W1[r].v.i \in E
  <2>1. p \in Open(O \union E)
    BY DEF Open
  <2> QED BY <1>2, <1>3, <1>5, <1>8, <2>1
<1>10. At(W1, f) = {p}
  BY <1>2, <1>3, <1>5, <1>7 DEF At
<1>11. \A r \in Places : IsRef(W1[r].v) /\ W1[r].v.i \in E => Fits(W1[r], m1)
  <2> TAKE r \in Places
  <2> HAVE IsRef(W1[r].v) /\ W1[r].v.i \in E
  <2>1. r \in At(W1, f)
    BY <1>8 DEF At
  <2> QED BY <1>5, <1>6, <1>10, <2>1
<1>12. \A i \in 1 .. Big : W1[<<f, i>>] = Free
  <2> TAKE i \in 1 .. Big
  <2>1. <<f, i>> \in Places /\ f # 0 /\ i # 0
    BY PlacesAre
  <2>2. <<f, i>> \notin Open(O)
    BY <1>7, <2>1 DEF Open
  <2> QED BY <1>5, <1>7, <2>1, <2>2
<1>13. Keeps(m1, O, W1, f)
  <2>1. Cardinality(At(W1, f)) = 1
    BY <1>10, FS_Singleton
  <2>2. m1.heap[f].k # "array" /\ m1.heap[f].rc = 1
    OBVIOUS
  <2> QED BY <1>7, <1>10, <1>12, <2>1, <2>2 DEF Keeps, Element, Sizes
<1>14. E \in SUBSET Ids /\ (\A j \in E : Keeps(m1, O, W1, j)) /\ \A j \in Ids \ E : m1.heap[j] = m.heap[j]
  BY <1>8, <1>13
<1>15. Local(m, O, W, m1, O, W1, E)
  BY <1>9, <1>11, <1>14 DEF Local
<1>16. Sound(m1, O, W1)
  BY <1>1, <1>4, <1>14, <1>15, Touches
<1> QED BY <1>16 DEF W1, c, k

\* A place keeps the elements of an object that has no array of its own to
\* itself, whatever is done to the other places.
LEMMA ElementsStay ==
  ASSUME NEW O, NEW W \in [Places -> Contents], NEW W1, NEW id \in Ids, id \notin O,
         \A r \in Places : r \notin Open(O) => W1[r] = W[r]
  PROVE  \A i \in 1 .. Big : W1[<<id, i>>] = W[<<id, i>>]
<1> TAKE i \in 1 .. Big
<1>1. <<id, i>> \in Places /\ id # 0 /\ i # 0
  BY PlacesAre
<1>2. <<id, i>> \notin Open(O)
  BY <1>1, Zenon DEF Open
<1> QED BY <1>1, <1>2

\* A handle with another count.
LEMMA CountedHandle ==
  ASSUME NEW h \in Handles, NEW r \in Int
  PROVE  SameHandle(h, [h EXCEPT !.rc = r])
BY DEF SameHandle, Handles

\* One reference less to a handle that has more.
LEMMA Less ==
  ASSUME NEW m, NEW O, NEW W, Sound(m, O, W), NEW p \in Open(O), IsRef(W[p].v),
         NEW id \in Ids, id = W[p].v.i, m.heap[id].k = "host", m.heap[id].rc > 1,
         NEW m1 \in Memories, ~m1.broken, Hosted(m1),
         SameHandle(m.heap[id], m1.heap[id]), m1.heap[id].rc = m.heap[id].rc - 1,
         \A j \in Ids : j # id => m1.heap[j] = m.heap[j]
  PROVE  Sound(m1, O, [W EXCEPT ![p] = Free])
<1> DEFINE W1 == [W EXCEPT ![p] = Free]
           o == m.heap[id]
           o1 == m1.heap[id]
<1>1. m \in Memories /\ O \in SUBSET Ids /\ W \in [Places -> Contents] /\ ~m.broken /\ Hosted(m)
  BY DEF Sound
<1>2. W1 \in [Places -> Contents]
  BY <1>1, FreeIs
<1>3. p \in Places /\ W1[p] = Free /\ \A r \in Places : r # p => W1[r] = W[r]
  BY <1>1 DEF Open
<1>4. o \in Handles
  <2>1. o \in Objects
    BY <1>1, MemoryIs
  <2> HIDE DEF o
  <2> QED BY <2>1, ObjectIs, Zenon DEF o
<1>5. /\ m1.heap[id] = o1 /\ o1.k = "host" /\ o1.rc = o.rc - 1 /\ o.rc \in Int
      /\ \A j \in Ids \ {id} : m1.heap[j] = m.heap[j]
  <2>1. o.rc \in Int
    <3> HIDE DEF o
    <3> QED BY <1>4, KindsAre, Zenon
  <2> QED BY <2>1 DEF SameHandle
<1> HIDE DEF W1, o1
<1>6. id \notin O /\ p \in At(W, id) /\ At(W, id) # {}
  BY <1>3, RefIs, Zenon
<1>7. PICK E : E = {id}
  OBVIOUS
<1>8. Keeps(m, O, W, id)
  BY DEF Sound
<1>9. At(W1, id) = At(W, id) \ {p}
  BY <1>3, FreeIs, Zenon DEF At
<1>10. Cardinality(At(W1, id)) = o.rc - 1 /\ At(W1, id) # {}
  <2>1. IsFiniteSet(At(W, id)) /\ Cardinality(At(W, id)) \in Nat
    BY AtIs, Zenon
  <2>2. Cardinality(At(W, id)) = o.rc
    BY <1>6, <1>8, Zenon DEF Keeps
  <2>3. Cardinality(At(W, id) \ {p}) = o.rc - 1
    BY <1>6, <2>1, <2>2, FS_RemoveElement, Zenon
  <2>4. At(W1, id) # {}
    <3> SUFFICES ASSUME At(W1, id) = {} PROVE FALSE
      BY Zenon
    <3>1. Cardinality(At(W1, id)) = 0
      BY FS_EmptySet, Zenon
    <3>2. PICK k \in Int : k = o.rc
      BY <1>5, Zenon
    <3>3. k > 1 /\ k - 1 = 0
      BY <1>9, <2>3, <3>1, <3>2
    <3> QED BY <3>3
  <2> QED BY <1>9, <2>3, <2>4
<1>11. \A i \in 1 .. Big : W1[<<id, i>>] = W[<<id, i>>]
  BY <1>1, <1>3, <1>6, ElementsStay
<1>12. Keeps(m1, O, W1, id)
  <2>1. \A i \in 1 .. Big : W[<<id, i>>] = Free
    BY <1>6, <1>8, Zenon DEF Keeps, Element
  <2> QED BY <1>5, <1>6, <1>10, <1>11, <2>1, Zenon DEF Keeps, Element, Sizes
<1>13. \A r \in Places : IsRef(W1[r].v) /\ W1[r].v.i \in E => Fits(W1[r], m1)
  <2> TAKE r \in Places
  <2> HAVE IsRef(W1[r].v) /\ W1[r].v.i \in E
  <2>1. W1[r] = W[r] /\ Fits(W[r], m) /\ W[r].v.i = id
    BY <1>3, <1>7, FreeIs DEF Sound
  <2>2. DropOf(o1) = DropOf(o) /\ o1.k = o.k /\ o.k # "array"
    BY <1>5, Zenon DEF DropOf
  <2> QED BY <1>5, <2>1, <2>2 DEF Fits
<1>14. Local(m, O, W, m1, O, W1, E)
  <2>1. p \in Open(O \union E)
    BY DEF Open
  <2>2. \A r \in Places : \/ W1[r] = W[r]
                          \/ /\ r \in Open(O \union E)
                             /\ IsRef(W[r].v) => W[r].v.i \in E
                             /\ IsRef(W1[r].v) => W1[r].v.i \in E
    BY <1>3, <1>7, <2>1, FreeIs
  <2>3. (\A j \in E : Keeps(m1, O, W1, j)) /\ \A j \in Ids \ E : m1.heap[j] = m.heap[j]
    BY <1>5, <1>7, <1>12
  <2> QED BY <1>13, <2>2, <2>3 DEF Local
<1>15. E \in SUBSET Ids
  BY <1>7
<1>16. Sound(m1, O, W1)
  BY <1>1, <1>2, <1>14, <1>15, Touches
<1> QED BY <1>16 DEF W1

\* An object with one reference is in one place.
LEMMA OnlyPlace ==
  ASSUME NEW m, NEW O, NEW W, Sound(m, O, W), NEW p \in Places, IsRef(W[p].v), m.heap[W[p].v.i].rc = 1
  PROVE  At(W, W[p].v.i) = {p}
<1> PICK id : id = W[p].v.i
  OBVIOUS
<1>1. id \in Ids /\ p \in At(W, id) /\ At(W, id) # {}
  BY RefIs
<1>2. Keeps(m, O, W, id)
  BY <1>1 DEF Sound
<1>3. Cardinality(At(W, id)) = 1 /\ IsFiniteSet(At(W, id))
  BY <1>1, <1>2, AtIs DEF Keeps
<1>4. PICK r : At(W, id) = {r}
  BY <1>3, FS_Singleton
<1> QED BY <1>1, <1>4

\* The last reference to a string or a handle.
LEMMA Gone ==
  ASSUME NEW m, NEW O, NEW W, Sound(m, O, W), NEW p \in Open(O), IsRef(W[p].v),
         NEW id \in Ids, id = W[p].v.i, m.heap[id].k # "array", m.heap[id].rc = 1,
         NEW m1 \in Memories, ~m1.broken, Hosted(m1), m1.heap = [m.heap EXCEPT ![id] = NoObject]
  PROVE  Sound(m1, O, [W EXCEPT ![p] = Free])
<1> DEFINE W1 == [W EXCEPT ![p] = Free]
<1>1. m \in Memories /\ O \in SUBSET Ids /\ W \in [Places -> Contents] /\ ~m.broken /\ Hosted(m)
  BY DEF Sound
<1>2. W1 \in [Places -> Contents]
  BY <1>1, FreeIs
<1>3. p \in Places /\ W1[p] = Free /\ \A r \in Places : r # p => W1[r] = W[r]
  BY <1>1 DEF Open
<1>4. m1.heap[id] = NoObject /\ \A j \in Ids \ {id} : m1.heap[j] = m.heap[j]
  BY <1>1, MemoryIs
<1> HIDE DEF W1
<1>5. id \notin O /\ At(W, id) = {p}
  <2>1. m.heap[W[p].v.i].rc = 1
    OBVIOUS
  <2>2. At(W, W[p].v.i) = {p}
    BY <1>3, <2>1, OnlyPlace
  <2> QED BY <1>3, <2>2, RefIs
<1>6. PICK E : E = {id}
  OBVIOUS
<1>7. At(W1, id) = {}
  BY <1>3, <1>5, FreeIs DEF At
<1>8. \A i \in 1 .. Big : W1[<<id, i>>] = W[<<id, i>>]
  BY <1>1, <1>3, <1>5, ElementsStay
<1>9. Keeps(m1, O, W1, id)
  <2>1. \A i \in 1 .. Big : W[<<id, i>>] = Free
    BY <1>5 DEF Sound, Keeps, Element
  <2> QED BY <1>4, <1>5, <1>7, <1>8, <2>1 DEF Keeps, Sizes, NoObject
<1>10. \A r \in Places : IsRef(W1[r].v) /\ W1[r].v.i \in E => Fits(W1[r], m1)
  BY <1>6, <1>7 DEF At
<1>11. Local(m, O, W, m1, O, W1, E)
  <2>1. p \in Open(O \union E)
    BY DEF Open
  <2>2. \A r \in Places : \/ W1[r] = W[r]
                          \/ /\ r \in Open(O \union E)
                             /\ IsRef(W[r].v) => W[r].v.i \in E
                             /\ IsRef(W1[r].v) => W1[r].v.i \in E
    BY <1>3, <1>6, <2>1, FreeIs
  <2>3. (\A j \in E : Keeps(m1, O, W1, j)) /\ \A j \in Ids \ E : m1.heap[j] = m.heap[j]
    BY <1>4, <1>6, <1>9
  <2> QED BY <1>10, <2>2, <2>3 DEF Local
<1>12. E \in SUBSET Ids
  BY <1>6
<1>13. Sound(m1, O, W1)
  BY <1>1, <1>2, <1>11, <1>12, Touches
<1> QED BY <1>13 DEF W1

\* One reference more to a handle.
LEMMA More ==
  ASSUME NEW m, NEW O, NEW W, Sound(m, O, W), NEW p \in Places, IsRef(W[p].v),
         NEW q \in Open(O), ~IsRef(W[q].v),
         NEW id \in Ids, id = W[p].v.i, m.heap[id].k = "host",
         NEW m1 \in Memories, ~m1.broken, Hosted(m1),
         SameHandle(m.heap[id], m1.heap[id]), m1.heap[id].rc = m.heap[id].rc + 1,
         \A j \in Ids : j # id => m1.heap[j] = m.heap[j]
  PROVE  Sound(m1, O, [W EXCEPT ![q] = W[p]])
<1> DEFINE W1 == [W EXCEPT ![q] = W[p]]
           o == m.heap[id]
           o1 == m1.heap[id]
<1>1. m \in Memories /\ O \in SUBSET Ids /\ W \in [Places -> Contents] /\ ~m.broken /\ Hosted(m)
  BY DEF Sound
<1>2. W1 \in [Places -> Contents]
  BY <1>1
<1>3. q \in Places /\ p # q /\ W1[q] = W[p] /\ \A r \in Places : r # q => W1[r] = W[r]
  BY <1>1 DEF Open
<1>4. o \in Handles
  <2>1. o \in Objects
    BY <1>1, MemoryIs
  <2> HIDE DEF o
  <2> QED BY <2>1, ObjectIs DEF o
<1>5. /\ m1.heap[id] = o1 /\ o1.k = "host" /\ o1.rc = o.rc + 1 /\ o.rc \in Int
      /\ \A j \in Ids \ {id} : m1.heap[j] = m.heap[j]
  <2>1. o.rc \in Int
    <3> HIDE DEF o
    <3> QED BY <1>4, KindsAre, Zenon
  <2> QED BY <2>1 DEF SameHandle
<1> HIDE DEF W1, o1
<1>6. id \notin O /\ p \in At(W, id) /\ At(W, id) # {}
  BY <1>3, RefIs, Zenon
<1>7. PICK E : E = {id}
  OBVIOUS
<1>8. Keeps(m, O, W, id)
  BY DEF Sound
<1>9. At(W1, id) = At(W, id) \union {q} /\ q \notin At(W, id)
  BY <1>3, Zenon DEF At
<1>10. Cardinality(At(W1, id)) = o.rc + 1 /\ At(W1, id) # {}
  <2>1. IsFiniteSet(At(W, id)) /\ Cardinality(At(W, id)) \in Nat
    BY AtIs, Zenon
  <2>2. Cardinality(At(W, id)) = o.rc
    BY <1>6, <1>8, Zenon DEF Keeps
  <2>3. Cardinality(At(W, id) \union {q}) = o.rc + 1
    BY <1>9, <2>1, <2>2, FS_AddElement, Zenon
  <2> QED BY <1>9, <2>3
<1>11. \A i \in 1 .. Big : W1[<<id, i>>] = W[<<id, i>>]
  BY <1>1, <1>3, <1>6, ElementsStay
<1>12. Keeps(m1, O, W1, id)
  <2>1. \A i \in 1 .. Big : W[<<id, i>>] = Free
    BY <1>6, <1>8, Zenon DEF Keeps, Element
  <2> QED BY <1>5, <1>6, <1>10, <1>11, <2>1, Zenon DEF Keeps, Element, Sizes
<1>13. \A r \in Places : IsRef(W1[r].v) /\ W1[r].v.i \in E => Fits(W1[r], m1)
  <2> TAKE r \in Places
  <2> HAVE IsRef(W1[r].v) /\ W1[r].v.i \in E
  <2>1. PICK r1 \in Places : W1[r] = W[r1]
    BY <1>3
  <2>2. Fits(W[r1], m) /\ W[r1].v.i = id
    BY <1>7, <2>1 DEF Sound
  <2>3. DropOf(o1) = DropOf(o) /\ o1.k = o.k /\ o.k # "array"
    BY <1>5, Zenon DEF DropOf
  <2> QED BY <1>5, <2>1, <2>2, <2>3 DEF Fits
<1>14. Local(m, O, W, m1, O, W1, E)
  <2>1. q \in Open(O \union E)
    BY DEF Open
  <2>2. \A r \in Places : \/ W1[r] = W[r]
                          \/ /\ r \in Open(O \union E)
                             /\ IsRef(W[r].v) => W[r].v.i \in E
                             /\ IsRef(W1[r].v) => W1[r].v.i \in E
    BY <1>3, <1>7, <2>1
  <2>3. (\A j \in E : Keeps(m1, O, W1, j)) /\ \A j \in Ids \ E : m1.heap[j] = m.heap[j]
    BY <1>5, <1>7, <1>12
  <2> QED BY <1>13, <2>2, <2>3 DEF Local
<1>15. E \in SUBSET Ids
  BY <1>7
<1>16. Sound(m1, O, W1)
  BY <1>1, <1>2, <1>14, <1>15, Touches
<1> QED BY <1>16 DEF W1

\* That is what Put gives.
LEMMA PutFacts ==
  ASSUME NEW m \in Memories, NEW id \in Ids, NEW o \in Objects, NEW r, r = Put(m, id, o)
  PROVE  IsPut(r, m, id, o)
BY PutIs DEF IsPut

\* An array that a place holds is the operation's own when the place is emptied.
LEMMA Detached ==
  ASSUME NEW m, NEW O, NEW W, Sound(m, O, W), NEW p \in Open(O), IsRef(W[p].v),
         NEW a \in Ids, a = W[p].v.i, m.heap[a].k = "array"
  PROVE  /\ Sound(m, O \union {a}, [W EXCEPT ![p] = Free])
         /\ m.heap[a].rc = 1 /\ a \notin O
         /\ \A i \in 1 .. Big : W[<<a, i>>] = Element(m.heap[a], i) /\ <<a, i>> # p
<1> DEFINE W1 == [W EXCEPT ![p] = Free]
<1>1. m \in Memories /\ O \in SUBSET Ids /\ W \in [Places -> Contents] /\ ~m.broken /\ Hosted(m)
  BY DEF Sound
<1>2. W1 \in [Places -> Contents]
  BY <1>1, FreeIs
<1>3. p \in Places /\ W1[p] = Free /\ \A r \in Places : r # p => W1[r] = W[r]
  BY <1>1 DEF Open
<1> HIDE DEF W1
<1>4. a \notin O /\ p \in At(W, a) /\ At(W, a) # {}
  BY <1>3, RefIs, Zenon
<1>5. Keeps(m, O, W, a)
  BY DEF Sound
<1>6. m.heap[a].rc = 1 /\ \A i \in 1 .. Big : W[<<a, i>>] = Element(m.heap[a], i)
  BY <1>4, <1>5 DEF Keeps
<1>7. \A i \in 1 .. Big : <<a, i>> # p
  <2> TAKE i \in 1 .. Big
  <2>1. a # 0 /\ i # 0
    BY PlacesAre
  <2> QED BY <1>4, <2>1 DEF Open
<1>8. At(W, a) = {p}
  <2>1. m.heap[W[p].v.i].rc = 1
    BY <1>6
  <2>2. At(W, W[p].v.i) = {p}
    BY <1>3, <2>1, OnlyPlace
  <2> QED BY <2>2
<1>9. At(W1, a) = {}
  BY <1>3, <1>8, FreeIs DEF At
<1>10. PICK E : E = {a}
  OBVIOUS
<1>11. PICK O1 : O1 = O \union {a}
  OBVIOUS
<1>12. Keeps(m, O1, W1, a)
  BY <1>5, <1>6, <1>9, <1>11 DEF Keeps
<1>13. \A r \in Places : IsRef(W1[r].v) /\ W1[r].v.i \in E => Fits(W1[r], m)
  BY <1>9, <1>10 DEF At
<1>14. Local(m, O, W, m, O1, W1, E)
  <2>1. p \in Open(O \union E)
    BY DEF Open
  <2>2. \A r \in Places : \/ W1[r] = W[r]
                          \/ /\ r \in Open(O \union E)
                             /\ IsRef(W[r].v) => W[r].v.i \in E
                             /\ IsRef(W1[r].v) => W1[r].v.i \in E
    BY <1>3, <1>10, <2>1, FreeIs
  <2>3. (\A j \in E : Keeps(m, O1, W1, j)) /\ \A j \in Ids \ E : j \in O1 <=> j \in O
    BY <1>10, <1>11, <1>12
  <2> QED BY <1>13, <2>2, <2>3 DEF Local
<1>15. E \in SUBSET Ids /\ O1 \in SUBSET Ids
  BY <1>1, <1>10, <1>11
<1>16. Sound(m, O1, W1)
  BY <1>1, <1>2, <1>14, <1>15, Touches
<1> QED BY <1>4, <1>6, <1>7, <1>11, <1>16 DEF W1

\* And back to a place, when its places are those of its data.
LEMMA Attached ==
  ASSUME NEW m, NEW O, NEW W, Sound(m, O, W), NEW a \in O,
         \A i \in 1 .. Big : W[<<a, i>>] = Element(m.heap[a], i),
         NEW p \in Open(O), p[1] # a \/ p[2] = 0, ~IsRef(W[p].v),
         NEW t \in AllTypes, planForType[t].drop = DropOf(m.heap[a]), Under(m.heap[a].el, t)
  PROVE  Sound(m, O \ {a}, [W EXCEPT ![p] = [ty |-> t, v |-> Ref("array", a)]])
<1> DEFINE c == [ty |-> t, v |-> Ref("array", a)]
           W1 == [W EXCEPT ![p] = c]
<1>1. m \in Memories /\ O \in SUBSET Ids /\ W \in [Places -> Contents] /\ ~m.broken /\ Hosted(m) /\ a \in Ids
  BY DEF Sound
<1>2. /\ Ref("array", a) \in Values /\ IsRef(Ref("array", a))
      /\ Ref("array", a).i = a /\ Ref("array", a).tag = "array"
  BY <1>1, ValuesAre DEF RefTags
<1>3. c \in Contents /\ c.v = Ref("array", a) /\ c.ty = t
  BY <1>2 DEF Contents
<1>4. W1 \in [Places -> Contents]
  <2> HIDE DEF c
  <2> QED BY <1>1, <1>3
<1>5. p \in Places /\ W1[p] = c /\ \A r \in Places : r # p => W1[r] = W[r]
  <2> HIDE DEF c
  <2> QED BY <1>1 DEF Open
<1>6. Keeps(m, O, W, a)
  BY <1>1 DEF Sound
<1>7. m.heap[a].k = "array" /\ m.heap[a].rc = 1 /\ At(W, a) = {}
  BY <1>6 DEF Keeps
<1>8. Fits(c, m)
  BY <1>2, <1>3, <1>7 DEF Fits
<1> HIDE DEF W1, c
<1>9. At(W1, a) = {p}
  BY <1>2, <1>3, <1>5, <1>7 DEF At
<1>10. \A i \in 1 .. Big : W1[<<a, i>>] = Element(m.heap[a], i)
  <2> TAKE i \in 1 .. Big
  <2>1. <<a, i>> \in Places /\ i # 0
    BY <1>1, PlacesAre
  <2>2. <<a, i>> # p
    BY <2>1
  <2> QED BY <1>5, <2>1, <2>2
<1>11. PICK E : E = {a}
  OBVIOUS
<1>12. PICK O1 : O1 = O \ {a}
  OBVIOUS
<1>13. Keeps(m, O1, W1, a)
  <2>1. Cardinality(At(W1, a)) = 1
    BY <1>9, FS_Singleton
  <2> QED BY <1>6, <1>7, <1>9, <1>10, <1>12, <2>1 DEF Keeps
<1>14. \A r \in Places : IsRef(W1[r].v) /\ W1[r].v.i \in E => Fits(W1[r], m)
  <2> TAKE r \in Places
  <2> HAVE IsRef(W1[r].v) /\ W1[r].v.i \in E
  <2>1. r \in At(W1, a)
    BY <1>11 DEF At
  <2> QED BY <1>5, <1>8, <1>9, <2>1
<1>15. Local(m, O, W, m, O1, W1, E)
  <2>1. p \in Open(O \union E)
    BY DEF Open
  <2>2. \A r \in Places : \/ W1[r] = W[r]
                          \/ /\ r \in Open(O \union E)
                             /\ IsRef(W[r].v) => W[r].v.i \in E
                             /\ IsRef(W1[r].v) => W1[r].v.i \in E
    BY <1>2, <1>3, <1>5, <1>11, <2>1
  <2>3. (\A j \in E : Keeps(m, O1, W1, j)) /\ \A j \in Ids \ E : j \in O1 <=> j \in O
    BY <1>11, <1>12, <1>13
  <2> QED BY <1>14, <2>2, <2>3 DEF Local
<1>16. E \in SUBSET Ids /\ O1 \in SUBSET Ids
  BY <1>1, <1>11, <1>12
<1>17. Sound(m, O1, W1)
  BY <1>1, <1>4, <1>15, <1>16, Touches
<1> QED BY <1>12, <1>17 DEF W1, c

\* An operation's own array, with all its places empty, is freed; a fixed one
\* may be left as it is.
LEMMA Discarded ==
  ASSUME NEW m, NEW O, NEW W, Sound(m, O, W), NEW a \in O, \A i \in 1 .. Big : W[<<a, i>>] = Free,
         NEW m1, m1 = Unalloc(a, m) \/ (m1 = m /\ m.heap[a].fixed)
  PROVE  Sound(m1, O \ {a}, W)
<1>1. m \in Memories /\ O \in SUBSET Ids /\ W \in [Places -> Contents] /\ ~m.broken /\ Hosted(m) /\ a \in Ids
  BY DEF Sound
<1>2. Keeps(m, O, W, a)
  BY <1>1 DEF Sound
<1>3. m.heap[a].k = "array" /\ At(W, a) = {} /\ Sizes(m.heap[a])
  BY <1>2 DEF Keeps
<1>4. /\ m1 \in Memories /\ ~m1.broken /\ m1.host = m.host /\ (m1.heap[a] = NoObject \/ (m1.heap[a] = m.heap[a] /\ m.heap[a].fixed))
      /\ \A j \in Ids \ {a} : m1.heap[j] = m.heap[j]
  <2>1. CASE m1 = Unalloc(a, m)
    <3>1. m1 = Put(m, a, NoObject)
      BY <2>1 DEF Unalloc, Put
    <3>2. NoObject \in Objects
      BY KindsAre
    <3>3. PICK o \in Objects : o = NoObject
      BY <3>2
    <3>4. IsPut(m1, m, a, o)
      BY <1>1, <3>1, <3>3, PutFacts
    <3> QED BY <1>1, <3>3, <3>4 DEF IsPut
  <2>2. CASE m1 = m /\ m.heap[a].fixed
    BY <1>1, <2>2
  <2> QED BY <2>1, <2>2
<1>5. Hosted(m1)
  <2>1. NoObject.k # "host"
    BY DEF NoObject
  <2> QED BY <1>1, <1>3, <1>4, <2>1, HostedSame
<1>6. PICK E : E = {a}
  OBVIOUS
<1>7. PICK O1 : O1 = O \ {a}
  OBVIOUS
<1>8. Keeps(m1, O1, W, a)
  <2>1. Sizes(NoObject)
    BY DEF Sizes, NoObject
  <2> QED BY <1>3, <1>4, <1>7, <2>1 DEF Keeps
<1>9. \A r \in Places : IsRef(W[r].v) /\ W[r].v.i \in E => Fits(W[r], m1)
  BY <1>3, <1>6 DEF At
<1>10. Local(m, O, W, m1, O1, W, E)
  <2>1. \A j \in E : Keeps(m1, O1, W, j)
    BY <1>6, <1>8
  <2>2. \A j \in Ids \ E : m1.heap[j] = m.heap[j] /\ (j \in O1 <=> j \in O)
    BY <1>4, <1>6, <1>7
  <2> QED BY <1>9, <2>1, <2>2 DEF Local
<1>11. E \in SUBSET Ids /\ O1 \in SUBSET Ids
  BY <1>1, <1>6, <1>7
<1>12. Sound(m1, O1, W)
  BY <1>1, <1>4, <1>5, <1>10, <1>11, Touches
<1> QED BY <1>7, <1>12

\* A new array, or another in the place of an operation's own.
LEMMA Written ==
  ASSUME NEW m, NEW O, NEW W, Sound(m, O, W), NEW a \in Ids, a \in O \/ m.heap[a] = NoObject,
         NEW o \in Arrays, o.rc = 1, Sizes(o)
  PROVE  /\ Sound(Put(m, a, o), O \union {a}, W)
         /\ m.heap[a] = NoObject => \A i \in 1 .. Big : W[<<a, i>>] = Free
<1> PICK m1 : m1 = Put(m, a, o)
  OBVIOUS
<1>1. m \in Memories /\ O \in SUBSET Ids /\ W \in [Places -> Contents] /\ ~m.broken /\ Hosted(m)
  BY DEF Sound
<1>2. At(W, a) = {} /\ (m.heap[a] = NoObject => \A i \in 1 .. Big : W[<<a, i>>] = Free) /\ m.heap[a].k # "host"
  <2>1. CASE a \in O
    <3>1. Keeps(m, O, W, a)
      BY DEF Sound
    <3> QED BY <2>1, <3>1 DEF Keeps, NoObject
  <2>2. CASE m.heap[a] = NoObject
    <3>1. m.heap[a].k # "host"
      BY <2>2 DEF NoObject
    <3> QED BY <2>2, <3>1, FreeUnheld
  <2> QED BY <2>1, <2>2
<1>3. o \in Objects /\ o.k = "array"
  BY KindsAre
<1>4. /\ m1 \in Memories /\ ~m1.broken /\ m1.host = m.host /\ m1.heap[a] = o
      /\ \A j \in Ids \ {a} : m1.heap[j] = m.heap[j]
  <2>1. IsPut(m1, m, a, o)
    BY <1>1, <1>3, PutFacts
  <2> QED BY <1>1, <2>1 DEF IsPut
<1>5. Hosted(m1)
  BY <1>1, <1>2, <1>3, <1>4, HostedSame
<1>6. PICK E : E = {a}
  OBVIOUS
<1>7. PICK O1 : O1 = O \union {a}
  OBVIOUS
<1>8. Keeps(m1, O1, W, a)
  BY <1>2, <1>3, <1>4, <1>7 DEF Keeps
<1>9. \A r \in Places : IsRef(W[r].v) /\ W[r].v.i \in E => Fits(W[r], m1)
  BY <1>2, <1>6 DEF At
<1>10. Local(m, O, W, m1, O1, W, E)
  <2>1. \A j \in E : Keeps(m1, O1, W, j)
    BY <1>6, <1>8
  <2>2. \A j \in Ids \ E : m1.heap[j] = m.heap[j] /\ (j \in O1 <=> j \in O)
    BY <1>4, <1>6, <1>7
  <2> QED BY <1>9, <2>1, <2>2 DEF Local
<1>11. E \in SUBSET Ids /\ O1 \in SUBSET Ids
  BY <1>1, <1>6, <1>7
<1>12. Sound(m1, O1, W)
  BY <1>1, <1>4, <1>5, <1>10, <1>11, Touches
<1> QED BY <1>2, <1>7, <1>12

-----------------------------------------------------------------------------
(* dropValue as a function                                                 *)

\* There is such a function.
LEMMA Iterated ==
  ASSUME NEW S, NEW n \in Nat, NEW x \in S, NEW step \in [1 .. n -> [S -> S]]
  PROVE  \E g : Iterates(g, S, n, x, step)
<1> DEFINE more == [k \in Nat |-> [y \in S |-> IF k < n THEN step[k + 1][y] ELSE y]]
<1>1. more \in [Nat -> [S -> S]]
  <2>1. ASSUME NEW k \in Nat, NEW y \in S, k < n PROVE step[k + 1][y] \in S
    <3>1. k + 1 \in 1 .. n
      BY <2>1
    <3> QED BY <3>1
  <2> QED BY <2>1
<1>2. PICK f : Follows(f, S, x, more)
  <2> HIDE DEF more
  <2> QED BY <1>1, Recursion
<1> DEFINE g == [i \in 0 .. n |-> f[i]]
<1>3. g \in [0 .. n -> S] /\ g[0] = x
  BY <1>2 DEF Follows
<1>4. ASSUME NEW i \in 1 .. n PROVE g[i] = step[i][g[i - 1]]
  <2>1. i - 1 \in Nat /\ i - 1 < n /\ i - 1 + 1 = i /\ i - 1 \in 0 .. n /\ i \in 0 .. n
    OBVIOUS
  <2>2. f[i] = more[i - 1][f[i - 1]] /\ f[i - 1] \in S
    <3> HIDE DEF more
    <3> QED BY <1>2, <2>1 DEF Follows
  <2>3. more[i - 1][f[i - 1]] = step[i][f[i - 1]]
    BY <2>1, <2>2
  <2> HIDE DEF more
  <2> QED BY <2>1, <2>2, <2>3
<1> HIDE DEF g
<1>5. Iterates(g, S, n, x, step)
  BY <1>3, <1>4 DEF Iterates
<1> QED BY <1>5

LEMMA ShrinksIs ==
  /\ \A m, m1 : m1.heap = m.heap => Shrinks(m, m1)
  /\ \A m, m1, m2 : Shrinks(m, m1) /\ Shrinks(m1, m2) => Shrinks(m, m2)
BY DEF Shrinks, Alike

\* An object that is free now, or counted otherwise.
LEMMA PutShrinks ==
  ASSUME NEW m \in Memories, NEW m1, NEW id \in Ids, NEW o, IsPut(m1, m, id, o)
  PROVE  /\ o = NoObject => Shrinks(m, m1)
         /\ \A n \in Int : o = [m.heap[id] EXCEPT !.rc = n] /\ m.heap[id].k # "free" => Shrinks(m, m1)
<1>1. m1.heap[id] = o /\ \A j \in Ids : j # id => m1.heap[j] = m.heap[j]
  BY DEF IsPut
<1>2. \A j \in Ids : j # id => Alike(m.heap[j], m1.heap[j])
  BY <1>1 DEF Alike
<1>3. CASE o = NoObject
  <2>1. o.k = "free"
    BY <1>3 DEF NoObject
  <2>2. Shrinks(m, m1)
    BY <1>1, <1>2, <2>1 DEF Shrinks
  <2> QED BY <2>2
<1>4. ASSUME NEW n \in Int, o = [m.heap[id] EXCEPT !.rc = n], m.heap[id].k # "free"
      PROVE  Shrinks(m, m1)
  <2>1. PICK h \in Objects : h = m.heap[id]
    BY MemoryIs
  <2>2. h \in Strings \union Arrays \union Handles
    BY <1>4, <2>1 DEF Objects, NoObject
  <2>3. Alike(h, [h EXCEPT !.rc = n])
    BY <2>2 DEF Strings, Arrays, Handles, Alike
  <2>4. Alike(m.heap[id], m1.heap[id])
    BY <1>1, <1>4, <2>1, <2>3
  <2> QED BY <1>2, <2>4 DEF Shrinks
<1> QED BY <1>3, <1>4

\* The elements one after the other.
LEMMA DropAllIs ==
  ASSUME NEW d \in [Arguments -> Memories], NEW vs \in Seq(Values), NEW t \in AllTypes, NEW m \in Memories
  PROVE  \E g : DropsAll(g, d, vs, t, m)
<1> PICK n : n = Len(vs)
  OBVIOUS
<1>1. n \in Nat /\ \A i \in 1 .. n : vs[i] \in Values
  BY SeqFacts
<1> DEFINE step == [i \in 1 .. n |-> [x \in Memories |-> d[<<vs[i], t, x>>]]]
           Body(f) == [i \in 0 .. n |-> IF i = 0 THEN m ELSE d[<<vs[i], t, f[i - 1]>>]]
<1>2. step \in [1 .. n -> [Memories -> Memories]]
  BY <1>1 DEF Arguments
<1>3. PICK g : Iterates(g, Memories, n, m, step)
  <2> HIDE DEF step
  <2> QED BY <1>1, <1>2, Iterated
<1> USE <1>3 DEF Iterates
<1>4. ASSUME NEW i \in 1 .. n PROVE i - 1 \in 0 .. n /\ i \in 0 .. n /\ i # 0
  BY <1>1
<1>5. g = Body(g)
  <2>1. ASSUME NEW i \in 0 .. n PROVE g[i] = IF i = 0 THEN m ELSE d[<<vs[i], t, g[i - 1]>>]
    <3>1. CASE i = 0
      BY <1>3, <3>1
    <3>2. CASE i # 0
      <4>1. i \in 1 .. n
        BY <1>1, <3>2
      <4>2. g[i] = step[i][g[i - 1]] /\ g[i - 1] \in Memories
        <5> HIDE DEF step
        <5> QED BY <1>3, <1>4, <4>1
      <4> QED BY <3>2, <4>1, <4>2
    <3> QED BY <3>1, <3>2
  <2>2. g = [i \in 0 .. n |-> g[i]]
    BY <1>3
  <2> HIDE DEF step
  <2> QED BY <2>1, <2>2
<1> DEFINE e == CHOOSE h : h = Body(h)
<1>6. e = Body(e)
  <2> HIDE DEF Body
  <2> QED BY <1>5
<1>7. DropAll(d, vs, t, m) = e[n]
  <2>1. planForType[t].drop # "None"
    BY PlanIs DEF Plans, Plan
  <2> QED BY <2>1 DEF DropAll
<1> HIDE DEF e
<1>8. e \in [0 .. n -> Memories] /\ e[0] = m /\ \A i \in 1 .. n : e[i] = d[<<vs[i], t, e[i - 1]>>]
  <2>1. e[0] = m /\ \A i \in 1 .. n : e[i] = d[<<vs[i], t, e[i - 1]>>]
    BY <1>1, <1>4, <1>6
  <2>2. e = [i \in 0 .. n |-> e[i]]
    BY <1>6
  <2> HIDE DEF Body
  <2> DEFINE T == {i \in 0 .. n : e[i] \in Memories}
  <2>3. 0 \in T
    BY <1>1, <2>1
  <2>4. ASSUME NEW i \in 0 .. n - 1, i \in T PROVE i + 1 \in T
    <3>1. i + 1 \in 1 .. n /\ i + 1 - 1 = i /\ i + 1 \in 0 .. n
      BY <1>1
    <3>2. e[i + 1] = d[<<vs[i + 1], t, e[i]>>]
      BY <2>1, <3>1
    <3>3. <<vs[i + 1], t, e[i]>> \in Arguments
      BY <1>1, <2>4, <3>1 DEF Arguments
    <3> QED BY <3>1, <3>2, <3>3
  <2>5. 0 .. n \subseteq T
    <3> HIDE DEF T
    <3> QED BY <1>1, <2>3, <2>4, UpTo
  <2>6. \A i \in 0 .. n : e[i] \in Memories
    BY <2>5
  <2> QED BY <2>1, <2>2, <2>6
<1>9. DropsAll(e, d, vs, t, m)
  BY <1>7, <1>8 DEF DropsAll
<1> QED BY <1>9

\* They leave the flags as they are.
LEMMA DropAllTyped ==
  ASSUME NEW d \in DropFns, NEW vs \in Seq(Values), NEW t \in AllTypes, NEW m \in Memories
  PROVE  LET r == DropAll(d, vs, t, m) IN r \in Memories /\ r.full = m.full /\ r.stuck = m.stuck /\ Shrinks(m, r)
<1> PICK n : n = Len(vs)
  OBVIOUS
<1>1. n \in Nat /\ (\A i \in 1 .. n : vs[i] \in Values) /\ d \in [Arguments -> Memories]
  BY SeqFacts DEF DropFns
<1> PICK g : DropsAll(g, d, vs, t, m)
  BY <1>1, DropAllIs
<1>2. /\ g \in [0 .. n -> Memories] /\ g[0] = m /\ \A i \in 1 .. n : g[i] = d[<<vs[i], t, g[i - 1]>>]
      /\ DropAll(d, vs, t, m) = g[n]
  BY DEF DropsAll
<1> DEFINE T == {i \in 0 .. n : g[i].full = m.full /\ g[i].stuck = m.stuck /\ Shrinks(m, g[i])}
<1>3. 0 \in T
  <2>1. Shrinks(m, m)
    BY ShrinksIs
  <2> QED BY <1>1, <1>2, <2>1
<1>4. ASSUME NEW i \in 0 .. n - 1, i \in T PROVE i + 1 \in T
  <2>1. i + 1 \in 1 .. n /\ i + 1 - 1 = i /\ i + 1 \in 0 .. n /\ i \in 0 .. n
    BY <1>1
  <2>2. PICK a : a = <<vs[i + 1], t, g[i]>>
    OBVIOUS
  <2>3. a \in Arguments /\ a[3] = g[i]
    BY <1>1, <1>2, <2>1, <2>2 DEF Arguments
  <2>4. g[i + 1] = d[a]
    BY <1>2, <2>1, <2>2
  <2>5. d[a].full = g[i].full /\ d[a].stuck = g[i].stuck /\ Shrinks(g[i], d[a])
    BY <2>3 DEF DropFns
  <2>6. Shrinks(m, g[i + 1])
    BY <1>4, <2>4, <2>5, ShrinksIs
  <2> QED BY <1>4, <2>1, <2>4, <2>5, <2>6
<1>5. n \in T
  <2>1. 0 .. n \subseteq T
    <3> HIDE DEF T
    <3> QED BY <1>1, <1>3, <1>4, UpTo
  <2> QED BY <1>1, <2>1
<1>6. g[n] \in Memories
  BY <1>1, <1>2
<1> QED BY <1>2, <1>5, <1>6

\* A memory without an object, or with another count of one.
LEMMA UnallocIs ==
  ASSUME NEW m \in Memories, NEW id \in Ids
  PROVE  IsPut(Unalloc(id, m), m, id, NoObject)
<1>1. Unalloc(id, m) = Put(m, id, NoObject)
  BY DEF Unalloc, Put
<1>2. NoObject \in Objects
  BY KindsAre
<1>3. PICK o \in Objects : o = NoObject
  BY <1>2
<1>4. PICK r : r = Unalloc(id, m)
  OBVIOUS
<1>5. IsPut(r, m, id, o)
  BY <1>1, <1>3, <1>4, PutFacts
<1> QED BY <1>3, <1>4, <1>5

\* A memory with another count of an object.
LEMMA CountPut ==
  ASSUME NEW m \in Memories, NEW id \in Ids, m.heap[id].k # "free", NEW d \in Int
  PROVE  IsPut(Count(id, d, m), m, id, [m.heap[id] EXCEPT !.rc = m.heap[id].rc + d])
<1>1. PICK o : o = [m.heap[id] EXCEPT !.rc = m.heap[id].rc + d]
  OBVIOUS
<1>2. o \in Objects /\ Count(id, d, m) = Put(m, id, o)
  BY <1>1, CountIs
<1>3. PICK r : r = Count(id, d, m)
  OBVIOUS
<1>4. IsPut(r, m, id, o)
  BY <1>2, <1>3, PutFacts
<1> QED BY <1>1, <1>3, <1>4

LEMMA OneDropTyped ==
  ASSUME RegsOK, NEW m \in Memories, NEW id \in Ids
  PROVE  /\ Lessens(m, releaseString(id, m)) /\ Lessens(m, releaseHandle(id, m))
         /\ Lessens(m, Unalloc(id, m)) /\ Lessens(m, Break(m))
         /\ m.heap[id].k # "free" => Lessens(m, Count(id, -1, m))
<1>1. ASSUME NEW x \in Memories PROVE Lessens(x, Unalloc(id, x))
  <2>1. PICK r, o : r = Unalloc(id, x) /\ o = NoObject
    OBVIOUS
  <2>2. IsPut(r, x, id, o)
    BY <2>1, UnallocIs
  <2>3. Shrinks(x, r)
    BY <2>1, <2>2, PutShrinks
  <2> QED BY <2>1, <2>2, <2>3 DEF IsPut, Lessens
<1>2. Lessens(m, Break(m))
  <2>1. Break(m) \in Memories /\ Break(m).full = m.full /\ Break(m).stuck = m.stuck /\ Break(m).heap = m.heap
    BY FlagsAre
  <2>2. Shrinks(m, Break(m))
    BY <2>1, ShrinksIs
  <2> QED BY <2>1, <2>2 DEF Lessens
<1>3. ASSUME m.heap[id].k # "free" PROVE Lessens(m, Count(id, -1, m))
  <2>1. PICK r : r = Count(id, -1, m)
    OBVIOUS
  <2>2. PICK n, o : n = m.heap[id].rc + (-1) /\ o = [m.heap[id] EXCEPT !.rc = n]
    OBVIOUS
  <2>3. n \in Int
    <3>1. m.heap[id] \in Objects
      BY MemoryIs
    <3>2. m.heap[id].rc \in Int
      BY <1>3, <3>1 DEF Objects, Strings, Arrays, Handles, NoObject
    <3> QED BY <2>2, <3>2
  <2>4. IsPut(r, m, id, o)
    BY <1>3, <2>1, <2>2, CountPut
  <2>5. Shrinks(m, r)
    BY <1>3, <2>2, <2>3, <2>4, PutShrinks
  <2> QED BY <2>1, <2>4, <2>5 DEF IsPut, Lessens
<1>4. Lessens(m, releaseString(id, m))
  <2>1. \/ releaseString(id, m) \in {Break(m), Unalloc(id, m)}
        \/ m.heap[id].k = "string" /\ releaseString(id, m) = Count(id, -1, m)
    BY DEF releaseString, Is
  <2> QED BY <1>1, <1>2, <1>3, <2>1
<1>5. Lessens(m, releaseHandle(id, m))
  <2>1. CASE m.heap[id].k # "host"
    BY <1>2, <2>1 DEF releaseHandle, Is
  <2>2. CASE m.heap[id].k = "host" /\ m.heap[id].rc > 1
    <3>1. releaseHandle(id, m) = Count(id, -1, m)
      BY <2>2 DEF releaseHandle, Is
    <3> QED BY <1>3, <2>2, <3>1
  <2>3. CASE m.heap[id].k = "host" /\ ~(m.heap[id].rc > 1)
    <3>1. PICK h : h = m.heap[id]
      OBVIOUS
    <3>2. h \in Objects /\ h.k = "host"
      BY <2>3, <3>1, MemoryIs
    <3>3. h \in Handles
      BY <3>2, ObjectIs
    <3>4. PICK m1 : m1 = Calls(h, 1, m)
      OBVIOUS
    <3>5. m1 \in Memories /\ m1.full = m.full /\ m1.stuck = m.stuck /\ m1.heap = m.heap
      BY <3>3, <3>4, CallsIs
    <3>6. Shrinks(m, m1) /\ Lessens(m1, Unalloc(id, m1))
      BY <1>1, <3>5, ShrinksIs
    <3>7. releaseHandle(id, m) = Unalloc(id, m1)
      BY <2>3, <3>1, <3>4 DEF releaseHandle, Is
    <3>8. Shrinks(m, Unalloc(id, m1))
      BY <3>6, ShrinksIs DEF Lessens
    <3> QED BY <3>5, <3>6, <3>7, <3>8 DEF Lessens
  <2> QED BY <2>1, <2>2, <2>3
<1> QED BY <1>1, <1>2, <1>3, <1>4, <1>5

\* A reference has an id.
LEMMA ValueRef ==
  ASSUME NEW v \in Values, v.tag \in RefTags
  PROVE  v.i \in Ids
BY DEF Values, Nil, Uninitialized, RefTags

\* The elements and the type of an array in a memory.
LEMMA ArrayIn ==
  ASSUME NEW m \in Memories, NEW id \in Ids, m.heap[id].k = "array"
  PROVE  /\ m.heap[id] \in Arrays /\ m.heap[id].data \in Seq(Values) /\ m.heap[id].el \in AllTypes
         /\ m.heap[id].rc \in Int /\ m.heap[id].cap \in Nat /\ m.heap[id].fixed \in BOOLEAN
<1>1. PICK o : o = m.heap[id]
  OBVIOUS
<1>2. o \in Objects /\ o.k = "array"
  BY <1>1, MemoryIs
<1>3. o \in Arrays
  BY <1>2, ObjectIs
<1> QED BY <1>1, <1>3, KindsAre

\* One level of dropValue.
LEMMA DroppedTyped ==
  ASSUME RegsOK, NEW d \in DropFns, NEW v \in Values, NEW t \in AllTypes, NEW m \in Memories
  PROVE  Lessens(m, Dropped(d, v, t, m))
<1> DEFINE kind == planForType[t].drop
<1>1. CASE kind = "FreeString" /\ v.tag = "string"
  <2>1. v.i \in Ids /\ Dropped(d, v, t, m) = releaseString(v.i, m)
    BY <1>1, ValueRef DEF Dropped, RefTags
  <2> QED BY <2>1, OneDropTyped
<1>2. CASE kind = "Release" /\ v.tag = "host"
  <2>1. v.i \in Ids /\ Dropped(d, v, t, m) = releaseHandle(v.i, m)
    BY <1>2, ValueRef DEF Dropped, RefTags
  <2> QED BY <2>1, OneDropTyped
<1>3. CASE kind \in {"FreeArray", "ElementWise"} /\ v.tag = "array"
  <2> PICK id : id = v.i
    OBVIOUS
  <2>1. id \in Ids
    BY <1>3, ValueRef DEF RefTags
  <2>2. Dropped(d, v, t, m) = IF m.heap[id].k # "array" THEN Break(m)
                              ELSE IF kind = "FreeArray" THEN releaseArray(d, id, m)
                              ELSE DropAll(d, m.heap[id].data, m.heap[id].el, m)
    BY <1>3 DEF Dropped, Is
  <2>3. CASE m.heap[id].k # "array"
    BY <2>1, <2>2, <2>3, OneDropTyped
  <2>4. CASE m.heap[id].k = "array"
    <3>1. m.heap[id].data \in Seq(Values) /\ m.heap[id].el \in AllTypes
      BY <2>1, <2>4, ArrayIn
    <3>2. PICK m1 : m1 = DropAll(d, m.heap[id].data, m.heap[id].el, m)
      OBVIOUS
    <3>3. Lessens(m, m1)
      BY <3>1, <3>2, DropAllTyped DEF Lessens
    <3>4. Lessens(m, Unalloc(id, m1))
      <4>1. m1 \in Memories /\ Lessens(m1, Unalloc(id, m1))
        BY <2>1, <3>3, OneDropTyped DEF Lessens
      <4>2. Shrinks(m, Unalloc(id, m1))
        BY <3>3, <4>1, ShrinksIs DEF Lessens
      <4> QED BY <3>3, <4>1, <4>2 DEF Lessens
    <3>5. Lessens(m, Count(id, -1, m))
      BY <2>1, <2>4, OneDropTyped
    <3>6. Lessens(m, releaseArray(d, id, m))
      BY <3>2, <3>4, <3>5 DEF releaseArray
    <3> QED BY <2>2, <2>4, <3>2, <3>3, <3>6
  <2> QED BY <2>3, <2>4
<1>4. CASE ~(kind = "FreeString" /\ v.tag = "string") /\ ~(kind = "Release" /\ v.tag = "host")
           /\ ~(kind \in {"FreeArray", "ElementWise"} /\ v.tag = "array")
  <2>1. Dropped(d, v, t, m) = m
    BY <1>4 DEF Dropped
  <2>2. Shrinks(m, m)
    BY ShrinksIs
  <2> QED BY <2>1, <2>2 DEF Lessens
<1> QED BY <1>1, <1>2, <1>3, <1>4

\* dropValue by levels.
LEMMA DroppingIs ==
  ASSUME RegsOK
  PROVE  /\ \A n \in Nat : dropping[n] \in DropFns
         /\ \A n \in Nat : \A a \in Arguments : dropping[n + 1][a] = Dropped(dropping[n], a[1], a[2], a[3])
<1> DEFINE first == [a \in Arguments |-> a[3]]
           next(d) == [a \in Arguments |-> Dropped(d, a[1], a[2], a[3])]
           step == [n \in Nat |-> [d \in DropFns |-> next(d)]]
           Body(f) == [n \in Nat |-> [a \in Arguments |-> IF n = 0 THEN a[3] ELSE Dropped(f[n - 1], a[1], a[2], a[3])]]
<1>1. \A a \in Arguments : a[1] \in Values /\ a[2] \in AllTypes /\ a[3] \in Memories
  BY DEF Arguments
<1>2. first \in DropFns
  <2>1. \A m : Shrinks(m, m)
    BY ShrinksIs
  <2> QED BY <1>1, <2>1 DEF DropFns
<1>3. ASSUME NEW d \in DropFns PROVE next(d) \in DropFns
  <2>1. ASSUME NEW a \in Arguments
        PROVE  /\ next(d)[a] \in Memories /\ next(d)[a].full = a[3].full /\ next(d)[a].stuck = a[3].stuck
               /\ Shrinks(a[3], next(d)[a])
    <3>1. PICK v \in Values, t \in AllTypes, m \in Memories : v = a[1] /\ t = a[2] /\ m = a[3]
      BY <1>1
    <3>2. LET r == Dropped(d, v, t, m) IN r \in Memories /\ r.full = m.full /\ r.stuck = m.stuck /\ Shrinks(m, r)
      BY DroppedTyped DEF Lessens
    <3> QED BY <3>1, <3>2
  <2>2. next(d) \in [Arguments -> Memories]
    BY <2>1
  <2> HIDE DEF next
  <2> QED BY <2>1, <2>2 DEF DropFns
<1>4. step \in [Nat -> [DropFns -> DropFns]]
  <2> HIDE DEF next
  <2> QED BY <1>3
<1>5. PICK f : Follows(f, DropFns, first, step)
  <2> HIDE DEF first, step
  <2> QED BY <1>2, <1>4, Recursion
<1>6. f \in [Nat -> DropFns] /\ f[0] = first /\ \A n \in Nat : f[n + 1] = next(f[n])
  <2> HIDE DEF first, next
  <2> QED BY <1>5 DEF Follows
<1>7. f = Body(f)
  <2>1. ASSUME NEW n \in Nat PROVE f[n] = Body(f)[n]
    <3>1. CASE n = 0
      BY <1>6, <3>1
    <3>2. CASE n # 0
      <4>1. n - 1 \in Nat /\ n - 1 + 1 = n
        BY <3>2
      <4>2. f[n] = next(f[n - 1])
        <5> HIDE DEF next, first
        <5> QED BY <1>6, <4>1
      <4> QED BY <3>2, <4>2
    <3> QED BY <3>1, <3>2
  <2>2. f = [n \in Nat |-> f[n]]
    BY <1>6
  <2> HIDE DEF step, first
  <2> QED BY <2>1, <2>2
<1>8. dropping = CHOOSE h : h = Body(h)
  BY DEF dropping
<1>9. dropping = Body(dropping)
  <2> HIDE DEF Body
  <2> QED BY <1>7, <1>8
<1>10. dropping[0] = first
  BY <1>9
<1>11. ASSUME NEW n \in Nat PROVE dropping[n + 1] = next(dropping[n])
  <2>1. n + 1 \in Nat /\ n + 1 # 0 /\ n + 1 - 1 = n
    OBVIOUS
  <2> QED BY <1>9, <2>1
<1> HIDE DEF Body, next, first
<1> DEFINE T == {n \in Nat : dropping[n] \in DropFns}
<1>12. Nat \subseteq T
  <2>1. 0 \in T
    BY <1>2, <1>10
  <2>2. ASSUME NEW n \in Nat, n \in T PROVE n + 1 \in T
    BY <1>3, <1>11, <2>2
  <2> HIDE DEF T
  <2> QED BY <2>1, <2>2, NatInd
<1>13. \A n \in Nat : dropping[n] \in DropFns
  BY <1>12
<1>14. \A n \in Nat : \A a \in Arguments : dropping[n + 1][a] = Dropped(dropping[n], a[1], a[2], a[3])
  BY <1>11 DEF next
<1> QED BY <1>13, <1>14

-----------------------------------------------------------------------------
(* copyValue as a function                                                 *)

\* The parts of a value with a memory.
LEMMA VMIs ==
  /\ \A v \in Values, m \in Memories : VM(v, m) \in VMs /\ VM(v, m).v = v /\ VM(v, m).m = m
  /\ \A r \in VMs : r.v \in Values /\ r.m \in Memories
  /\ \A s \in Seq(Values), m \in Memories : VM(s, m) \in Parts /\ VM(s, m).v = s /\ VM(s, m).m = m
  /\ \A r \in Parts : r.v \in Seq(Values) /\ r.m \in Memories
BY DEF VM, VMs, Parts

\* CopyInto is that for some g.
LEMMA CopyIntoIs ==
  ASSUME NEW c \in [Arguments -> VMs], NEW dst \in Ids, NEW src \in Ids, NEW m \in Memories,
         NEW o, o = m.heap[src], o.data \in Seq(Values), o.el \in AllTypes
  PROVE  \E g : IntoArray(g, c, o, m, dst, CopyInto(c, dst, src, m))
<1> PICK n : n = Len(o.data)
  OBVIOUS
<1>1. n \in Nat /\ \A i \in 1 .. n : o.data[i] \in Values
  BY SeqFacts
<1> DEFINE grown(i, x) == VM(Append(x.v, c[<<o.data[i], o.el, x.m>>].v), c[<<o.data[i], o.el, x.m>>].m)
           step == [i \in 1 .. n |-> [x \in Parts |-> grown(i, x)]]
           Body(f) == [i \in 0 .. n |->
                         IF i = 0 THEN VM(<< >>, m)
                         ELSE LET before == f[i - 1]
                                  r == c[<<o.data[i], o.el, before.m>>]
                              IN  VM(Append(before.v, r.v), r.m)]
<1>2. ASSUME NEW i \in 1 .. n, NEW x \in Parts PROVE grown(i, x) \in Parts
  <2>1. x.v \in Seq(Values) /\ x.m \in Memories
    BY VMIs
  <2>2. PICK r : r = c[<<o.data[i], o.el, x.m>>]
    OBVIOUS
  <2>3. r \in VMs
    BY <1>1, <2>1, <2>2 DEF Arguments
  <2>4. r.v \in Values /\ r.m \in Memories
    BY <2>3, VMIs
  <2>5. Append(x.v, r.v) \in Seq(Values)
    BY <2>1, <2>4, Appended
  <2> QED BY <2>2, <2>4, <2>5, VMIs
<1>3. step \in [1 .. n -> [Parts -> Parts]]
  <2> HIDE DEF grown
  <2> QED BY <1>2
<1>4. PICK first \in Parts : first = VM(<< >>, m)
  <2>1. << >> \in Seq(Values)
    OBVIOUS
  <2>2. PICK s \in Seq(Values) : s = << >>
    BY <2>1
  <2> QED BY <2>2, VMIs
<1>5. PICK g : Iterates(g, Parts, n, first, step)
  <2> HIDE DEF step
  <2> QED BY <1>1, <1>3, Iterated
<1>6. g \in [0 .. n -> Parts] /\ g[0] = first /\ \A i \in 1 .. n : g[i] = step[i][g[i - 1]]
  <2> HIDE DEF step
  <2> QED BY <1>5 DEF Iterates
<1>7. ASSUME NEW i \in 1 .. n PROVE i - 1 \in 0 .. n /\ i \in 0 .. n /\ i # 0
  BY <1>1
<1>8. g = Body(g)
  <2>1. ASSUME NEW i \in 0 .. n PROVE g[i] = IF i = 0 THEN VM(<< >>, m) ELSE grown(i, g[i - 1])
    <3>1. CASE i = 0
      <4> HIDE DEF step, grown
      <4> QED BY <1>4, <1>6, <3>1
    <3>2. CASE i # 0
      <4>1. i \in 1 .. n
        BY <1>1, <3>2
      <4>2. g[i] = step[i][g[i - 1]] /\ g[i - 1] \in Parts
        <5> HIDE DEF step
        <5> QED BY <1>6, <1>7, <4>1, Zenon
      <4> HIDE DEF grown
      <4> QED BY <3>2, <4>1, <4>2
    <3> QED BY <3>1, <3>2
  <2>2. g = [i \in 0 .. n |-> g[i]]
    BY <1>6, Zenon
  <2> HIDE DEF step
  <2> QED BY <2>1, <2>2
<1> DEFINE e == CHOOSE h : h = Body(h)
<1>9. e = Body(e)
  <2> HIDE DEF Body
  <2> QED BY <1>8
<1>10. CopyInto(c, dst, src, m) = VM(Ref("array", dst), [e[n].m EXCEPT !.heap[dst].data = e[n].v])
  BY DEF CopyInto
<1> HIDE DEF e, step
<1>11. e[0] = VM(<< >>, m) /\ (\A i \in 1 .. n : e[i] = grown(i, e[i - 1])) /\ e = [i \in 0 .. n |-> e[i]]
  <2>1. e[0] = VM(<< >>, m)
    BY <1>1, <1>9
  <2>2. \A i \in 1 .. n : e[i] = grown(i, e[i - 1])
    <3> TAKE i \in 1 .. n
    <3> QED BY <1>7, <1>9, Zenon
  <2>3. e = [i \in 0 .. n |-> e[i]]
    BY <1>9
  <2> QED BY <2>1, <2>2, <2>3
<1>12. \A i \in 0 .. n : e[i] \in Parts
  <2> HIDE DEF Body, grown
  <2> DEFINE T == {i \in 0 .. n : e[i] \in Parts}
  <2>1. 0 \in T
    BY <1>1, <1>4, <1>11
  <2>2. ASSUME NEW i \in 0 .. n - 1, i \in T PROVE i + 1 \in T
    <3>1. i + 1 \in 1 .. n /\ i + 1 - 1 = i /\ i + 1 \in 0 .. n
      BY <1>1
    <3>2. PICK j : j = i + 1
      OBVIOUS
    <3>3. e[j] = grown(j, e[i])
      <4>1. j - 1 = i /\ j \in 1 .. n
        BY <3>1, <3>2
      <4>2. e[j] = grown(j, e[j - 1])
        BY <1>11, <4>1
      <4> QED BY <4>1, <4>2
    <3>4. grown(j, e[i]) \in Parts
      BY <1>2, <2>2, <3>1, <3>2
    <3> QED BY <3>1, <3>2, <3>3, <3>4
  <2>3. 0 .. n \subseteq T
    <3> HIDE DEF T
    <3> QED BY <1>1, <2>1, <2>2, UpTo
  <2> QED BY <2>3
<1>13. e \in [0 .. n -> Parts]
  <2> HIDE DEF Body, grown
  <2> QED BY <1>11, <1>12
<1>14. Collects(e, c, o, m)
  <2> HIDE DEF Body
  <2> QED BY <1>11, <1>13, Zenon DEF Collects
<1>15. IntoArray(e, c, o, m, dst, CopyInto(c, dst, src, m))
  <2> HIDE DEF Body
  <2> QED BY <1>10, <1>14, Zenon DEF IntoArray
<1> QED BY <1>15

\* What one copy keeps the next keeps.
LEMMA KeepingIs ==
  /\ \A m : Keeping(m, m)
  /\ \A m, m1, m2 : Keeping(m, m1) /\ Keeping(m1, m2) => Keeping(m, m2)
BY DEF Keeping, SameHandle

\* The elements collected so far are as many as the copies made, and strings and arrays are as before.
LEMMA CollectsKeeps ==
  ASSUME NEW c \in CopyFns, NEW o, o.data \in Seq(Values), o.el \in AllTypes, NEW m \in Memories,
         NEW g, Collects(g, c, o, m)
  PROVE  \A i \in 0 .. Len(o.data) : /\ g[i].v \in Seq(Values) /\ g[i].m \in Memories
                                     /\ Keeping(m, g[i].m) /\ Len(g[i].v) = i
<1> PICK n : n = Len(o.data)
  OBVIOUS
<1>1. n \in Nat /\ (\A i \in 1 .. n : o.data[i] \in Values) /\ c \in [Arguments -> VMs]
  BY SeqFacts DEF CopyFns
<1>2. \A i \in 0 .. n : g[i].v \in Seq(Values) /\ g[i].m \in Memories
  BY VMIs DEF Collects
<1> DEFINE T == {i \in 0 .. n : Keeping(m, g[i].m) /\ Len(g[i].v) = i}
<1>3. 0 \in T
  <2>1. << >> \in Seq(Values) /\ Len(<< >>) = 0
    OBVIOUS
  <2>2. g[0] = VM(<< >>, m)
    BY DEF Collects
  <2>3. g[0].v = << >> /\ g[0].m = m
    <3>1. PICK s \in Seq(Values) : s = << >>
      BY <2>1
    <3>2. g[0] = VM(s, m)
      BY <2>2, <3>1
    <3> QED BY <3>1, <3>2 DEF VM
  <2>4. Len(g[0].v) = 0 /\ Keeping(m, g[0].m)
    BY <2>1, <2>3, KeepingIs
  <2> QED BY <1>1, <2>4
<1>4. ASSUME NEW i \in 0 .. n - 1, i \in T PROVE i + 1 \in T
  <2>1. PICK j : j = i + 1
    OBVIOUS
  <2>2. j \in 1 .. n /\ j - 1 = i /\ j \in 0 .. n /\ i \in 0 .. n
    BY <1>1, <2>1
  <2>3. PICK a : a = <<o.data[j], o.el, g[i].m>>
    OBVIOUS
  <2>4. a \in Arguments /\ a[3] = g[i].m
    BY <1>1, <1>2, <2>2, <2>3 DEF Arguments
  <2>5. PICK r : r = c[a]
    OBVIOUS
  <2>6. r \in VMs /\ Keeping(g[i].m, r.m)
    BY <2>4, <2>5 DEF CopyFns
  <2>7. g[j] = VM(Append(g[i].v, r.v), r.m)
    <3>1. g[j - 1] = g[i]
      BY <2>2
    <3> QED BY <2>2, <2>3, <2>5, <3>1 DEF Collects
  <2>8. r.v \in Values /\ r.m \in Memories /\ g[i].v \in Seq(Values)
    BY <1>2, <2>2, <2>6, VMIs
  <2>9. Append(g[i].v, r.v) \in Seq(Values) /\ Len(Append(g[i].v, r.v)) = Len(g[i].v) + 1
    BY <2>8, Appended
  <2>10. g[j].v = Append(g[i].v, r.v) /\ g[j].m = r.m
    <3>1. PICK s \in Seq(Values) : s = Append(g[i].v, r.v)
      BY <2>9
    <3>2. g[j] = VM(s, r.m)
      BY <2>7, <3>1
    <3> QED BY <3>1, <3>2 DEF VM
  <2>11. Keeping(m, g[j].m) /\ Len(g[j].v) = j
    BY <1>4, <2>1, <2>6, <2>9, <2>10, KeepingIs
  <2> QED BY <2>1, <2>2, <2>11
<1>5. 0 .. n \subseteq T
  <2> HIDE DEF T
  <2> QED BY <1>1, <1>3, <1>4, UpTo
<1> QED BY <1>2, <1>5

\* An object where there was none.
LEMMA AllocIs ==
  ASSUME NEW m \in Memories, Room(m), NEW o \in Objects
  PROVE  Fresh(m) \in Ids /\ m.heap[Fresh(m)] = NoObject /\ IsPut(Alloc(o, m), m, Fresh(m), o) /\ Alloc(o, m) = Put(m, Fresh(m), o)
<1>1. Fresh(m) \in Ids /\ m.heap[Fresh(m)] = NoObject
  BY FreshIs
<1>2. Alloc(o, m) = Put(m, Fresh(m), o)
  BY DEF Alloc, Put
<1>3. PICK f \in Ids : f = Fresh(m)
  BY <1>1
<1>4. PICK r : r = Alloc(o, m)
  OBVIOUS
<1>5. IsPut(r, m, f, o)
  BY <1>2, <1>3, <1>4, PutFacts
<1> QED BY <1>1, <1>2, <1>3, <1>4, <1>5

\* A new array.
LEMMA ArrayObjectIs ==
  ASSUME NEW t \in AllTypes, NEW fixed \in BOOLEAN, NEW data \in Seq(Values), NEW cap \in Nat
  PROVE  LET o == ArrayObject(t, fixed, data, cap)
         IN  /\ o \in Arrays /\ o \in Objects /\ o.k = "array" /\ o.rc = 1 /\ o.el = t
             /\ o.fixed = fixed /\ o.data = data /\ o.cap = cap
<1>1. ArrayObject(t, fixed, data, cap) \in Arrays
  BY DEF ArrayObject, Arrays
<1> QED BY <1>1, KindsAre DEF ArrayObject

\* The first data of an array.
LEMMA FirstData ==
  /\ << >> \in Seq(Values) /\ Len(<< >>) = 0
  /\ <<Uninitialized, Uninitialized>> \in Seq(Values) /\ Len(<<Uninitialized, Uninitialized>>) = 2
  /\ FixedLength \in Nat /\ 0 \in Nat
BY ValuesAre DEF FixedLength

\* A memory with another object than a string or an array keeps these.
LEMMA PutKeeps ==
  ASSUME NEW m, NEW r, NEW id, NEW o, IsPut(r, m, id, o), m.heap[id].k \notin {"string", "array"},
         m.heap[id].k = "host" => SameHandle(m.heap[id], o)
  PROVE  Keeping(m, r)
BY DEF IsPut, Keeping, SameHandle

\* A new array of dynamic or fixed length.
LEMMA AllocArrayIs ==
  ASSUME NEW m \in Memories, Room(m), NEW t \in AllTypes
  PROVE  LET f == Fresh(m)
             d == ArrayObject(t, FALSE, << >>, 0)
             x == ArrayObject(t, TRUE, <<Uninitialized, Uninitialized>>, FixedLength)
         IN  /\ f \in Ids /\ m.heap[f] = NoObject
             /\ d \in Arrays /\ x \in Arrays
             /\ IsPut(allocArray(t, m), m, f, d) /\ allocArray(t, m) = Put(m, f, d)
             /\ IsPut(allocFixedArray(t, m), m, f, x) /\ allocFixedArray(t, m) = Put(m, f, x)
             /\ Keeping(m, allocArray(t, m)) /\ Keeping(m, allocFixedArray(t, m))
<1>1. PICK d : d = ArrayObject(t, FALSE, << >>, 0)
  OBVIOUS
<1>2. PICK x : x = ArrayObject(t, TRUE, <<Uninitialized, Uninitialized>>, FixedLength)
  OBVIOUS
<1>3. d \in Arrays /\ d \in Objects
  <2>1. PICK s \in Seq(Values) : s = << >>
    BY FirstData
  <2>2. d = ArrayObject(t, FALSE, s, 0)
    BY <1>1, <2>1
  <2> QED BY <2>2, ArrayObjectIs
<1>4. x \in Arrays /\ x \in Objects
  <2>1. PICK s \in Seq(Values) : s = <<Uninitialized, Uninitialized>>
    BY FirstData
  <2>2. x = ArrayObject(t, TRUE, s, FixedLength)
    BY <1>2, <2>1
  <2> QED BY <2>2, FirstData, ArrayObjectIs
<1>5. PICK f : f = Fresh(m)
  OBVIOUS
<1>6. f \in Ids /\ m.heap[f] = NoObject
  BY <1>5, FreshIs
<1>7. IsPut(Alloc(d, m), m, f, d) /\ Alloc(d, m) = Put(m, f, d)
  BY <1>3, <1>5, AllocIs
<1>8. IsPut(Alloc(x, m), m, f, x) /\ Alloc(x, m) = Put(m, f, x)
  BY <1>4, <1>5, AllocIs
<1>9. allocArray(t, m) = Alloc(d, m) /\ allocFixedArray(t, m) = Alloc(x, m)
  BY <1>1, <1>2 DEF allocArray, allocFixedArray
<1>10. m.heap[f].k \notin {"string", "array", "host"}
  BY <1>6 DEF NoObject
<1>11. Keeping(m, Alloc(d, m)) /\ Keeping(m, Alloc(x, m))
  BY <1>7, <1>8, <1>10, PutKeeps
<1> QED BY <1>1, <1>2, <1>3, <1>4, <1>5, <1>6, <1>7, <1>8, <1>9, <1>11

\* CopyInto changes no other array.
LEMMA CopyIntoTyped ==
  ASSUME NEW c \in CopyFns, NEW m \in Memories, NEW dst \in Ids, NEW src \in Ids,
         m.heap[dst].k = "array", m.heap[src].k = "array"
  PROVE  CopyInto(c, dst, src, m) \in VMs /\ Beside(m, CopyInto(c, dst, src, m).m, dst)
<1>1. PICK o : o = m.heap[src]
  OBVIOUS
<1>2. o.data \in Seq(Values) /\ o.el \in AllTypes
  BY <1>1, ArrayIn
<1>3. PICK n : n = Len(o.data)
  OBVIOUS
<1>4. n \in Nat /\ n \in 0 .. n /\ c \in [Arguments -> VMs]
  BY <1>2, <1>3, SeqFacts DEF CopyFns
<1>5. PICK g : /\ Collects(g, c, o, m)
               /\ CopyInto(c, dst, src, m) = VM(Ref("array", dst), [g[n].m EXCEPT !.heap[dst].data = g[n].v])
  <2>1. \E g : IntoArray(g, c, o, m, dst, CopyInto(c, dst, src, m))
    BY <1>1, <1>2, <1>4, CopyIntoIs
  <2> QED BY <1>3, <2>1 DEF IntoArray
<1>6. g[n].v \in Seq(Values) /\ g[n].m \in Memories /\ Keeping(m, g[n].m)
  BY <1>2, <1>3, <1>4, <1>5, CollectsKeeps
<1>7. PICK s \in Seq(Values), m1 \in Memories : s = g[n].v /\ m1 = g[n].m
  BY <1>6
<1>8. PICK a : a = m1.heap[dst]
  OBVIOUS
<1>9. a \in Arrays
  <2>1. m1.heap[dst] = m.heap[dst]
    BY <1>6, <1>7 DEF Keeping
  <2> QED BY <1>8, <2>1, ArrayIn
<1>10. PICK b : b = [a EXCEPT !.data = s]
  OBVIOUS
<1>11. b \in Arrays
  BY <1>9, <1>10 DEF Arrays
<1>12. [m1 EXCEPT !.heap[dst].data = s] = Put(m1, dst, b)
  <2>1. m1.heap \in [Ids -> Objects]
    BY MemoryIs
  <2> QED BY <1>8, <1>10, <2>1 DEF Put
<1>13. PICK r : r = [m1 EXCEPT !.heap[dst].data = s]
  OBVIOUS
<1>14. IsPut(r, m1, dst, b)
  BY <1>11, <1>12, <1>13, KindsAre, PutFacts
<1>15. Beside(m, r, dst)
  BY <1>6, <1>7, <1>14 DEF IsPut, Beside, Keeping
<1>16. PICK v \in Values : v = Ref("array", dst)
  BY ValuesAre DEF RefTags
<1>17. CopyInto(c, dst, src, m) = VM(v, r) /\ r \in Memories
  BY <1>5, <1>7, <1>13, <1>15, <1>16 DEF Beside
<1>18. VM(v, r) \in VMs /\ VM(v, r).m = r
  BY <1>17, VMIs
<1> QED BY <1>15, <1>17, <1>18

\* A full memory as the result.
LEMMA FullIs == ASSUME NEW m \in Memories PROVE Full(m) \in VMs /\ Keeping(m, Full(m).m) /\ Full(m).m.full
<1>1. Full(m).m \in Memories /\ Full(m).m.full /\ Full(m).v = Nil /\ Full(m).m.heap = m.heap
  BY FlagsAre
<1>2. Full(m) = VM(Full(m).v, Full(m).m)
  BY DEF Full, VM
<1>3. Full(m) \in VMs
  BY <1>1, <1>2, VMIs, ValuesAre
<1> QED BY <1>1, <1>3 DEF Keeping, SameHandle

\* A copy of an array of dynamic or fixed length.
LEMMA ArraysTyped ==
  ASSUME NEW c \in CopyFns, NEW m \in Memories, NEW src \in Ids, m.heap[src].k = "array"
  PROVE  /\ ElementWise(c, src, m) \in VMs /\ Keeping(m, ElementWise(c, src, m).m)
         /\ copyArray(c, src, m) \in VMs /\ Keeping(m, copyArray(c, src, m).m)
<1>1. PICK el \in AllTypes : el = m.heap[src].el
  BY ArrayIn
<1>2. m.heap[src].data \in Seq(Values) /\ Len(m.heap[src].data) \in Nat
  BY ArrayIn, SeqFacts
<1>3. CASE ~Room(m)
  <2>1. ElementWise(c, src, m) = Full(m) /\ copyArray(c, src, m) = Full(m)
    BY <1>3 DEF ElementWise, copyArray
  <2> QED BY <2>1, FullIs
<1>4. CASE Room(m)
  <2>1. PICK f : f = Fresh(m)
    OBVIOUS
  <2>2. PICK d : d = ArrayObject(el, FALSE, << >>, 0)
    OBVIOUS
  <2>3. PICK x : x = ArrayObject(el, TRUE, <<Uninitialized, Uninitialized>>, FixedLength)
    OBVIOUS
  <2>4. PICK md, mx : md = allocArray(el, m) /\ mx = allocFixedArray(el, m)
    OBVIOUS
  <2>5. /\ f \in Ids /\ m.heap[f] = NoObject /\ d \in Arrays /\ x \in Arrays
        /\ IsPut(md, m, f, d) /\ IsPut(mx, m, f, x) /\ Keeping(m, md) /\ Keeping(m, mx)
    BY <1>4, <2>1, <2>2, <2>3, <2>4, AllocArrayIs
  <2>6. f # src
    BY <2>5 DEF NoObject
  <2>7. /\ md \in Memories /\ mx \in Memories /\ md.heap[f] = d /\ mx.heap[f] = x
        /\ md.heap[src] = m.heap[src] /\ mx.heap[src] = m.heap[src]
    BY <2>5, <2>6 DEF IsPut
  <2>8. d.k = "array" /\ x.k = "array" /\ d.cap = 0
    <3>1. d.cap = 0
      BY <2>2 DEF ArrayObject
    <3> QED BY <2>5, <3>1, KindsAre
  <2>9. ASSUME NEW m1 \in Memories, Keeping(m, m1), m1.heap[f].k = "array", m1.heap[src] = m.heap[src]
        PROVE  CopyInto(c, f, src, m1) \in VMs /\ Keeping(m, CopyInto(c, f, src, m1).m)
    <3>1. CopyInto(c, f, src, m1) \in VMs /\ Beside(m1, CopyInto(c, f, src, m1).m, f)
      BY <2>5, <2>9, CopyIntoTyped
    <3>2. m.heap[f].k \notin {"string", "array", "host"}
      BY <2>5 DEF NoObject
    <3> QED BY <2>9, <3>1, <3>2 DEF Keeping, Beside, SameHandle
  <2>10. ElementWise(c, src, m) \in VMs /\ Keeping(m, ElementWise(c, src, m).m)
    <3>1. ElementWise(c, src, m) = CopyInto(c, f, src, mx)
      BY <1>1, <1>4, <2>1, <2>4 DEF ElementWise
    <3> QED BY <2>5, <2>7, <2>8, <2>9, <3>1
  <2>11. ASSUME NEW min \in Nat
         PROVE  LET me == ensureCapacity(f, min, md)
                IN  /\ me \in Memories /\ Keeping(m, me) /\ me.heap[f].k = "array" /\ me.heap[src] = m.heap[src]
    <3>1. d.cap \in Capacities
      BY <2>8 DEF Capacities
    <3>2. PICK me : me = ensureCapacity(f, min, md)
      OBVIOUS
    <3>3. \/ me = md \/ me = [md EXCEPT !.stuck = TRUE]
          \/ \E k \in Caps : me = Put(md, f, [d EXCEPT !.cap = k]) /\ [d EXCEPT !.cap = k] \in Arrays
      BY <2>5, <2>7, <3>1, <3>2, EnsureIs
    <3>4. CASE me = md
      BY <2>5, <2>7, <2>8, <3>2, <3>4
    <3>5. CASE me = [md EXCEPT !.stuck = TRUE]
      <4>1. me \in Memories /\ me.heap = md.heap /\ me.full = md.full
        BY <2>7, <3>5 DEF Memories
      <4> QED BY <2>5, <2>7, <2>8, <3>2, <4>1 DEF Keeping
    <3>6. ASSUME NEW k \in Caps, me = Put(md, f, [d EXCEPT !.cap = k]) /\ [d EXCEPT !.cap = k] \in Arrays
          PROVE  me \in Memories /\ Keeping(m, me) /\ me.heap[f].k = "array" /\ me.heap[src] = m.heap[src]
      <4>1. PICK b : b = [d EXCEPT !.cap = k]
        OBVIOUS
      <4>2. b \in Arrays /\ b \in Objects /\ b.k = "array"
        BY <3>6, <4>1, KindsAre
      <4>3. IsPut(me, md, f, b)
        BY <2>5, <2>7, <3>6, <4>1, <4>2, PutFacts
      <4>4. m.heap[f].k \notin {"string", "array", "host"}
        BY <2>5 DEF NoObject
      <4> QED BY <2>5, <2>6, <2>7, <4>2, <4>3, <4>4 DEF IsPut, Keeping
    <3> QED BY <3>2, <3>3, <3>4, <3>5, <3>6
  <2>12. copyArray(c, src, m) \in VMs /\ Keeping(m, copyArray(c, src, m).m)
    <3>1. CASE m.heap[src].fixed
      BY <2>10, <3>1 DEF copyArray
    <3>2. CASE ~m.heap[src].fixed
      <4>1. PICK min \in Nat : min = Len(m.heap[src].data)
        BY <1>2
      <4>2. PICK me : me = ensureCapacity(f, min, md)
        OBVIOUS
      <4>3. copyArray(c, src, m) = CopyInto(c, f, src, me)
        BY <1>1, <1>4, <2>1, <2>4, <3>2, <4>1, <4>2 DEF copyArray
      <4> QED BY <2>9, <2>11, <4>2, <4>3
    <3> QED BY <3>1, <3>2
  <2> QED BY <2>10, <2>12
<1> QED BY <1>3, <1>4

\* A handle with one more reference.
LEMMA RetainTyped ==
  ASSUME RegsOK, NEW m \in Memories, NEW id \in Ids
  PROVE  retainHandle(id, m) \in Memories /\ Keeping(m, retainHandle(id, m)) /\ retainHandle(id, m).stuck = m.stuck
<1>1. CASE m.heap[id].k # "host"
  <2>1. retainHandle(id, m) = Break(m)
    BY <1>1 DEF retainHandle, Is
  <2> QED BY <2>1, FlagsAre DEF Keeping, SameHandle
<1>2. CASE m.heap[id].k = "host"
  <2>1. PICK h : h = m.heap[id]
    OBVIOUS
  <2>2. h \in Objects /\ h.k = "host"
    BY <1>2, <2>1, MemoryIs
  <2>3. h \in Handles
    BY <2>2, ObjectIs
  <2>4. PICK r : r = Count(id, 1, m)
    OBVIOUS
  <2>5. IsPut(r, m, id, [m.heap[id] EXCEPT !.rc = m.heap[id].rc + 1])
    BY <1>2, <2>4, CountPut
  <2>6. m.heap[id].k \notin {"string", "array"}
    BY <1>2
  <2>7. r \in Memories /\ Keeping(m, r) /\ r.stuck = m.stuck
    <3>1. Keeping(m, r)
      <4>1. h.rc + 1 \in Int
        BY <2>3, KindsAre
      <4>2. SameHandle(m.heap[id], [m.heap[id] EXCEPT !.rc = m.heap[id].rc + 1])
        BY <2>1, <2>3, <4>1, CountedHandle
      <4> QED BY <2>5, <2>6, <4>2, PutKeeps
    <3> QED BY <2>5, <3>1 DEF IsPut
  <2>8. PICK s : s = Calls(h, 0, r)
    OBVIOUS
  <2>9. s \in Memories /\ s.heap = r.heap /\ s.full = r.full /\ s.stuck = r.stuck
    BY <2>3, <2>7, <2>8, CallsIs
  <2>10. Keeping(m, s)
    BY <2>7, <2>9 DEF Keeping
  <2>11. retainHandle(id, m) \in {r, s}
    BY <1>2, <2>1, <2>4, <2>8 DEF retainHandle, Is
  <2> QED BY <2>7, <2>9, <2>10, <2>11
<1> QED BY <1>1, <1>2

\* A new string.
LEMMA AllocStringIs ==
  ASSUME NEW m \in Memories, Room(m), NEW b \in Bytes
  PROVE  LET f == Fresh(m)
             o == StringObject(b)
         IN  /\ f \in Ids /\ m.heap[f] = NoObject /\ o \in Strings /\ o.k = "string" /\ o.rc = 1 /\ o.bytes = b
             /\ IsPut(allocString(b, m), m, f, o) /\ Keeping(m, allocString(b, m))
<1>1. PICK o : o = StringObject(b)
  OBVIOUS
<1>2. o \in Strings /\ o.k = "string" /\ o.rc = 1 /\ o.bytes = b
  BY <1>1 DEF StringObject, Strings
<1>3. o \in Objects
  BY <1>2, KindsAre
<1>4. PICK f : f = Fresh(m)
  OBVIOUS
<1>5. f \in Ids /\ m.heap[f] = NoObject /\ IsPut(Alloc(o, m), m, f, o)
  BY <1>3, <1>4, AllocIs
<1>6. allocString(b, m) = Alloc(o, m)
  BY <1>1 DEF allocString
<1>7. m.heap[f].k \notin {"string", "array", "host"}
  BY <1>5 DEF NoObject
<1>8. Keeping(m, Alloc(o, m))
  BY <1>5, <1>7, PutKeeps
<1> QED BY <1>1, <1>2, <1>4, <1>5, <1>6, <1>8

\* A copy of a string.
LEMMA CopyStringTyped ==
  ASSUME NEW m \in Memories, NEW id \in Ids, m.heap[id].k = "string"
  PROVE  CopyString(id, m) \in VMs /\ Keeping(m, CopyString(id, m).m)
<1>1. CASE ~Room(m)
  BY <1>1, FullIs DEF CopyString
<1>2. CASE Room(m)
  <2>1. PICK o : o = m.heap[id]
    OBVIOUS
  <2>2. o \in Objects /\ o.k = "string"
    BY <2>1, MemoryIs
  <2>3. o \in Strings
    BY <2>2, ObjectIs
  <2>4. PICK b : b = o.bytes
    OBVIOUS
  <2>5. b \in Bytes
    BY <2>3, <2>4, KindsAre
  <2>6. PICK r : r = allocString(b, m)
    OBVIOUS
  <2>7. PICK f : f = Fresh(m)
    OBVIOUS
  <2>8. f \in Ids /\ IsPut(r, m, f, StringObject(b)) /\ Keeping(m, r)
    BY <1>2, <2>5, <2>6, <2>7, AllocStringIs
  <2>9. PICK v \in Values : v = Ref("string", f)
    BY <2>8, ValuesAre DEF RefTags
  <2>10. CopyString(id, m) = VM(v, r)
    BY <1>2, <2>1, <2>4, <2>6, <2>7, <2>9 DEF CopyString
  <2>11. r \in Memories
    BY <2>8 DEF IsPut
  <2> QED BY <2>8, <2>9, <2>10, <2>11, VMIs
<1> QED BY <1>1, <1>2

\* One level of copyValue.
LEMMA CopiedTyped ==
  ASSUME RegsOK, NEW c \in CopyFns, NEW v \in Values, NEW t \in AllTypes, NEW m \in Memories
  PROVE  Copied(c, v, t, m) \in VMs /\ Keeping(m, Copied(c, v, t, m).m)
<1> DEFINE kind == planForType[t].copy
           Good(r) == r \in VMs /\ Keeping(m, r.m)
<1> SUFFICES Good(Copied(c, v, t, m))
  OBVIOUS
<1>1. CASE v.tag \in RefTags /\ ~Is(v.tag, v.i, m)
  <2>1. Copied(c, v, t, m) = VM(Nil, Break(m))
    BY <1>1 DEF Copied
  <2>2. Break(m) \in Memories /\ Keeping(m, Break(m))
    BY FlagsAre DEF Keeping, SameHandle
  <2> QED BY <2>1, <2>2, VMIs, ValuesAre
<1>2. CASE ~(v.tag \in RefTags /\ ~Is(v.tag, v.i, m))
  <2>1. v.tag \in RefTags => v.i \in Ids /\ m.heap[v.i].k = v.tag
    BY <1>2, ValueRef DEF Is
  <2>2. CASE kind = "DeepCopyString" /\ v.tag = "string"
    <3>1. Copied(c, v, t, m) = CopyString(v.i, m)
      BY <1>2, <2>2 DEF Copied
    <3>2. v.i \in Ids /\ m.heap[v.i].k = "string"
      BY <2>1, <2>2 DEF RefTags
    <3> QED BY <3>1, <3>2, CopyStringTyped
  <2>3. CASE kind = "DeepCopyArray" /\ v.tag = "array"
    <3>1. Copied(c, v, t, m) = copyArray(c, v.i, m)
      BY <1>2, <2>3 DEF Copied
    <3>2. v.i \in Ids /\ m.heap[v.i].k = "array"
      BY <2>1, <2>3 DEF RefTags
    <3> QED BY <3>1, <3>2, ArraysTyped
  <2>4. CASE kind = "Retain" /\ v.tag = "host"
    <3>1. Copied(c, v, t, m) = VM(v, retainHandle(v.i, m))
      BY <1>2, <2>4 DEF Copied
    <3>2. v.i \in Ids
      BY <2>1, <2>4 DEF RefTags
    <3>3. retainHandle(v.i, m) \in Memories /\ Keeping(m, retainHandle(v.i, m))
      BY <3>2, RetainTyped
    <3> QED BY <3>1, <3>3, VMIs
  <2>5. CASE kind = "ElementWise" /\ v.tag = "array"
    <3>1. Copied(c, v, t, m) = ElementWise(c, v.i, m)
      BY <1>2, <2>5 DEF Copied
    <3>2. v.i \in Ids /\ m.heap[v.i].k = "array"
      BY <2>1, <2>5 DEF RefTags
    <3> QED BY <3>1, <3>2, ArraysTyped
  <2>6. CASE /\ ~(kind = "DeepCopyString" /\ v.tag = "string") /\ ~(kind = "DeepCopyArray" /\ v.tag = "array")
             /\ ~(kind = "Retain" /\ v.tag = "host") /\ ~(kind = "ElementWise" /\ v.tag = "array")
    <3>1. Copied(c, v, t, m) = VM(v, m)
      BY <1>2, <2>6 DEF Copied
    <3> QED BY <3>1, VMIs, KeepingIs
  <2> HIDE DEF Good, kind
  <2> QED BY <2>2, <2>3, <2>4, <2>5, <2>6
<1> HIDE DEF Good, kind
<1> QED BY <1>1, <1>2

\* copyValue by levels.
LEMMA CopyingIs ==
  ASSUME RegsOK
  PROVE  /\ \A n \in Nat : copying[n] \in CopyFns
         /\ \A n \in Nat : \A a \in Arguments : copying[n + 1][a] = Copied(copying[n], a[1], a[2], a[3])
<1> DEFINE first == [a \in Arguments |-> VM(a[1], a[3])]
           next(c) == [a \in Arguments |-> Copied(c, a[1], a[2], a[3])]
           step == [n \in Nat |-> [c \in CopyFns |-> next(c)]]
           Body(f) == [n \in Nat |-> [a \in Arguments |-> IF n = 0 THEN VM(a[1], a[3]) ELSE Copied(f[n - 1], a[1], a[2], a[3])]]
<1>1. \A a \in Arguments : a[1] \in Values /\ a[2] \in AllTypes /\ a[3] \in Memories
  BY DEF Arguments
<1>2. first \in CopyFns
  <2>1. ASSUME NEW a \in Arguments PROVE first[a] \in VMs /\ Keeping(a[3], first[a].m)
    <3>1. PICK v \in Values, m \in Memories : v = a[1] /\ m = a[3]
      BY <1>1
    <3>2. VM(v, m) \in VMs /\ VM(v, m).m = m /\ Keeping(m, m)
      BY VMIs, KeepingIs
    <3>3. first[a] = VM(v, m)
      BY <3>1
    <3> HIDE DEF first
    <3> QED BY <3>1, <3>2, <3>3
  <2>2. first \in [Arguments -> VMs]
    BY <2>1
  <2> HIDE DEF first
  <2> QED BY <2>1, <2>2 DEF CopyFns
<1>3. ASSUME NEW c \in CopyFns PROVE next(c) \in CopyFns
  <2>1. ASSUME NEW a \in Arguments
        PROVE  next(c)[a] \in VMs /\ Keeping(a[3], next(c)[a].m)
    <3>1. PICK v \in Values, t \in AllTypes, m \in Memories : v = a[1] /\ t = a[2] /\ m = a[3]
      BY <1>1
    <3>2. Copied(c, v, t, m) \in VMs /\ Keeping(m, Copied(c, v, t, m).m)
      BY CopiedTyped
    <3> QED BY <3>1, <3>2
  <2>2. next(c) \in [Arguments -> VMs]
    BY <2>1
  <2> HIDE DEF next
  <2> QED BY <2>1, <2>2 DEF CopyFns
<1>4. step \in [Nat -> [CopyFns -> CopyFns]]
  <2> HIDE DEF next
  <2> QED BY <1>3
<1>5. PICK f : Follows(f, CopyFns, first, step)
  <2> HIDE DEF first, step
  <2> QED BY <1>2, <1>4, Recursion
<1>6. f \in [Nat -> CopyFns] /\ f[0] = first /\ \A n \in Nat : f[n + 1] = next(f[n])
  <2> HIDE DEF first, next
  <2> QED BY <1>5 DEF Follows
<1>7. f = Body(f)
  <2>1. ASSUME NEW n \in Nat PROVE f[n] = Body(f)[n]
    <3>1. CASE n = 0
      BY <1>6, <3>1
    <3>2. CASE n # 0
      <4>1. n - 1 \in Nat /\ n - 1 + 1 = n
        BY <3>2
      <4>2. f[n] = next(f[n - 1])
        <5> HIDE DEF next, first
        <5> QED BY <1>6, <4>1
      <4> QED BY <3>2, <4>2
    <3> QED BY <3>1, <3>2
  <2>2. f = [n \in Nat |-> f[n]]
    BY <1>6
  <2> HIDE DEF step, first
  <2> QED BY <2>1, <2>2
<1>8. copying = CHOOSE h : h = Body(h)
  BY DEF copying
<1>9. copying = Body(copying)
  <2> HIDE DEF Body
  <2> QED BY <1>7, <1>8
<1>10. copying[0] = first
  BY <1>9
<1>11. ASSUME NEW n \in Nat PROVE copying[n + 1] = next(copying[n])
  <2>1. n + 1 \in Nat /\ n + 1 # 0 /\ n + 1 - 1 = n
    OBVIOUS
  <2> QED BY <1>9, <2>1
<1> HIDE DEF Body, next, first
<1> DEFINE T == {n \in Nat : copying[n] \in CopyFns}
<1>12. Nat \subseteq T
  <2>1. 0 \in T
    BY <1>2, <1>10
  <2>2. ASSUME NEW n \in Nat, n \in T PROVE n + 1 \in T
    BY <1>3, <1>11, <2>2
  <2> HIDE DEF T
  <2> QED BY <2>1, <2>2, NatInd
<1>13. \A n \in Nat : copying[n] \in CopyFns
  BY <1>12
<1>14. \A n \in Nat : \A a \in Arguments : copying[n + 1][a] = Copied(copying[n], a[1], a[2], a[3])
  BY <1>11 DEF next
<1> QED BY <1>13, <1>14

-----------------------------------------------------------------------------
(* What a count and a callback do to the host's part                       *)

\* Another count.
LEMMA HostedCount ==
  ASSUME NEW m, NEW m1, Hosted(m), m1.host = m.host, NEW id \in Ids, m.heap[id].k = "host",
         SameHandle(m.heap[id], m1.heap[id]), \A j \in Ids : j # id => m1.heap[j] = m.heap[j]
  PROVE  Hosted(m1)
<1>1. \A j \in Ids : m.heap[j].k = "host" => SameHandle(m.heap[j], m1.heap[j])
  BY DEF SameHandle
<1>2. \A j \in Ids : m1.heap[j].k = "host" <=> m.heap[j].k = "host"
  BY DEF SameHandle
<1>3. ASSUME NEW p PROVE Holds(m1, p) = Holds(m, p)
  BY <1>1, <1>2 DEF Holds, SameHandle
<1>4. \A j \in Ids : m1.heap[j].k = "host" => HandleOK(m1.heap[j], m1.host)
  <2> TAKE j \in Ids
  <2> HAVE m1.heap[j].k = "host"
  <2>1. SameHandle(m.heap[j], m1.heap[j]) /\ HandleOK(m.heap[j], m.host)
    BY <1>1, <1>2 DEF Hosted
  <2> QED BY <2>1 DEF SameHandle, HandleOK
<1>5. \A i, j \in Ids : m1.heap[i].k = "host" /\ m1.heap[j].k = "host" /\ m1.heap[i].payload = m1.heap[j].payload => i = j
  BY <1>1, <1>2 DEF Hosted, SameHandle
<1> QED BY <1>3, <1>4, <1>5 DEF Hosted

\* The payload that a callback of the entry e was for.
LEMMA CalledIs ==
  ASSUME NEW p \in Payloads, NEW n \in {0, 1}, NEW e
  PROVE  /\ Called(p, n, e).releases = p.releases + n /\ Called(p, n, e).by = p.by \union {e}
         /\ Called(p, n, e).reg = p.reg /\ Called(p, n, e).ty = p.ty /\ p.releases \in Nat
BY DEF Called, Payloads

\* That is what a callback does.
LEMMA HostCalledIs ==
  ASSUME RegsOK, NEW m \in Memories, NEW h \in Handles, HandleOK(h, m.host), NEW n \in {0, 1},
         NEW m1, m1.host = Calls(h, n, m).host
  PROVE  HostCalled(m, m1, h, n)
<1>1. Entry(h.reg, h.index) # NoEntry /\ h.payload \in DOMAIN m.host
  BY DEF HandleOK
<1>2. PICK c : c = Called(m.host[h.payload], n, Entry(h.reg, h.index))
  OBVIOUS
<1>3. m1.host = [m.host EXCEPT ![h.payload] = c]
  <2>1. PICK g : g = Calls(h, n, m).host
    OBVIOUS
  <2>2. g = IF Entry(h.reg, h.index) = NoEntry THEN m.host
            ELSE [m.host EXCEPT ![h.payload] = Called(m.host[h.payload], n, Entry(h.reg, h.index))]
    BY <2>1, CallsIs, Zenon
  <2> QED BY <1>1, <1>2, <2>1, <2>2
<1> QED BY <1>1, <1>2, <1>3 DEF HostCalled

\* The parts of the host's part.
LEMMA HostParts ==
  ASSUME NEW m, Hosted(m)
  PROVE  /\ \A id \in Ids : m.heap[id].k = "host" => HandleOK(m.heap[id], m.host)
         /\ \A id, j \in Ids : m.heap[id].k = "host" /\ m.heap[j].k = "host" /\ m.heap[id].payload = m.heap[j].payload => id = j
         /\ \A p \in DOMAIN m.host : /\ m.host[p].releases = IF Holds(m, p) # {} THEN 0 ELSE 1
                                     /\ m.host[p].reg \in DOMAIN regs
                                     /\ Plain(m.host[p].reg) => m.host[p].by \subseteq {m.host[p].ty}
BY DEF Hosted

\* A callback that releases nothing.
LEMMA HostedRetained ==
  ASSUME RegsOK, NEW m \in Memories, Hosted(m), NEW id \in Ids, m.heap[id].k = "host",
         NEW m1, HostCalled(m, m1, m.heap[id], 0), m1.heap = m.heap
  PROVE  Hosted(m1)
<1>1. PICK h : h = m.heap[id]
  OBVIOUS
<1>2. HandleOK(h, m.host) /\ m.host \in Seq(Payloads)
  BY <1>1, HostParts, MemoryIs
<1>3. \A p \in DOMAIN m.host : m.host[p] \in Payloads
  BY <1>2, SeqFacts
<1>4. PICK q, e : q = h.payload /\ e = Entry(h.reg, h.index)
  OBVIOUS
<1>5. /\ DOMAIN m1.host = DOMAIN m.host /\ q \in DOMAIN m.host
      /\ m1.host[q] = Called(m.host[q], 0, e) /\ \A p \in DOMAIN m.host : p # q => m1.host[p] = m.host[p]
  BY <1>1, <1>4 DEF HostCalled
<1>6. /\ m1.host[q].releases = m.host[q].releases + 0 /\ m1.host[q].by = m.host[q].by \union {e}
      /\ m1.host[q].reg = m.host[q].reg /\ m1.host[q].ty = m.host[q].ty /\ m.host[q].releases \in Nat
  BY <1>3, <1>5, CalledIs
<1>7. ASSUME NEW p PROVE Holds(m1, p) = Holds(m, p)
  BY DEF Holds
<1>8. \A j \in Ids : m1.heap[j].k = "host" => HandleOK(m1.heap[j], m1.host)
  <2> TAKE j \in Ids
  <2> HAVE m1.heap[j].k = "host"
  <2>1. HandleOK(m.heap[j], m.host)
    BY HostParts
  <2> QED BY <1>5, <1>6, <2>1 DEF HandleOK
<1>9. Plain(m1.host[q].reg) => m1.host[q].by \subseteq {m1.host[q].ty}
  <2> HAVE Plain(m1.host[q].reg)
  <2>1. Plain(h.reg) /\ h.reg = m.host[q].reg
    BY <1>2, <1>4, <1>6 DEF HandleOK
  <2>2. e = m.host[q].ty
    BY <1>2, <1>4, <2>1 DEF HandleOK
  <2>3. m.host[q].by \subseteq {m.host[q].ty}
    BY <1>5, <2>1, HostParts
  <2> QED BY <1>6, <2>2, <2>3
<1>10. \A p \in DOMAIN m1.host : /\ m1.host[p].releases = IF Holds(m1, p) # {} THEN 0 ELSE 1
                                 /\ m1.host[p].reg \in DOMAIN regs
                                 /\ Plain(m1.host[p].reg) => m1.host[p].by \subseteq {m1.host[p].ty}
  <2> TAKE p \in DOMAIN m1.host
  <2>1. CASE p # q
    BY <1>5, <1>7, <2>1, HostParts
  <2>2. CASE p = q
    <3>1. m1.host[q].releases = m.host[q].releases
      BY <1>6
    <3> QED BY <1>5, <1>6, <1>7, <1>9, <2>2, <3>1, HostParts
  <2> QED BY <2>1, <2>2
<1>11. \A i, j \in Ids : m1.heap[i].k = "host" /\ m1.heap[j].k = "host" /\ m1.heap[i].payload = m1.heap[j].payload => i = j
  BY HostParts
<1> QED BY <1>8, <1>10, <1>11 DEF Hosted

\* The callback that releases the payload, when the handle goes.
LEMMA HostedReleased ==
  ASSUME RegsOK, NEW m \in Memories, Hosted(m), NEW id \in Ids, m.heap[id].k = "host",
         NEW m1, HostCalled(m, m1, m.heap[id], 1),
         m1.heap[id] = NoObject, \A j \in Ids : j # id => m1.heap[j] = m.heap[j]
  PROVE  Hosted(m1)
<1>1. PICK h : h = m.heap[id]
  OBVIOUS
<1>2. HandleOK(h, m.host) /\ m.host \in Seq(Payloads)
  BY <1>1, HostParts, MemoryIs
<1>3. \A p \in DOMAIN m.host : m.host[p] \in Payloads
  BY <1>2, SeqFacts
<1>4. PICK q, e : q = h.payload /\ e = Entry(h.reg, h.index)
  OBVIOUS
<1>5. /\ DOMAIN m1.host = DOMAIN m.host /\ q \in DOMAIN m.host
      /\ m1.host[q] = Called(m.host[q], 1, e) /\ \A p \in DOMAIN m.host : p # q => m1.host[p] = m.host[p]
  BY <1>1, <1>4 DEF HostCalled
<1>6. /\ m1.host[q].releases = m.host[q].releases + 1 /\ m1.host[q].by = m.host[q].by \union {e}
      /\ m1.host[q].reg = m.host[q].reg /\ m1.host[q].ty = m.host[q].ty /\ m.host[q].releases \in Nat
  BY <1>3, <1>5, CalledIs
<1>7. NoObject.k # "host"
  BY DEF NoObject
<1>8. \A j \in Ids : m1.heap[j].k = "host" => j # id /\ m1.heap[j] = m.heap[j]
  BY <1>7
<1>9. Holds(m, q) = {id}
  BY <1>1, <1>4, HostParts DEF Holds
<1>10. Holds(m1, q) = {} /\ \A p : p # q => Holds(m1, p) = Holds(m, p)
  <2>1. Holds(m1, q) = {}
    BY <1>8, <1>9 DEF Holds
  <2>2. ASSUME NEW p, p # q PROVE Holds(m1, p) = Holds(m, p)
    BY <1>1, <1>4, <1>7, <2>2 DEF Holds
  <2> QED BY <2>1, <2>2
<1>11. \A j \in Ids : m1.heap[j].k = "host" => HandleOK(m1.heap[j], m1.host)
  <2> TAKE j \in Ids
  <2> HAVE m1.heap[j].k = "host"
  <2>1. HandleOK(m.heap[j], m.host) /\ m1.heap[j] = m.heap[j]
    BY <1>8, HostParts
  <2> QED BY <1>5, <1>6, <2>1 DEF HandleOK
<1>12. Plain(m1.host[q].reg) => m1.host[q].by \subseteq {m1.host[q].ty}
  <2> HAVE Plain(m1.host[q].reg)
  <2>1. Plain(h.reg) /\ h.reg = m.host[q].reg
    BY <1>2, <1>4, <1>6 DEF HandleOK
  <2>2. e = m.host[q].ty
    BY <1>2, <1>4, <2>1 DEF HandleOK
  <2>3. m.host[q].by \subseteq {m.host[q].ty}
    BY <1>5, <2>1, HostParts
  <2> QED BY <1>6, <2>2, <2>3
<1>13. \A p \in DOMAIN m1.host : /\ m1.host[p].releases = IF Holds(m1, p) # {} THEN 0 ELSE 1
                                 /\ m1.host[p].reg \in DOMAIN regs
                                 /\ Plain(m1.host[p].reg) => m1.host[p].by \subseteq {m1.host[p].ty}
  <2> TAKE p \in DOMAIN m1.host
  <2>1. CASE p # q
    BY <1>5, <1>10, <2>1, HostParts
  <2>2. CASE p = q
    <3>1. m.host[q].releases = 0
      BY <1>5, <1>9, HostParts
    <3>2. m1.host[q].releases = 1
      BY <1>6, <3>1
    <3>3. m1.host[q].reg \in DOMAIN regs
      BY <1>5, <1>6, HostParts
    <3> QED BY <1>10, <1>12, <2>2, <3>2, <3>3
  <2> QED BY <2>1, <2>2
<1>14. \A i, j \in Ids : m1.heap[i].k = "host" /\ m1.heap[j].k = "host" /\ m1.heap[i].payload = m1.heap[j].payload => i = j
  BY <1>8, HostParts
<1> QED BY <1>11, <1>13, <1>14 DEF Hosted

-----------------------------------------------------------------------------
(* Dropping a value                                                        *)

\* A value of a type is in a place.
LEMMA NotFree ==
  ASSUME NEW t, NEW v \in Values
  PROVE  [ty |-> t, v |-> v] # Free
<1>1. v # Free.v
  BY DEF Values, Nil, Uninitialized, RefTags, Free
<1> QED BY <1>1

\* DropAll empties the elements, when the level below drops one.
LEMMA ElementsDropped ==
  ASSUME NEW T \in SUBSET AllTypes, NEW d \in DropFns, DropOk(d, T),
         NEW m, NEW O, NEW W, Sound(m, O, W), NEW a \in O,
         NEW el \in T, NEW vs \in Seq(Values), Len(vs) <= Big,
         \A i \in 1 .. Len(vs) : W[<<a, i>>] = [ty |-> el, v |-> vs[i]]
  PROVE  \E W1 : AllEmptied(m, O, W, a, Len(vs), DropAll(d, vs, el, m), W1)
<1> PICK n : n = Len(vs)
  OBVIOUS
<1>1. n \in Nat /\ (\A i \in 1 .. n : vs[i] \in Values) /\ d \in [Arguments -> Memories] /\ el \in AllTypes
  BY SeqFacts DEF DropFns
<1>2. m \in Memories /\ O \subseteq Ids /\ W \in [Places -> Contents]
  BY DEF Sound
<1> PICK g : DropsAll(g, d, vs, el, m)
  BY <1>1, <1>2, DropAllIs
<1>3. /\ g \in [0 .. n -> Memories] /\ g[0] = m /\ \A i \in 1 .. n : g[i] = d[<<vs[i], el, g[i - 1]>>]
      /\ DropAll(d, vs, el, m) = g[n]
  BY DEF DropsAll
<1> DEFINE S == {k \in 0 .. n : \E W1 : AllEmptied(m, O, W, a, k, g[k], W1)}
<1>4. 0 \in S
  <2>1. AllEmptied(m, O, W, a, 0, m, W)
    BY DEF AllEmptied
  <2> QED BY <1>1, <1>3, <2>1
<1>5. ASSUME NEW k \in 0 .. n - 1, k \in S PROVE k + 1 \in S
  <2>1. PICK W1 : AllEmptied(m, O, W, a, k, g[k], W1)
    BY <1>5
  <2>2. PICK j : j = k + 1
    OBVIOUS
  <2>3. j \in 1 .. n /\ j - 1 = k /\ j \in 0 .. n /\ k \in 0 .. n /\ j \in 1 .. Big /\ j \in Nat /\ k \in Nat /\ k < j
    BY <1>1, <2>2, PlacesAre
  <2>4. PICK p : p = <<a, j>>
    OBVIOUS
  <2>5. p \in Places /\ p \in Open(O)
    BY <1>2, <2>3, <2>4, PlacesAre DEF Open
  <2>6. W1[p] = [ty |-> el, v |-> vs[j]]
    <3>1. \A i \in 1 .. k : p # <<a, i>>
      BY <2>3, <2>4
    <3>2. W1[p] = W[p]
      BY <2>1, <2>5, <3>1 DEF AllEmptied
    <3> QED BY <2>3, <2>4, <3>2
  <2>7. W1[p].ty = el /\ W1[p].v = vs[j] /\ W1[p] # Free
    BY <1>1, <2>3, <2>6, NotFree
  <2>8. Sound(g[k], O, W1) /\ W1 \in [Places -> Contents] /\ g[k] \in Memories
    BY <2>1 DEF AllEmptied, Sound
  <2>9. PICK W2 : Emptied(g[k], O, W1, p, d[<<W1[p].v, W1[p].ty, g[k]>>], W2)
    BY <1>2, <2>5, <2>7, <2>8 DEF DropOk
  <2>10. g[j] = d[<<W1[p].v, W1[p].ty, g[k]>>]
    BY <1>3, <2>3, <2>7
  <2>11. Emptied(g[k], O, W1, p, g[j], W2)
    BY <2>9, <2>10
  <2>12. AllEmptied(m, O, W, a, j, g[j], W2)
    <3>1. \A i \in 1 .. j : W2[<<a, i>>] = Free
      <4> TAKE i \in 1 .. j
      <4>1. CASE i = j
        BY <2>4, <2>11, <4>1 DEF Emptied
      <4>2. CASE i # j
        <5>1. i \in 1 .. k /\ i \in 1 .. Big
          BY <2>2, <2>3, <4>2, PlacesAre
        <5>2. <<a, i>> \in Open(O) /\ <<a, i>> # p
          BY <1>2, <2>4, <4>2, <5>1, PlacesAre DEF Open
        <5> QED BY <2>1, <2>11, <5>1, <5>2 DEF AllEmptied, Emptied
      <4> QED BY <4>1, <4>2
    <3>2. ASSUME NEW q \in Open(O), \A i \in 1 .. j : q # <<a, i>> PROVE W2[q] = W[q]
      <4>1. q # p /\ \A i \in 1 .. k : q # <<a, i>>
        <5>1. j \in 1 .. j /\ \A i \in 1 .. k : i \in 1 .. j
          BY <2>3
        <5> QED BY <2>4, <3>2, <5>1
      <4> QED BY <2>1, <2>11, <4>1 DEF AllEmptied, Emptied
    <3> QED BY <2>1, <2>11, <3>1, <3>2 DEF AllEmptied, Emptied
  <2> QED BY <2>2, <2>3, <2>12
<1>6. n \in S
  <2>1. 0 .. n \subseteq S
    <3> HIDE DEF S
    <3> QED BY <1>1, <1>4, <1>5, UpTo
  <2> QED BY <1>1, <2>1
<1> QED BY <1>3, <1>6

-----------------------------------------------------------------------------
(* One level of dropValue                                                  *)

\* A string.
LEMMA StringDropped ==
  ASSUME NEW m, NEW O, NEW W, Sound(m, O, W), NEW p \in Open(O), IsRef(W[p].v), W[p].v.tag = "string"
  PROVE  Emptied(m, O, W, p, releaseString(W[p].v.i, m), [W EXCEPT ![p] = Free])
<1> PICK id : id = W[p].v.i
  OBVIOUS
<1>1. p \in Places /\ m \in Memories /\ W \in [Places -> Contents] /\ Fits(W[p], m) /\ ~m.broken /\ Hosted(m)
  BY DEF Open, Sound
<1>2. id \in Ids /\ At(W, id) # {} /\ id \notin O
  BY <1>1, RefIs
<1>3. m.heap[id].k = "string"
  BY <1>1 DEF Fits
<1>4. m.heap[id].rc = 1
  BY <1>2, <1>3 DEF Sound, Keeps
<1>5. PICK m1 : m1 = Unalloc(id, m)
  OBVIOUS
<1>6. IsPut(m1, m, id, NoObject)
  BY <1>1, <1>2, <1>5, UnallocIs
<1>7. releaseString(id, m) = m1
  BY <1>3, <1>4, <1>5 DEF releaseString, Is
<1>8. m1 \in Memories /\ ~m1.broken /\ m1.heap = [m.heap EXCEPT ![id] = NoObject] /\ \A j \in Ids : j # id => m1.heap[j] = m.heap[j]
  BY <1>1, <1>6 DEF IsPut
<1>9. Hosted(m1)
  <2>1. m1.host = m.host /\ m1.heap[id].k # "host" /\ m.heap[id].k # "host"
    BY <1>3, <1>6 DEF IsPut, NoObject
  <2> QED BY <1>1, <1>8, <2>1, HostedSame
<1>10. PICK W1 : W1 = [W EXCEPT ![p] = Free]
  OBVIOUS
<1>11. Sound(m1, O, W1)
  BY <1>2, <1>3, <1>4, <1>8, <1>9, <1>10, Gone
<1>12. W1[p] = Free /\ \A q \in Open(O) : q # p => W1[q] = W[q]
  BY <1>1, <1>10 DEF Open
<1>13. \A j \in O : m1.heap[j] = m.heap[j]
  BY <1>2, <1>8 DEF Sound
<1> QED BY <1>7, <1>10, <1>11, <1>12, <1>13 DEF Emptied

\* A handle.
LEMMA HandleDropped ==
  ASSUME RegsOK, NEW m, NEW O, NEW W, Sound(m, O, W), NEW p \in Open(O), IsRef(W[p].v), W[p].v.tag = "host"
  PROVE  Emptied(m, O, W, p, releaseHandle(W[p].v.i, m), [W EXCEPT ![p] = Free])
<1> PICK id : id = W[p].v.i
  OBVIOUS
<1>1. p \in Places /\ m \in Memories /\ W \in [Places -> Contents] /\ Fits(W[p], m) /\ ~m.broken /\ Hosted(m)
  BY DEF Open, Sound
<1>2. id \in Ids /\ At(W, id) # {} /\ id \notin O
  BY <1>1, RefIs
<1>3. PICK h : h = m.heap[id]
  OBVIOUS
<1>4. h.k = "host" /\ h \in Handles /\ h.rc \in Int
  <2>1. h.k = "host"
    BY <1>1, <1>3 DEF Fits
  <2>2. h \in Objects
    BY <1>1, <1>2, <1>3, MemoryIs
  <2>3. h \in Handles
    BY <2>1, <2>2, ObjectIs
  <2> QED BY <2>1, <2>3, KindsAre
<1>5. h.rc = Cardinality(At(W, id)) /\ h.rc >= 1
  <2>1. h.rc = Cardinality(At(W, id))
    BY <1>2, <1>3 DEF Sound, Keeps
  <2>2. IsFiniteSet(At(W, id)) /\ Cardinality(At(W, id)) \in Nat
    BY AtIs
  <2>3. Cardinality(At(W, id)) # 0
    BY <1>2, <2>2, FS_EmptySet
  <2> QED BY <2>1, <2>2, <2>3
<1>6. PICK W1 : W1 = [W EXCEPT ![p] = Free]
  OBVIOUS
<1>7. W1[p] = Free /\ \A q \in Open(O) : q # p => W1[q] = W[q]
  BY <1>1, <1>6 DEF Open
<1>8. CASE h.rc > 1
  <2>1. PICK m1 : m1 = Count(id, -1, m)
    OBVIOUS
  <2>2. releaseHandle(id, m) = m1
    BY <1>3, <1>4, <1>8, <2>1 DEF releaseHandle, Is
  <2>3. PICK o1 : o1 = [h EXCEPT !.rc = h.rc + (-1)]
    OBVIOUS
  <2>4. IsPut(m1, m, id, o1)
    BY <1>1, <1>2, <1>3, <1>4, <2>1, <2>3, CountPut
  <2>5. o1 = [h EXCEPT !.rc = h.rc - 1] /\ SameHandle(h, o1)
    <3>1. h.rc + (-1) = h.rc - 1 /\ h.rc - 1 \in Int
      BY <1>4
    <3>2. o1 = [h EXCEPT !.rc = h.rc - 1]
      BY <2>3, <3>1, Zenon
    <3> QED BY <1>4, <3>1, <3>2, CountedHandle
  <2>6. /\ m1 \in Memories /\ ~m1.broken /\ m1.host = m.host /\ m1.heap[id] = o1
        /\ m1.heap = [m.heap EXCEPT ![id] = [m.heap[id] EXCEPT !.rc = m.heap[id].rc - 1]]
        /\ \A j \in Ids : j # id => m1.heap[j] = m.heap[j]
    BY <1>1, <1>3, <2>4, <2>5, Zenon DEF IsPut
  <2>7. Hosted(m1)
    <3>1. SameHandle(m.heap[id], m1.heap[id]) /\ m.heap[id].k = "host"
      BY <1>3, <1>4, <2>5, <2>6, Zenon
    <3>2. m1.host = m.host /\ \A j \in Ids : j # id => m1.heap[j] = m.heap[j]
      BY <2>6, Zenon
    <3> QED BY <1>1, <1>2, <3>1, <3>2, HostedCount, Zenon
  <2>8. Sound(m1, O, W1)
    <3>1. m.heap[id].k = "host" /\ m.heap[id].rc > 1
      BY <1>3, <1>4, <1>8
    <3>2. m1 \in Memories /\ ~m1.broken /\ \A j \in Ids : j # id => m1.heap[j] = m.heap[j]
      BY <2>6, Zenon
    <3>3. SameHandle(m.heap[id], m1.heap[id])
      BY <1>3, <2>5, <2>6, Zenon
    <3>4. m1.heap[id].rc = m.heap[id].rc - 1
      <4>1. o1.rc = h.rc - 1
        BY <1>4, <2>5, Zenon DEF Handles
      <4> QED BY <1>3, <2>6, <4>1
    <3> QED BY <3>3, <3>4, <1>2, <1>6, <2>7, <3>1, <3>2, Less
  <2>9. \A j \in O : m1.heap[j] = m.heap[j]
    BY <1>2, <2>6, Zenon DEF Sound
  <2> QED BY <1>6, <1>7, <2>2, <2>8, <2>9 DEF Emptied
<1>9. CASE ~(h.rc > 1)
  <2>1. h.rc = 1
    BY <1>4, <1>5, <1>9
  <2>2. PICK mc : mc = Calls(h, 1, m)
    OBVIOUS
  <2>3. mc \in Memories /\ mc.heap = m.heap /\ mc.broken = m.broken
    BY <1>1, <1>4, <2>2, CallsIs
  <2>4. PICK m1 : m1 = Unalloc(id, mc)
    OBVIOUS
  <2>5. IsPut(m1, mc, id, NoObject)
    BY <1>2, <2>3, <2>4, UnallocIs
  <2>6. releaseHandle(id, m) = m1
    BY <1>3, <1>4, <1>9, <2>2, <2>4 DEF releaseHandle, Is
  <2>7. /\ m1 \in Memories /\ ~m1.broken /\ m1.host = mc.host /\ m1.heap[id] = NoObject
        /\ m1.heap = [m.heap EXCEPT ![id] = NoObject] /\ \A j \in Ids : j # id => m1.heap[j] = m.heap[j]
    BY <1>1, <2>3, <2>5 DEF IsPut
  <2>8. HandleOK(h, m.host)
    BY <1>1, <1>2, <1>3, <1>4, HostParts
  <2>9. HostCalled(m, m1, h, 1)
    BY <1>1, <1>4, <2>2, <2>7, <2>8, HostCalledIs
  <2>10. Hosted(m1)
    BY <1>1, <1>2, <1>3, <1>4, <2>7, <2>9, HostedReleased, Zenon
  <2>11. Sound(m1, O, W1)
    BY <1>2, <1>3, <1>4, <1>6, <2>1, <2>7, <2>10, Gone, Zenon
  <2>12. \A j \in O : m1.heap[j] = m.heap[j]
    BY <1>2, <2>7 DEF Sound
  <2> QED BY <1>6, <1>7, <2>6, <2>11, <2>12 DEF Emptied
<1> QED BY <1>8, <1>9

\* The sizes of an array's data.
LEMMA DataFits ==
  ASSUME NEW m, NEW O, NEW W, Sound(m, O, W), NEW a \in Ids, m.heap[a].k = "array"
  PROVE  /\ Len(m.heap[a].data) \in Nat /\ Len(m.heap[a].data) <= Big /\ Sizes(m.heap[a])
         /\ DOMAIN m.heap[a].data = 1 .. Len(m.heap[a].data)
         /\ m.heap[a] \in Arrays /\ m.heap[a].data \in Seq(Values) /\ m.heap[a].el \in AllTypes
         /\ \A i \in 1 .. Len(m.heap[a].data) : m.heap[a].data[i] \in Values /\ i \in 1 .. Big
<1> PICK o : o = m.heap[a]
  OBVIOUS
<1>1. m \in Memories /\ Keeps(m, O, W, a)
  BY DEF Sound
<1>2. Sizes(o)
  BY <1>1 DEF Keeps
<1>3. o \in Arrays /\ o.data \in Seq(Values) /\ o.el \in AllTypes /\ o.fixed \in BOOLEAN
  BY <1>1, ArrayIn
<1>4. PICK n : n = Len(o.data)
  OBVIOUS
<1>5. n \in Nat /\ DOMAIN o.data = 1 .. n /\ \A i \in 1 .. n : o.data[i] \in Values
  BY <1>3, <1>4, SeqFacts
<1>6. n <= Big
  <2>1. n = FixedLength \/ n <= MaxLength
    BY <1>2, <1>3, <1>4 DEF Sizes
  <2>2. FixedLength = 2 /\ MaxLength \in Nat /\ Big = MaxLength + FixedLength
    BY PlacesAre DEF Big
  <2> QED BY <1>5, <2>1, <2>2
<1>7. \A i \in 1 .. n : i \in 1 .. Big
  BY <1>5, <1>6, PlacesAre
<1> QED BY <1>2, <1>3, <1>4, <1>5, <1>6, <1>7

\* An array whose elements d can drop.
LEMMA ArrayDropped ==
  ASSUME NEW T \in SUBSET AllTypes, NEW d \in DropFns, DropOk(d, T),
         NEW m, NEW O, NEW W, Sound(m, O, W), NEW p \in Open(O), IsRef(W[p].v), W[p].v.tag = "array",
         NEW a, a = W[p].v.i, m.heap[a].el \in T
  PROVE  \E W1 : Emptied(m, O, W, p, IF m.heap[a].fixed THEN DropAll(d, m.heap[a].data, m.heap[a].el, m)
                                     ELSE releaseArray(d, a, m), W1)
<1>1. p \in Places /\ m \in Memories /\ W \in [Places -> Contents] /\ Fits(W[p], m) /\ O \subseteq Ids
  BY DEF Open, Sound
<1>2. a \in Ids /\ a \notin O
  BY <1>1, RefIs
<1>3. m.heap[a].k = "array"
  BY <1>1 DEF Fits
<1>4. PICK o : o = m.heap[a]
  OBVIOUS
<1>5. PICK n : n = Len(o.data)
  OBVIOUS
<1>6. /\ n \in Nat /\ n <= Big /\ DOMAIN o.data = 1 .. n /\ o.data \in Seq(Values) /\ o.el \in AllTypes
      /\ \A i \in 1 .. n : o.data[i] \in Values /\ i \in 1 .. Big
  BY <1>2, <1>3, <1>4, <1>5, DataFits
<1>7. PICK W1 : W1 = [W EXCEPT ![p] = Free]
  OBVIOUS
<1>8. PICK O1 : O1 = O \union {a}
  OBVIOUS
<1>9. /\ Sound(m, O1, W1) /\ o.rc = 1
      /\ \A i \in 1 .. Big : W[<<a, i>>] = Element(o, i) /\ <<a, i>> # p
  <2>1. /\ Sound(m, O \union {a}, [W EXCEPT ![p] = Free])
        /\ m.heap[a].rc = 1
        /\ \A i \in 1 .. Big : W[<<a, i>>] = Element(m.heap[a], i) /\ <<a, i>> # p
    BY <1>2, <1>3, Detached
  <2> QED BY <1>4, <1>7, <1>8, <2>1
<1>10. \A q \in Places : q # p => W1[q] = W[q]
  BY <1>1, <1>7
<1>11. \A i \in 1 .. Big : W1[<<a, i>>] = Element(o, i)
  BY <1>2, <1>9, <1>10, PlacesAre
<1>12. \A i \in 1 .. n : W1[<<a, i>>] = [ty |-> o.el, v |-> o.data[i]]
  BY <1>3, <1>4, <1>6, <1>11, Zenon DEF Element
<1>13. PICK m2 : m2 = DropAll(d, o.data, o.el, m)
  OBVIOUS
<1>14. PICK W2 : AllEmptied(m, O1, W1, a, n, m2, W2)
  <2>1. a \in O1 /\ o.el \in T
    BY <1>4, <1>8
  <2> QED BY <1>5, <1>6, <1>9, <1>12, <1>13, <2>1, ElementsDropped
<1>15. Sound(m2, O1, W2) /\ \A j \in O1 : m2.heap[j] = m.heap[j]
  BY <1>14 DEF AllEmptied
<1>16. \A i \in 1 .. Big : W2[<<a, i>>] = Free
  <2> TAKE i \in 1 .. Big
  <2>1. CASE i \in 1 .. n
    BY <1>14, <2>1 DEF AllEmptied
  <2>2. CASE i \notin 1 .. n
    <3>1. W1[<<a, i>>] = Free
      BY <1>6, <1>11, <2>2 DEF Element
    <3>2. <<a, i>> \in Open(O1)
      BY <1>2, <1>8, PlacesAre DEF Open
    <3>3. \A k \in 1 .. n : <<a, i>> # <<a, k>>
      BY <2>2
    <3> QED BY <1>14, <3>1, <3>2, <3>3 DEF AllEmptied
  <2> QED BY <2>1, <2>2
<1>17. \A q \in Open(O) : q # p => W2[q] = W[q]
  <2> TAKE q \in Open(O)
  <2> HAVE q # p
  <2>1. q \in Places /\ q \in Open(O1)
    BY <1>8 DEF Open
  <2>2. ASSUME NEW k \in 1 .. n PROVE q # <<a, k>>
    <3>1. a # 0 /\ k # 0
      BY <1>2, <1>6, PlacesAre
    <3> QED BY <1>2, <3>1 DEF Open
  <2> QED BY <1>10, <1>14, <2>1, <2>2 DEF AllEmptied
<1>18. W2[p] = Free
  <2>1. p \in Open(O1) /\ W1[p] = Free
    BY <1>1, <1>7, <1>8 DEF Open
  <2>2. \A k \in 1 .. n : p # <<a, k>>
    BY <1>6, <1>9
  <2> QED BY <1>14, <2>1, <2>2 DEF AllEmptied
<1>19. PICK m3 : m3 = IF o.fixed THEN m2 ELSE Unalloc(a, m2)
  OBVIOUS
<1>20. a \in O1 /\ O1 \ {a} = O /\ m2.heap[a] = o
  BY <1>2, <1>4, <1>8, <1>15
<1>21. Sound(m3, O, W2)
  <2>1. m3 = Unalloc(a, m2) \/ (m3 = m2 /\ m2.heap[a].fixed)
    BY <1>19, <1>20
  <2>2. Sound(m3, O1 \ {a}, W2)
    BY <1>15, <1>16, <1>20, <2>1, Discarded
  <2> QED BY <1>20, <2>2
<1>22. \A j \in O : m3.heap[j] = m.heap[j]
  <2>1. m2 \in Memories
    BY <1>15 DEF Sound
  <2>2. IsPut(Unalloc(a, m2), m2, a, NoObject)
    BY <1>2, <2>1, UnallocIs
  <2>3. \A j \in Ids : j # a => m3.heap[j] = m2.heap[j]
    BY <1>19, <2>2, Zenon DEF IsPut
  <2> QED BY <1>1, <1>2, <1>8, <1>15, <2>3
<1>23. m3 = IF m.heap[a].fixed THEN DropAll(d, m.heap[a].data, m.heap[a].el, m) ELSE releaseArray(d, a, m)
  <2>1. ~(o.rc > 1)
    BY <1>9
  <2> QED BY <1>4, <1>13, <1>19, <2>1, Zenon DEF releaseArray
<1> QED BY <1>17, <1>18, <1>21, <1>22, <1>23, Zenon DEF Emptied

\* The plans of strings, handles and arrays are not the same.
LEMMA PlansDiffer ==
  ASSUME NEW t \in AllTypes
  PROVE  /\ planForType[t].drop = "FreeString" => planForType[t].copy = "DeepCopyString"
         /\ planForType[t].drop = "Release" => planForType[t].copy = "Retain"
         /\ planForType[t].drop = "FreeArray" => planForType[t].copy = "DeepCopyArray"
         /\ planForType[t].drop = "ElementWise" => planForType[t].copy = "ElementWise"
         /\ planForType[t].drop \in {"FreeString", "Release", "FreeArray", "ElementWise"}
BY PlanIs DEF Plans, Plan

\* One level of dropValue drops the values of types made of those that the level below drops.
LEMMA DropLevel ==
  ASSUME RegsOK, NEW T \in SUBSET AllTypes, NEW U \in SUBSET AllTypes, Above(U, T),
         NEW d \in DropFns, DropOk(d, T), NEW d1 \in DropFns,
         \A a \in Arguments : d1[a] = Dropped(d, a[1], a[2], a[3])
  PROVE  DropOk(d1, U)
<1> SUFFICES ASSUME NEW m \in Memories, NEW O \in SUBSET Ids, NEW W \in [Places -> Contents], NEW p \in Places,
                    Sound(m, O, W), p \in Open(O), W[p] # Free, W[p].ty \in U
             PROVE  \E W1 : Emptied(m, O, W, p, d1[<<W[p].v, W[p].ty, m>>], W1)
  BY DEF DropOk
<1> PICK v, t : v = W[p].v /\ t = W[p].ty
  OBVIOUS
<1>1. v \in Values /\ t \in AllTypes /\ t \in U
  BY ContentIs
<1>2. d1[<<v, t, m>>] = Dropped(d, v, t, m)
  <2>1. PICK a : a = <<v, t, m>>
    OBVIOUS
  <2>2. a \in Arguments /\ a[1] = v /\ a[2] = t /\ a[3] = m
    BY <1>1, <2>1 DEF Arguments
  <2>3. d1[a] = Dropped(d, v, t, m)
    BY <2>2
  <2> QED BY <2>1, <2>3
<1>3. CASE ~IsRef(v)
  <2>1. Dropped(d, v, t, m) = m
    BY <1>3 DEF Dropped, IsRef, RefTags
  <2>2. PICK W1 : W1 = [W EXCEPT ![p] = Free]
    OBVIOUS
  <2>3. Sound(m, O, W1)
    BY <1>3, <2>2, FreeIs, Blanked
  <2>4. W1[p] = Free /\ \A q \in Open(O) : q # p => W1[q] = W[q]
    BY <2>2 DEF Open
  <2>5. Emptied(m, O, W, p, m, W1)
    BY <2>3, <2>4 DEF Emptied
  <2> QED BY <1>2, <2>1, <2>5
<1>4. CASE IsRef(v)
  <2>1. /\ m.heap[v.i].k = v.tag /\ planForType[t].drop = DropOf(m.heap[v.i])
        /\ m.heap[v.i].k = "array" => Under(m.heap[v.i].el, t)
    BY <1>4 DEF Sound, Fits
  <2>2. CASE v.tag = "string"
    <3>1. Dropped(d, v, t, m) = releaseString(v.i, m)
      BY <2>1, <2>2 DEF Dropped, DropOf
    <3>2. Emptied(m, O, W, p, releaseString(v.i, m), [W EXCEPT ![p] = Free])
      BY <1>4, <2>2, StringDropped
    <3> QED BY <1>2, <3>1, <3>2
  <2>3. CASE v.tag = "host"
    <3>1. Dropped(d, v, t, m) = releaseHandle(v.i, m)
      BY <2>1, <2>3 DEF Dropped, DropOf
    <3>2. Emptied(m, O, W, p, releaseHandle(v.i, m), [W EXCEPT ![p] = Free])
      BY <1>4, <2>3, HandleDropped
    <3> QED BY <1>2, <3>1, <3>2
  <2>4. CASE v.tag = "array"
    <3>1. m.heap[v.i].el \in T
      BY <1>1, <2>1, <2>4 DEF Above
    <3>2. Dropped(d, v, t, m) = IF m.heap[v.i].fixed THEN DropAll(d, m.heap[v.i].data, m.heap[v.i].el, m)
                                ELSE releaseArray(d, v.i, m)
      <4>1. planForType[t].drop = IF m.heap[v.i].fixed THEN "ElementWise" ELSE "FreeArray"
        BY <2>1, <2>4 DEF DropOf
      <4> QED BY <2>1, <2>4, <4>1, Zenon DEF Dropped, Is
    <3>3. PICK a : a = v.i
      OBVIOUS
    <3>4. \E W1 : Emptied(m, O, W, p, IF m.heap[a].fixed THEN DropAll(d, m.heap[a].data, m.heap[a].el, m)
                                      ELSE releaseArray(d, a, m), W1)
      BY <1>4, <2>4, <3>1, <3>3, ArrayDropped
    <3>5. PICK r : r = IF m.heap[a].fixed THEN DropAll(d, m.heap[a].data, m.heap[a].el, m) ELSE releaseArray(d, a, m)
      OBVIOUS
    <3>6. \E W1 : Emptied(m, O, W, p, r, W1)
      BY <3>4, <3>5
    <3>7. d1[<<v, t, m>>] = r
      BY <1>2, <3>2, <3>3, <3>5
    <3> QED BY <3>6, <3>7
  <2> QED BY <1>4, <2>2, <2>3, <2>4 DEF IsRef, RefTags
<1> QED BY <1>3, <1>4

\* The levels of the types.
LEMMA LevelsAbove ==
  /\ Above(TypesTo[0], {})
  /\ \A n \in Nat : Above(TypesTo[n + 1], TypesTo[n])
  /\ \A n \in Nat : n <= MaxNesting => TypesTo[n] \subseteq AllTypes
<1>1. Above(TypesTo[0], {})
  BY DEF Above, Under
<1>2. ASSUME NEW n \in Nat PROVE Above(TypesTo[n + 1], TypesTo[n])
  <2>1. n + 1 \in Nat /\ n + 1 - 1 = n
    OBVIOUS
  <2> QED BY <2>1 DEF Above, Under
<1>3. ASSUME NEW n \in Nat, n <= MaxNesting PROVE TypesTo[n] \subseteq AllTypes
  BY <1>3, BoundsAreNat, TypesUp DEF AllTypes
<1> QED BY <1>1, <1>2, <1>3

\* dropValue drops a value of any type.
LEMMA DropValueOk ==
  ASSUME RegsOK
  PROVE  DropOk(dropping[MaxNesting + 1], AllTypes) /\ dropping[MaxNesting + 1] \in DropFns
<1>1. MaxNesting \in Nat
  BY BoundsAreNat
<1>2. /\ \A n \in Nat : dropping[n] \in DropFns
      /\ \A n \in Nat : \A a \in Arguments : dropping[n + 1][a] = Dropped(dropping[n], a[1], a[2], a[3])
  BY DroppingIs
<1> DEFINE S == {n \in 0 .. MaxNesting : DropOk(dropping[n + 1], TypesTo[n])}
<1>3. 0 \in S
  <2>1. DropOk(dropping[0], {})
    BY DEF DropOk
  <2>2. TypesTo[0] \subseteq AllTypes /\ Above(TypesTo[0], {})
    BY <1>1, LevelsAbove
  <2>3. DropOk(dropping[0 + 1], TypesTo[0])
    BY <1>2, <2>1, <2>2, DropLevel
  <2> QED BY <1>1, <2>3
<1>4. ASSUME NEW n \in 0 .. MaxNesting - 1, n \in S PROVE n + 1 \in S
  <2>1. n \in Nat /\ n + 1 \in Nat /\ n <= MaxNesting /\ n + 1 <= MaxNesting /\ n + 1 \in 0 .. MaxNesting
    BY <1>1
  <2>2. TypesTo[n] \subseteq AllTypes /\ TypesTo[n + 1] \subseteq AllTypes /\ Above(TypesTo[n + 1], TypesTo[n])
    BY <2>1, LevelsAbove
  <2>3. PICK k : k = n + 1
    OBVIOUS
  <2>4. /\ dropping[k] \in DropFns /\ dropping[k + 1] \in DropFns
        /\ \A a \in Arguments : dropping[k + 1][a] = Dropped(dropping[k], a[1], a[2], a[3])
    <3>1. k \in Nat /\ k + 1 \in Nat
      BY <2>1, <2>3
    <3> QED BY <1>2, <3>1
  <2>5. DropOk(dropping[k], TypesTo[n])
    BY <1>4, <2>3
  <2>6. DropOk(dropping[k + 1], TypesTo[k])
    BY <2>2, <2>3, <2>4, <2>5, DropLevel
  <2> QED BY <2>1, <2>3, <2>6
<1>5. MaxNesting \in S
  <2>1. 0 .. MaxNesting \subseteq S
    <3> HIDE DEF S
    <3> QED BY <1>1, <1>3, <1>4, UpTo
  <2> QED BY <1>1, <2>1
<1>6. MaxNesting + 1 \in Nat
  BY <1>1
<1> QED BY <1>2, <1>5, <1>6 DEF AllTypes

-----------------------------------------------------------------------------
(* The trees of values                                                     *)

\* TreesIn is the function its definition says.
LEMMA TreesInIs ==
  ASSUME NEW m
  PROVE  TreesIn(m)[0] = Bare(m) /\ \A n \in Nat : TreesIn(m)[n + 1] = Taller(m, TreesIn(m)[n])
<1> DEFINE T == {n \in Nat : \E g : Forest(n, g, m)}
<1>1. 0 \in T
  <2> DEFINE g == [k \in 0 .. 0 |-> Bare(m)]
  <2>1. Forest(0, g, m)
    BY DEF Forest
  <2> QED BY <2>1
<1>2. ASSUME NEW n \in Nat, n \in T PROVE n + 1 \in T
  <2>1. PICK g : Forest(n, g, m)
    BY <1>2
  <2> DEFINE h == [k \in 0 .. n + 1 |-> IF k = n + 1 THEN Taller(m, g[n]) ELSE g[k]]
  <2>2. Forest(n + 1, h, m)
    <3>1. h[0] = Bare(m)
      BY <2>1 DEF Forest
    <3>2. ASSUME NEW k \in 0 .. n PROVE h[k + 1] = Taller(m, h[k])
      <4>1. CASE k = n
        <5>1. h[k + 1] = Taller(m, g[n]) /\ h[k] = g[n]
          BY <4>1
        <5> QED BY <5>1, <4>1
      <4>2. CASE k # n
        <5>1. h[k + 1] = g[k + 1] /\ h[k] = g[k] /\ k \in 0 .. n - 1
          BY <4>2
        <5> QED BY <2>1, <5>1 DEF Forest
      <4> QED BY <4>1, <4>2
    <3>3. 0 .. n + 1 - 1 = 0 .. n
      OBVIOUS
    <3>4. \A k \in 0 .. n + 1 - 1 : h[k + 1] = Taller(m, h[k])
      BY <3>2, <3>3
    <3> HIDE DEF h
    <3> QED BY <3>1, <3>4 DEF Forest
  <2> HIDE DEF h
  <2> QED BY <2>2
<1>3. Nat \subseteq T
  <2> HIDE DEF T
  <2> QED BY <1>1, <1>2, NatInd
<1> DEFINE G == [n \in Nat |-> CHOOSE g : Forest(n, g, m)]
           f == [n \in Nat |-> G[n][n]]
<1>4. \A n \in Nat : Forest(n, G[n], m)
  BY <1>3
<1> HIDE DEF G
<1>5. ASSUME NEW n \in Nat, NEW l \in Nat, n <= l PROVE \A k \in 0 .. n : G[n][k] = G[l][k]
  <2> DEFINE U == {k \in 0 .. n : G[n][k] = G[l][k]}
  <2>4. Forest(n, G[n], m) /\ Forest(l, G[l], m)
    BY <1>4
  <2>1. 0 \in U
    <3>1. G[n][0] = G[l][0]
      BY <2>4 DEF Forest
    <3> QED BY <3>1
  <2>2. ASSUME NEW k \in 0 .. n - 1, k \in U PROVE k + 1 \in U
    <3>1. k \in 0 .. l - 1 /\ k + 1 \in 0 .. n
      BY <1>5
    <3>2. G[n][k + 1] = Taller(m, G[n][k]) /\ G[l][k + 1] = Taller(m, G[l][k])
      BY <2>4, <3>1 DEF Forest
    <3> QED BY <2>2, <3>1, <3>2
  <2>3. 0 .. n \subseteq U
    <3> HIDE DEF U
    <3> QED BY <2>1, <2>2, UpTo
  <2> QED BY <2>3
<1>6. f[0] = Bare(m)
  BY <1>4 DEF Forest
<1>7. ASSUME NEW n \in Nat PROVE f[n + 1] = Taller(m, f[n])
  <2>1. G[n + 1][n + 1] = Taller(m, G[n + 1][n])
    <3>1. Forest(n + 1, G[n + 1], m) /\ n \in 0 .. n + 1 - 1
      BY <1>4
    <3> QED BY <3>1 DEF Forest
  <2>2. G[n][n] = G[n + 1][n]
    BY <1>5
  <2>3. f[n + 1] = G[n + 1][n + 1] /\ f[n] = G[n][n]
    OBVIOUS
  <2> QED BY <2>1, <2>2, <2>3
<1> DEFINE Body(trees) ==
     [n \in Nat |->
        [v \in Values |->
           TreeOver(v, IF n = 0 THEN << >> ELSE [i \in DOMAIN m.heap[v.i].data |-> trees[n - 1][m.heap[v.i].data[i]]], m)]]
<1>13. ASSUME NEW h PROVE /\ Body(h)[0] = Bare(m)
                          /\ \A n \in Nat : Body(h)[n + 1] = Taller(m, h[n])
  <2>1. Body(h)[0] = Bare(m)
    BY DEF Bare
  <2>2. ASSUME NEW n \in Nat PROVE Body(h)[n + 1] = Taller(m, h[n])
    <3>1. PICK l \in Nat : l = n + 1 /\ l # 0 /\ l - 1 = n
      OBVIOUS
    <3>2. Body(h)[l] = Taller(m, h[n])
      BY <3>1 DEF Taller
    <3> HIDE DEF Body
    <3> QED BY <3>1, <3>2
  <2> QED BY <2>1, <2>2
<1>8. f = Body(f)
  <2>1. ASSUME NEW n \in Nat PROVE f[n] = Body(f)[n]
    <3> HIDE DEF f, Body
    <3>1. CASE n = 0
      BY <3>1, <1>6, <1>13
    <3>2. CASE n # 0
      <4>1. PICK l \in Nat : l = n - 1 /\ n = l + 1
        BY <3>2
      <4> QED BY <4>1, <1>7, <1>13
    <3> QED BY <3>1, <3>2
  <2> QED BY <2>1
<1>9. TreesIn(m) = CHOOSE h : h = Body(h)
  BY DEF TreesIn
<1>10. TreesIn(m) = Body(TreesIn(m))
  <2> HIDE DEF Body, f
  <2> QED BY <1>8, <1>9
<1> HIDE DEF Body
<1> QED BY <1>10, <1>13

LEMMA ElementAt ==
  ASSUME NEW m, NEW O, NEW W, Sound(m, O, W), NEW id \in Ids, At(W, id) # {}, m.heap[id].k = "array",
         NEW i \in DOMAIN m.heap[id].data
  PROVE  ElementIn(m, W, id, i)
<1>1. /\ DOMAIN m.heap[id].data = 1 .. Len(m.heap[id].data) /\ m.heap[id].data[i] \in Values /\ i \in 1 .. Big
  BY DataFits
<1>2. Keeps(m, O, W, id)
  BY SoundIs
<1>3. W[<<id, i>>] = Element(m.heap[id], i)
  BY <1>1, <1>2 DEF Keeps
<1>4. Element(m.heap[id], i) = [ty |-> m.heap[id].el, v |-> m.heap[id].data[i]]
  BY DEF Element
<1>5. <<id, i>> \in Places
  BY <1>1, PlacesAre
<1>6. [ty |-> m.heap[id].el, v |-> m.heap[id].data[i]] # Free
  BY <1>1, NotFree
<1> QED BY <1>1, <1>3, <1>4, <1>5, <1>6 DEF ElementIn

\* What a tree is made of.
LEMMA TreeIs ==
  ASSUME NEW m, NEW v \in Values, NEW n \in Nat
  PROVE  /\ TreesIn(m)[0][v] = TreeOver(v, << >>, m)
         /\ TreesIn(m)[n + 1][v] = TreeOver(v, [i \in DOMAIN m.heap[v.i].data |-> TreesIn(m)[n][m.heap[v.i].data[i]]], m)
<1>1. TreesIn(m)[0] = Bare(m) /\ TreesIn(m)[n + 1] = Taller(m, TreesIn(m)[n])
  BY TreesInIs
<1>2. Bare(m)[v] = TreeOver(v, << >>, m)
  BY DEF Bare
<1>3. Taller(m, TreesIn(m)[n])[v] = TreeOver(v, [i \in DOMAIN m.heap[v.i].data |-> TreesIn(m)[n][m.heap[v.i].data[i]]], m)
  BY DEF Taller
<1> QED BY <1>1, <1>2, <1>3

\* A tree by the kind of what it is of.
LEMMA TreeOverIs ==
  ASSUME NEW m, NEW v, NEW els
  PROVE  /\ ~IsRef(v) => TreeOver(v, els, m) = <<v.tag, v.i>>
         /\ IsRef(v) /\ m.heap[v.i].k = "string" => TreeOver(v, els, m) = <<"str", m.heap[v.i].bytes>>
         /\ IsRef(v) /\ m.heap[v.i].k = "host" => TreeOver(v, els, m) = <<"host", m.heap[v.i].payload>>
         /\ IsRef(v) /\ m.heap[v.i].k = "array" => TreeOver(v, els, m) = <<"arr", els>>
BY DEF TreeOver, Is

\* Their trees are the same.
LEMMA SameTrees ==
  ASSUME NEW m, NEW O, NEW W, Sound(m, O, W), NEW m1, NEW P \in SUBSET Places, Unchanged(m, m1, W, P)
  PROVE  \A n \in Nat : \A p \in P : W[p] # Free => TreesIn(m1)[n][W[p].v] = TreesIn(m)[n][W[p].v]
<1> DEFINE S == {n \in Nat : \A p \in P : W[p] # Free => TreesIn(m1)[n][W[p].v] = TreesIn(m)[n][W[p].v]}
<1>0. W \in [Places -> Contents]
  BY SoundIs
<1>1. ASSUME NEW p \in P, W[p] # Free, NEW els
      PROVE  /\ W[p].v \in Values
             /\ ~(IsRef(W[p].v) /\ m.heap[W[p].v.i].k = "array") => \A e1 : TreeOver(W[p].v, els, m1) = TreeOver(W[p].v, e1, m)
             /\ IsRef(W[p].v) /\ m.heap[W[p].v.i].k = "array" => TreeOver(W[p].v, els, m1) = TreeOver(W[p].v, els, m)
  <2>1. W[p].v \in Values
    BY <1>0, <1>1, ContentIs
  <2>2. CASE ~IsRef(W[p].v)
    BY <2>1, <2>2, TreeOverIs
  <2>3. CASE IsRef(W[p].v)
    <3> DEFINE id == W[p].v.i
    <3>1. id \in Ids /\ Fits(W[p], m) /\ W[p].v.tag \in RefTags
      BY <2>3, RefIs, SoundIs
    <3>2. m.heap[id].k = W[p].v.tag
      BY <2>3, <3>1 DEF Fits
    <3>3. Alike(m.heap[id], m1.heap[id])
      BY <2>3 DEF Unchanged
    <3>4. m.heap[id].k \in {"string", "host", "array"}
      BY <3>1, <3>2 DEF RefTags
    <3> HIDE DEF id
    <3>5. CASE m.heap[id].k = "string"
      BY <2>1, <2>3, <3>3, <3>5, TreeOverIs DEF Alike, id
    <3>6. CASE m.heap[id].k = "host"
      BY <2>1, <2>3, <3>3, <3>6, TreeOverIs DEF Alike, id
    <3>7. CASE m.heap[id].k = "array"
      BY <2>1, <2>3, <3>3, <3>7, TreeOverIs DEF Alike, id
    <3> QED BY <3>4, <3>5, <3>6, <3>7
  <2> QED BY <2>2, <2>3
<1>2. 0 \in S
  <2>1. ASSUME NEW p \in P, W[p] # Free PROVE TreesIn(m1)[0][W[p].v] = TreesIn(m)[0][W[p].v]
    <3>1. W[p].v \in Values /\ TreeOver(W[p].v, << >>, m1) = TreeOver(W[p].v, << >>, m)
      BY <1>1, <2>1
    <3>2. 0 \in Nat
      OBVIOUS
    <3>3. /\ TreesIn(m)[0][W[p].v] = TreeOver(W[p].v, << >>, m)
          /\ TreesIn(m1)[0][W[p].v] = TreeOver(W[p].v, << >>, m1)
      BY <3>1, <3>2, TreeIs
    <3> QED BY <3>1, <3>3
  <2> QED BY <2>1
<1>3. ASSUME NEW n \in Nat, n \in S PROVE n + 1 \in S
  <2>1. ASSUME NEW p \in P, W[p] # Free PROVE TreesIn(m1)[n + 1][W[p].v] = TreesIn(m)[n + 1][W[p].v]
    <3> DEFINE id == W[p].v.i
               els == [i \in DOMAIN m.heap[id].data |-> TreesIn(m)[n][m.heap[id].data[i]]]
               els1 == [i \in DOMAIN m1.heap[id].data |-> TreesIn(m1)[n][m1.heap[id].data[i]]]
    <3>1. W[p].v \in Values
      BY <1>0, <2>1, ContentIs
    <3>2. TreesIn(m)[n + 1][W[p].v] = TreeOver(W[p].v, els, m) /\ TreesIn(m1)[n + 1][W[p].v] = TreeOver(W[p].v, els1, m1)
      BY <3>1, TreeIs
    <3>3. CASE IsRef(W[p].v) /\ m.heap[id].k = "array"
      <4>1. m1.heap[id].data = m.heap[id].data
        BY <3>3 DEF Unchanged, Alike
      <4>2. id \in Ids /\ At(W, id) # {}
        BY <3>3, RefIs
      <4>3. ASSUME NEW i \in DOMAIN m.heap[id].data PROVE els1[i] = els[i]
        <5>1. ElementIn(m, W, id, i)
          BY <3>3, <4>2, ElementAt
        <5>2. <<id, i>> \in P /\ W[<<id, i>>] # Free /\ W[<<id, i>>].v = m.heap[id].data[i]
          <6>1. i \in 1 .. Big /\ W[<<id, i>>] # Free /\ W[<<id, i>>].v = m.heap[id].data[i]
            BY <5>1 DEF ElementIn
          <6>2. <<id, i>> \in P
            BY <3>3, <6>1 DEF Unchanged
          <6> QED BY <6>1, <6>2
        <5>3. TreesIn(m1)[n][W[<<id, i>>].v] = TreesIn(m)[n][W[<<id, i>>].v]
          BY <1>3, <5>2
        <5> QED BY <4>1, <5>2, <5>3
      <4>4. els1 = els
        BY <4>1, <4>3
      <4> HIDE DEF els, els1
      <4> QED BY <1>1, <2>1, <3>2, <3>3, <4>4
    <3>4. CASE ~(IsRef(W[p].v) /\ m.heap[id].k = "array")
      <4> HIDE DEF els, els1
      <4> QED BY <1>1, <2>1, <3>2, <3>4
    <3> QED BY <3>3, <3>4
  <2> HIDE DEF S
  <2>2. n + 1 \in Nat
    OBVIOUS
  <2> USE DEF S
  <2> QED BY <2>1, <2>2
<1>4. Nat \subseteq S
  <2> HIDE DEF S
  <2> QED BY <1>2, <1>3, NatInd
<1> QED BY <1>4

\* A tree of a type of k levels is no deeper than k.
LEMMA Settled ==
  ASSUME NEW m, NEW O, NEW W, Sound(m, O, W)
  PROVE  \A k \in Nat : \A p \in Places :
           W[p] # Free /\ W[p].ty \in TypesTo[k] => TreesIn(m)[k + 1][W[p].v] = TreesIn(m)[k][W[p].v]
<1> DEFINE S == {k \in Nat : \A p \in Places :
                   W[p] # Free /\ W[p].ty \in TypesTo[k] => TreesIn(m)[k + 1][W[p].v] = TreesIn(m)[k][W[p].v]}
<1>0. W \in [Places -> Contents]
  BY SoundIs
<1>1. ASSUME NEW p \in Places, W[p] # Free, NEW k \in Nat, W[p].ty \in TypesTo[k],
             IsRef(W[p].v), m.heap[W[p].v.i].k = "array"
      PROVE  k > 0 /\ m.heap[W[p].v.i].el \in TypesTo[k - 1]
  <2>1. Fits(W[p], m)
    BY SoundIs
  <2> QED BY <1>1, <2>1 DEF Fits, Under
<1>2. ASSUME NEW p \in Places, W[p] # Free, ~(IsRef(W[p].v) /\ m.heap[W[p].v.i].k = "array"), NEW e1, NEW e2
      PROVE  TreeOver(W[p].v, e1, m) = TreeOver(W[p].v, e2, m)
  <2>1. CASE ~IsRef(W[p].v)
    BY <2>1, TreeOverIs
  <2>2. CASE IsRef(W[p].v)
    <3>1. Fits(W[p], m) /\ W[p].v.tag \in RefTags
      BY <2>2, RefIs, SoundIs
    <3>2. m.heap[W[p].v.i].k \in {"string", "host"}
      BY <1>2, <2>2, <3>1 DEF Fits, RefTags
    <3> QED BY <2>2, <3>2, TreeOverIs
  <2> QED BY <2>1, <2>2
<1>3. 0 \in S
  <2>1. ASSUME NEW p \in Places, W[p] # Free, W[p].ty \in TypesTo[0]
        PROVE  TreesIn(m)[0 + 1][W[p].v] = TreesIn(m)[0][W[p].v]
    <3>1. ~(IsRef(W[p].v) /\ m.heap[W[p].v.i].k = "array")
      BY <1>1, <2>1
    <3>2. W[p].v \in Values
      BY <1>0, <2>1, ContentIs
    <3> DEFINE els == [i \in DOMAIN m.heap[W[p].v.i].data |-> TreesIn(m)[0][m.heap[W[p].v.i].data[i]]]
    <3>3. 0 \in Nat
      OBVIOUS
    <3>4. /\ TreesIn(m)[0][W[p].v] = TreeOver(W[p].v, << >>, m)
          /\ TreesIn(m)[0 + 1][W[p].v] = TreeOver(W[p].v, els, m)
      BY <3>2, <3>3, TreeIs
    <3> HIDE DEF els
    <3>5. TreeOver(W[p].v, << >>, m) = TreeOver(W[p].v, els, m)
      BY <1>2, <2>1, <3>1
    <3> QED BY <3>4, <3>5
  <2> QED BY <2>1
<1>4. ASSUME NEW k \in Nat, k \in S PROVE k + 1 \in S
  <2>1. ASSUME NEW p \in Places, W[p] # Free, W[p].ty \in TypesTo[k + 1]
        PROVE  TreesIn(m)[k + 1 + 1][W[p].v] = TreesIn(m)[k + 1][W[p].v]
    <3> DEFINE id == W[p].v.i
               els(n) == [i \in DOMAIN m.heap[id].data |-> TreesIn(m)[n][m.heap[id].data[i]]]
    <3>1. W[p].v \in Values
      BY <1>0, <2>1, ContentIs
    <3>5. k + 1 \in Nat /\ k + 1 - 1 = k
      OBVIOUS
    <3>2. /\ TreesIn(m)[k + 1][W[p].v] = TreeOver(W[p].v, els(k), m)
          /\ TreesIn(m)[k + 1 + 1][W[p].v] = TreeOver(W[p].v, els(k + 1), m)
      BY <3>1, <3>5, TreeIs
    <3>3. CASE IsRef(W[p].v) /\ m.heap[id].k = "array"
      <4>1. id \in Ids /\ At(W, id) # {}
        BY <3>3, RefIs
      <4>2. m.heap[id].el \in TypesTo[k]
        BY <1>1, <2>1, <3>5, <3>3
      <4>3. ASSUME NEW i \in DOMAIN m.heap[id].data
            PROVE  TreesIn(m)[k + 1][m.heap[id].data[i]] = TreesIn(m)[k][m.heap[id].data[i]]
        <5>1. ElementIn(m, W, id, i)
          BY <3>3, <4>1, ElementAt
        <5>2. /\ <<id, i>> \in Places /\ W[<<id, i>>] # Free /\ W[<<id, i>>].v = m.heap[id].data[i]
              /\ W[<<id, i>>].ty = m.heap[id].el
          BY <5>1 DEF ElementIn
        <5> QED BY <1>4, <4>2, <5>2
      <4>4. els(k + 1) = els(k)
        BY <4>3
      <4> HIDE DEF els
      <4> QED BY <3>2, <4>4
    <3>4. CASE ~(IsRef(W[p].v) /\ m.heap[id].k = "array")
      <4> HIDE DEF els
      <4>1. TreeOver(W[p].v, els(k + 1), m) = TreeOver(W[p].v, els(k), m)
        BY <1>2, <2>1, <3>4
      <4> QED BY <3>2, <4>1
    <3> QED BY <3>3, <3>4
  <2>2. k + 1 \in Nat
    OBVIOUS
  <2> QED BY <2>1, <2>2
<1>5. Nat \subseteq S
  <2> HIDE DEF S
  <2> QED BY <1>3, <1>4, NatInd
<1> QED BY <1>5

LEMMA TwinsAre ==
  /\ \A m, v : Twins(m, v, m, v)
  /\ \A m, v, m1, v1, m2, v2 : Twins(m, v, m1, v1) /\ Twins(m1, v1, m2, v2) => Twins(m, v, m2, v2)
BY DEF Twins

\* What changes no object that a place holds changes no tree.
LEMMA StaysTwin ==
  ASSUME NEW m, NEW O, NEW W, Sound(m, O, W), NEW m1,
         \A id \in Ids : At(W, id) # {} => Alike(m.heap[id], m1.heap[id])
  PROVE  \A p \in Places : W[p] # Free => Twins(m, W[p].v, m1, W[p].v)
<1>1. Unchanged(m, m1, W, Places)
  <2> SUFFICES ASSUME NEW p \in Places, IsRef(W[p].v)
               PROVE  /\ Alike(m.heap[W[p].v.i], m1.heap[W[p].v.i])
                      /\ \A i \in 1 .. Big : <<W[p].v.i, i>> \in Places
    BY DEF Unchanged
  <2>1. W[p].v.i \in Ids /\ At(W, W[p].v.i) # {}
    BY RefIs
  <2> QED BY <2>1, PlacesAre
<1> QED BY <1>1, SameTrees DEF Twins

\* A copy changes none.
LEMMA KeepsTwin ==
  ASSUME NEW m, NEW O, NEW W, Sound(m, O, W), NEW m1, Keeping(m, m1)
  PROVE  \A p \in Places : W[p] # Free => Twins(m, W[p].v, m1, W[p].v)
<1>1. ASSUME NEW id \in Ids, At(W, id) # {} PROVE Alike(m.heap[id], m1.heap[id])
  <2>1. PICK p \in Places : IsRef(W[p].v) /\ W[p].v.i = id
    BY <1>1 DEF At
  <2>2. m.heap[id].k \in {"string", "array", "host"}
    BY <2>1, SoundIs DEF Fits, IsRef, RefTags
  <2> QED BY <2>2 DEF Keeping, Alike, SameHandle
<1> QED BY <1>1, StaysTwin

\* Two values that are made of nothing.
LEMMA LeafTwins ==
  ASSUME NEW m, NEW v \in Values, NEW m1, NEW w \in Values,
         \A e, e1 : TreeOver(w, e1, m1) = TreeOver(v, e, m)
  PROVE  Twins(m, v, m1, w)
<1> SUFFICES ASSUME NEW n \in Nat PROVE TreesIn(m1)[n][w] = TreesIn(m)[n][v]
  BY DEF Twins
<1>1. CASE n = 0
  <2>1. TreesIn(m)[0][v] = TreeOver(v, << >>, m) /\ TreesIn(m1)[0][w] = TreeOver(w, << >>, m1)
    <3>1. 0 \in Nat
      OBVIOUS
    <3> QED BY <3>1, TreeIs
  <2> QED BY <1>1, <2>1
<1>2. CASE n # 0
  <2>1. PICK k \in Nat : n = k + 1
    <3>1. n - 1 \in Nat /\ n = n - 1 + 1
      BY <1>2
    <3> QED BY <3>1
  <2>2. \E e : TreesIn(m)[k + 1][v] = TreeOver(v, e, m)
    BY TreeIs
  <2>3. \E e : TreesIn(m1)[k + 1][w] = TreeOver(w, e, m1)
    BY TreeIs
  <2> QED BY <2>1, <2>2, <2>3
<1> QED BY <1>1, <1>2

\* Two arrays of twins.
LEMMA ArrayTwins ==
  ASSUME NEW m, NEW a \in Ids, m.heap[a].k = "array", NEW m1, NEW b \in Ids, m1.heap[b].k = "array",
         DOMAIN m1.heap[b].data = DOMAIN m.heap[a].data,
         \A i \in DOMAIN m.heap[a].data : Twins(m, m.heap[a].data[i], m1, m1.heap[b].data[i])
  PROVE  Twins(m, Ref("array", a), m1, Ref("array", b))
<1> SUFFICES ASSUME NEW n \in Nat PROVE TreesIn(m1)[n][Ref("array", b)] = TreesIn(m)[n][Ref("array", a)]
  BY DEF Twins
<1>1. PICK v \in Values, w \in Values : v = Ref("array", a) /\ w = Ref("array", b) /\ v.i = a /\ w.i = b /\ IsRef(v) /\ IsRef(w)
  BY ValuesAre DEF RefTags
<1>2. \A e : TreeOver(v, e, m) = <<"arr", e>> /\ TreeOver(w, e, m1) = <<"arr", e>>
  BY <1>1, TreeOverIs
<1>3. CASE n = 0
  <2>1. TreesIn(m)[0][v] = TreeOver(v, << >>, m) /\ TreesIn(m1)[0][w] = TreeOver(w, << >>, m1)
    <3>1. 0 \in Nat
      OBVIOUS
    <3> QED BY <3>1, TreeIs
  <2> QED BY <1>1, <1>2, <1>3, <2>1
<1>4. CASE n # 0
  <2>1. PICK k \in Nat : n = k + 1
    <3>1. n - 1 \in Nat /\ n = n - 1 + 1
      BY <1>4
    <3> QED BY <3>1
  <2> DEFINE els == [i \in DOMAIN m.heap[v.i].data |-> TreesIn(m)[k][m.heap[v.i].data[i]]]
             els1 == [i \in DOMAIN m1.heap[w.i].data |-> TreesIn(m1)[k][m1.heap[w.i].data[i]]]
  <2>2. TreesIn(m)[k + 1][v] = TreeOver(v, els, m) /\ TreesIn(m1)[k + 1][w] = TreeOver(w, els1, m1)
    BY TreeIs
  <2>3. els1 = els
    BY <1>1 DEF Twins
  <2> HIDE DEF els, els1
  <2> QED BY <1>1, <1>2, <2>1, <2>2, <2>3
<1> QED BY <1>3, <1>4

-----------------------------------------------------------------------------
(* Copying a value                                                         *)

\* The elements are copied, when the level below copies one.
LEMMA ElementsCopied ==
  ASSUME NEW T \in SUBSET AllTypes, NEW c \in CopyFns, CopyOk(c, T),
         NEW m, NEW O, NEW W, Sound(m, O, W), NEW dst \in O, NEW src \in Ids, src \notin O,
         NEW o, o.data \in Seq(Values), o.el \in T, Len(o.data) <= Big,
         \A i \in 1 .. Len(o.data) : /\ W[<<src, i>>] = [ty |-> o.el, v |-> o.data[i]]
                                     /\ W[<<dst, i>>] = Free,
         NEW g, Collects(g, c, o, m)
  PROVE  LET n == Len(o.data) IN g[n].m.full \/ \E W1 : AllCopied(m, O, W, dst, o, n, g[n], W1)
<1> PICK n : n = Len(o.data)
  OBVIOUS
<1>1. n \in Nat /\ (\A i \in 1 .. n : o.data[i] \in Values) /\ o.el \in AllTypes
  BY SeqFacts
<1>2. m \in Memories /\ O \subseteq Ids /\ W \in [Places -> Contents] /\ src # dst
  BY DEF Sound
<1>3. \A i \in 0 .. n : g[i].v \in Seq(Values) /\ g[i].m \in Memories /\ Keeping(m, g[i].m) /\ Len(g[i].v) = i
  BY <1>1, <1>2, CollectsKeeps
<1> DEFINE S == {k \in 0 .. n : g[k].m.full \/ \E W1 : AllCopied(m, O, W, dst, o, k, g[k], W1)}
<1>4. 0 \in S
  <2>1. g[0].m = m
    BY DEF Collects, VM
  <2>2. AllCopied(m, O, W, dst, o, 0, g[0], W)
    BY <2>1 DEF AllCopied
  <2> QED BY <1>1, <2>2
<1>5. ASSUME NEW k \in 0 .. n - 1, k \in S PROVE k + 1 \in S
  <2>1. PICK j : j = k + 1
    OBVIOUS
  <2>2. j \in 1 .. n /\ j - 1 = k /\ j \in 0 .. n /\ k \in 0 .. n /\ j \in 1 .. Big /\ j \in Nat /\ k \in Nat /\ k < j
    BY <1>1, <2>1, PlacesAre
  <2>3. PICK a : a = <<o.data[j], o.el, g[k].m>>
    OBVIOUS
  <2>4. PICK r : r = c[a]
    OBVIOUS
  <2>5. a \in Arguments /\ a[3] = g[k].m
    BY <1>1, <1>3, <2>2, <2>3 DEF Arguments
  <2>6. r \in VMs /\ Keeping(g[k].m, r.m)
    BY <2>4, <2>5 DEF CopyFns
  <2>7. r.v \in Values /\ r.m \in Memories
    BY <2>6, VMIs
  <2>8. g[j] = VM(Append(g[k].v, r.v), r.m)
    <3>1. g[j - 1] = g[k]
      BY <2>2
    <3> QED BY <2>2, <2>3, <2>4, <3>1 DEF Collects
  <2>9. g[j].m = r.m /\ g[j].v = Append(g[k].v, r.v)
    BY <2>8 DEF VM
  <2>10. CASE r.m.full
    BY <2>1, <2>2, <2>9, <2>10
  <2>11. CASE ~r.m.full
    <3>1. ~g[k].m.full
      BY <2>6, <2>11 DEF Keeping
    <3>2. PICK W1 : AllCopied(m, O, W, dst, o, k, g[k], W1)
      BY <1>5, <3>1
    <3>3. PICK p, q : p = <<src, j>> /\ q = <<dst, j>>
      OBVIOUS
    <3>4. p \in Places /\ q \in Places /\ q \in Open(O)
      BY <1>2, <2>2, <3>3, PlacesAre DEF Open
    <3>5. W1[p] = [ty |-> o.el, v |-> o.data[j]] /\ W1[p] # Free
      <4>1. W[p] = [ty |-> o.el, v |-> o.data[j]] /\ o.data[j] \in Values
        BY <1>1, <2>2, <3>3
      <4>2. W[p] # Free
        BY <4>1, NotFree
      <4>3. \A i \in 1 .. k : p # <<dst, i>>
        BY <1>2, <3>3
      <4> QED BY <3>2, <3>4, <4>1, <4>2, <4>3 DEF AllCopied
    <3>6. W1[q] = Free
      <4>1. W[q] = Free
        BY <2>2, <3>3
      <4>2. \A i \in 1 .. k : q # <<dst, i>>
        BY <2>2, <3>3
      <4> QED BY <3>2, <3>4, <4>1, <4>2 DEF AllCopied
    <3>7. Sound(g[k].m, O, W1) /\ W1 \in [Places -> Contents] /\ g[k].m \in Memories /\ W1[p].ty \in T
      BY <3>2, <3>5 DEF AllCopied, Sound
    <3>8. r = c[<<W1[p].v, W1[p].ty, g[k].m>>]
      BY <2>3, <2>4, <3>5
    <3>9. PICK W2 : CopiedTo(g[k].m, O, W1, p, q, r, W2)
      BY <1>2, <2>11, <3>4, <3>5, <3>6, <3>7, <3>8 DEF CopyOk
    <3>10. \A i \in 1 .. k : /\ Append(g[k].v, r.v)[i] = g[k].v[i] /\ g[k].v[i] \in Values
      <4>1. g[k].v \in Seq(Values) /\ Len(g[k].v) = k
        BY <1>3, <2>2
      <4> QED BY <2>7, <4>1, Appended, SeqFacts
    <3>11. Append(g[k].v, r.v)[j] = r.v
      <4>1. g[k].v \in Seq(Values) /\ Len(g[k].v) = k
        BY <1>3, <2>2
      <4>2. Append(g[k].v, r.v)[Len(g[k].v) + 1] = r.v
        BY <2>7, <4>1, Appended
      <4> QED BY <2>1, <4>1, <4>2
    <3>12. \A i \in 1 .. j : W2[<<dst, i>>] = [ty |-> o.el, v |-> g[j].v[i]]
      <4> TAKE i \in 1 .. j
      <4>1. CASE i = j
        <5>1. W1[p].ty = o.el
          BY <3>5
        <5> QED BY <2>9, <3>3, <3>9, <3>11, <4>1, <5>1 DEF CopiedTo
      <4>2. CASE i # j
        <5>1. i \in 1 .. k /\ i \in 1 .. Big
          BY <2>1, <2>2, <4>2, PlacesAre
        <5>2. <<dst, i>> \in Places /\ <<dst, i>> # q
          BY <1>2, <3>3, <4>2, <5>1, PlacesAre
        <5>3. W1[<<dst, i>>] = [ty |-> o.el, v |-> g[k].v[i]]
          BY <3>2, <5>1 DEF AllCopied
        <5>4. W1[<<dst, i>>] # Free
          BY <3>10, <5>1, <5>3, NotFree
        <5>5. W2[<<dst, i>>] = W1[<<dst, i>>]
          BY <3>9, <5>2, <5>4 DEF CopiedTo
        <5> QED BY <2>9, <3>10, <5>1, <5>3, <5>5
      <4> QED BY <4>1, <4>2
    <3>13. ASSUME NEW s \in Places, \A i \in 1 .. j : s # <<dst, i>>, W[s] # Free \/ s \in Open(O)
           PROVE  W2[s] = W[s]
      <4>1. s # q /\ \A i \in 1 .. k : s # <<dst, i>>
        <5>1. j \in 1 .. j /\ \A i \in 1 .. k : i \in 1 .. j
          BY <2>2
        <5> QED BY <3>3, <3>13, <5>1
      <4>2. W1[s] = W[s]
        BY <3>2, <3>13, <4>1 DEF AllCopied
      <4> QED BY <3>9, <3>13, <4>1, <4>2 DEF CopiedTo
    <3>14. Sound(g[j].m, O, W2) /\ g[j].m.stuck = m.stuck
      BY <2>9, <3>2, <3>9 DEF AllCopied, CopiedTo
    <3>16. ASSUME NEW i \in 1 .. j PROVE Twins(m, o.data[i], g[j].m, g[j].v[i])
      <4>1. CASE i = j
        <5>1. Twins(g[k].m, o.data[j], r.m, r.v)
          BY <3>5, <3>9 DEF CopiedTo
        <5>2. W[p] # Free /\ W[p].v = o.data[j] /\ Keeping(m, g[k].m)
          <6>1. W[p] = [ty |-> o.el, v |-> o.data[j]] /\ o.data[j] \in Values
            BY <1>1, <2>2, <3>3
          <6>2. [ty |-> o.el, v |-> o.data[j]] # Free
            BY <6>1, NotFree
          <6> QED BY <1>3, <2>2, <6>1, <6>2
        <5>3. Twins(m, o.data[j], g[k].m, o.data[j])
          BY <3>4, <5>2, KeepsTwin
        <5>4. Twins(m, o.data[j], r.m, r.v)
          BY <5>1, <5>3, TwinsAre
        <5> QED BY <2>9, <3>11, <4>1, <5>4
      <4>2. CASE i # j
        <5>1. i \in 1 .. k /\ i \in 1 .. Big
          BY <2>1, <2>2, <4>2, PlacesAre
        <5>2. <<dst, i>> \in Places
          BY <1>2, <5>1, PlacesAre
        <5>3. W1[<<dst, i>>] = [ty |-> o.el, v |-> g[k].v[i]] /\ Twins(m, o.data[i], g[k].m, g[k].v[i])
          BY <3>2, <5>1 DEF AllCopied
        <5>4. W1[<<dst, i>>] # Free /\ W1[<<dst, i>>].v = g[k].v[i]
          BY <3>10, <5>1, <5>3, NotFree
        <5>5. Twins(g[k].m, g[k].v[i], r.m, g[k].v[i])
          BY <2>6, <3>7, <5>2, <5>4, KeepsTwin
        <5>6. Twins(m, o.data[i], r.m, g[k].v[i])
          BY <5>3, <5>5, TwinsAre
        <5> QED BY <2>9, <3>10, <5>1, <5>6
      <4> QED BY <4>1, <4>2
    <3>15. AllCopied(m, O, W, dst, o, j, g[j], W2)
      BY <3>12, <3>13, <3>14, <3>16 DEF AllCopied
    <3> QED BY <2>1, <2>2, <3>15
  <2> QED BY <2>10, <2>11
<1>6. n \in S
  <2>1. 0 .. n \subseteq S
    <3> HIDE DEF S
    <3> QED BY <1>1, <1>4, <1>5, UpTo
  <2> QED BY <1>1, <2>1
<1> QED BY <1>6

\* The array f, filled with copies of the elements of src, is put in q.
LEMMA IntoCopied ==
  ASSUME NEW T \in SUBSET AllTypes, NEW c \in CopyFns, CopyOk(c, T),
         NEW m, NEW O, NEW W, Sound(m, O, W), NEW f \in O, NEW src \in Ids, At(W, src) # {},
         NEW o, o = m.heap[src], o.k = "array", o.el \in T, Ready(m.heap[f], o),
         \A i \in 1 .. Big : W[<<f, i>>] = Free,
         NEW q \in Open(O \ {f}), W[q] = Free, NEW t, ArrayType(t, o)
  PROVE  LET r == CopyInto(c, f, src, m) IN r.m.full \/ \E W1 : Filled(m, O \ {f}, W, q, t, src, r, W1)
<1>1. m \in Memories /\ O \subseteq Ids /\ W \in [Places -> Contents] /\ f \in Ids
  BY DEF Sound
<1>2. Keeps(m, O, W, src) /\ Keeps(m, O, W, f)
  BY <1>1 DEF Sound
<1>3. src \notin O /\ src # f /\ \A i \in 1 .. Big : W[<<src, i>>] = Element(o, i)
  BY <1>2 DEF Keeps
<1>4. PICK n : n = Len(o.data)
  OBVIOUS
<1>5. /\ n \in Nat /\ n <= Big /\ DOMAIN o.data = 1 .. n /\ o.data \in Seq(Values) /\ o.el \in AllTypes /\ Sizes(o)
      /\ \A i \in 1 .. n : o.data[i] \in Values /\ i \in 1 .. Big
  BY <1>4, DataFits
<1>6. PICK g : IntoArray(g, c, o, m, f, CopyInto(c, f, src, m))
  <2>1. c \in [Arguments -> VMs]
    BY DEF CopyFns
  <2> QED BY <1>1, <1>5, <2>1, CopyIntoIs
<1>7. PICK r : r = CopyInto(c, f, src, m)
  BY Zenon
<1>8. Collects(g, c, o, m) /\ r = VM(Ref("array", f), [g[n].m EXCEPT !.heap[f].data = g[n].v])
  BY <1>4, <1>6, <1>7, Zenon DEF IntoArray
<1>9. n \in 0 .. n
  BY <1>5
<1>10. g[n].v \in Seq(Values) /\ g[n].m \in Memories /\ Keeping(m, g[n].m) /\ Len(g[n].v) = n
  <2>1. o.data \in Seq(Values) /\ o.el \in AllTypes /\ m \in Memories /\ Collects(g, c, o, m)
    BY <1>1, <1>5, <1>8
  <2>2. \A i \in 0 .. Len(o.data) : g[i].v \in Seq(Values) /\ g[i].m \in Memories /\ Keeping(m, g[i].m) /\ Len(g[i].v) = i
    BY <2>1, CollectsKeeps
  <2> QED BY <1>4, <1>9, <2>2
<1>11. PICK vs \in Seq(Values), mg \in Memories : vs = g[n].v /\ mg = g[n].m
  BY <1>10
<1>12. PICK m1 : m1 = [mg EXCEPT !.heap[f].data = vs]
  OBVIOUS
<1>13. r.m = m1 /\ r.v = Ref("array", f)
  BY <1>8, <1>11, <1>12 DEF VM
<1>14. PICK b, b1 : b = m.heap[f] /\ b1 = [b EXCEPT !.data = vs]
  OBVIOUS
<1>15. mg.heap[f] = b /\ b \in Arrays /\ b.rc = 1
  <2>1. b.k = "array"
    BY <1>14 DEF Ready
  <2>2. b \in Arrays
    BY <1>1, <1>14, <2>1, ArrayIn
  <2>3. mg.heap[f] = b
    BY <1>1, <1>10, <1>11, <1>14, <2>1 DEF Keeping
  <2> QED BY <1>2, <1>14, <2>2, <2>3 DEF Keeps
<1>16. m1 = Put(mg, f, b1)
  <2>1. mg.heap \in [Ids -> Objects]
    BY MemoryIs
  <2> QED BY <1>12, <1>14, <1>15, <2>1 DEF Put
<1>17. /\ b1 \in Arrays /\ b1.k = "array" /\ b1.rc = 1 /\ b1.data = vs /\ b1.el = b.el
       /\ b1.fixed = b.fixed /\ b1.cap = b.cap
  <2>1. b1 \in Arrays /\ b1.rc = 1 /\ b1.data = vs /\ b1.el = b.el /\ b1.fixed = b.fixed /\ b1.cap = b.cap
    BY <1>14, <1>15 DEF Arrays
  <2> QED BY <2>1, KindsAre
<1>18. IsPut(m1, mg, f, b1)
  BY <1>1, <1>16, <1>17, KindsAre, PutFacts
<1>19. CASE mg.full
  BY <1>7, <1>13, <1>18, <1>19 DEF IsPut
<1>20. CASE ~mg.full
  <2>1. \A i \in 1 .. n : W[<<src, i>>] = [ty |-> o.el, v |-> o.data[i]] /\ W[<<f, i>>] = Free
    BY <1>3, <1>5 DEF Element
  <2>2. \E V : AllCopied(m, O, W, f, o, n, g[n], V)
    <3>1. \A i \in 1 .. Len(o.data) : W[<<src, i>>] = [ty |-> o.el, v |-> o.data[i]] /\ W[<<f, i>>] = Free
      BY <1>4, <2>1, Zenon
    <3>2. Len(o.data) <= Big /\ Collects(g, c, o, m) /\ src \notin O /\ o.data \in Seq(Values)
      BY <1>3, <1>4, <1>5, <1>8, Zenon
    <3>3. LET k == Len(o.data) IN g[k].m.full \/ \E V : AllCopied(m, O, W, f, o, k, g[k], V)
      BY <3>1, <3>2, ElementsCopied
    <3>4. g[n].m.full \/ \E V : AllCopied(m, O, W, f, o, n, g[n], V)
      BY <1>4, <3>3
    <3> QED BY <1>11, <1>20, <3>4
  <2>3. PICK W1 : AllCopied(m, O, W, f, o, n, g[n], W1)
    BY <2>2
  <2>4. /\ Sound(mg, O, W1) /\ mg.stuck = m.stuck
        /\ \A i \in 1 .. n : W1[<<f, i>>] = [ty |-> o.el, v |-> vs[i]] /\ Twins(m, o.data[i], mg, vs[i])
        /\ \A s \in Places : (\A i \in 1 .. n : s # <<f, i>>) /\ (W[s] # Free \/ s \in Open(O)) => W1[s] = W[s]
    BY <1>11, <2>3 DEF AllCopied
  <2>5. Sizes(b1)
    <3>1. Len(vs) = n /\ b.cap >= n /\ (o.fixed => n = FixedLength) /\ b.fixed = o.fixed /\ b.cap \in Nat
      BY <1>4, <1>5, <1>10, <1>11, <1>14, <1>15, KindsAre DEF Ready, Sizes
    <3>2. ~o.fixed => b.cap \in Capacities /\ n <= MaxLength
      BY <1>4, <1>5, <1>14 DEF Ready, Sizes
    <3> QED BY <1>5, <1>17, <3>1, <3>2, Zenon DEF Sizes
  <2>6. Sound(m1, O, W1)
    <3>1. Sound(Put(mg, f, b1), O \union {f}, W1)
      BY <1>1, <1>17, <2>4, <2>5, Written
    <3>2. O \union {f} = O
      OBVIOUS
    <3> QED BY <1>16, <3>1, <3>2
  <2>7. m1.heap[f] = b1 /\ m1.stuck = m.stuck
    BY <1>18, <2>4 DEF IsPut
  <2>8. \A i \in 1 .. Big : W1[<<f, i>>] = Element(b1, i)
    <3> TAKE i \in 1 .. Big
    <3>1. DOMAIN vs = 1 .. n
      BY <1>10, <1>11, SeqFacts
    <3>2. CASE i \in 1 .. n
      <4>1. b1.el = o.el
        BY <1>14, <1>17 DEF Ready
      <4> QED BY <1>17, <2>4, <3>1, <3>2, <4>1 DEF Element
    <3>3. CASE i \notin 1 .. n
      <4>1. Element(b1, i) = Free
        BY <1>17, <3>1, <3>3 DEF Element
      <4>2. <<f, i>> \in Places /\ <<f, i>> \in Open(O)
        BY <1>1, PlacesAre DEF Open
      <4>3. \A k \in 1 .. n : <<f, i>> # <<f, k>>
        BY <3>3
      <4> QED BY <2>4, <4>1, <4>2, <4>3
    <3> QED BY <3>2, <3>3
  <2>9. q \in Places /\ q \in Open(O) /\ (q[1] # f \/ q[2] = 0)
    <3>1. f # 0
      BY <1>1, PlacesAre
    <3> QED BY <3>1 DEF Open
  <2>10. \A s \in Places : s \in Open(O \ {f}) => s \in Open(O) /\ \A i \in 1 .. n : s # <<f, i>>
    <3> TAKE s \in Places
    <3> HAVE s \in Open(O \ {f})
    <3>1. s \in Open(O)
      BY DEF Open
    <3>2. ASSUME NEW i \in 1 .. n PROVE s # <<f, i>>
      <4>1. f # 0 /\ i # 0
        BY <1>1, <1>5, PlacesAre
      <4> QED BY <4>1 DEF Open
    <3> QED BY <3>1, <3>2
  <2>11. W1[q] = Free
    BY <2>4, <2>9, <2>10
  <2>12. PICK W2 : W2 = [W1 EXCEPT ![q] = [ty |-> t, v |-> Ref("array", f)]]
    OBVIOUS
  <2>13. Sound(m1, O \ {f}, W2)
    <3>1. t \in AllTypes /\ planForType[t].drop = DropOf(m1.heap[f]) /\ Under(m1.heap[f].el, t)
      <4>1. b1.el = o.el /\ b1.fixed = o.fixed
        BY <1>14, <1>17 DEF Ready
      <4>2. DropOf(b1) = DropOf(o)
        BY <1>17, <4>1 DEF DropOf
      <4> QED BY <2>7, <4>1, <4>2 DEF ArrayType
    <3>2. ~IsRef(W1[q].v)
      BY <2>11, FreeIs
    <3> QED BY <2>6, <2>7, <2>8, <2>9, <2>12, <3>1, <3>2, Attached
  <2>14. W1 \in [Places -> Contents]
    BY <2>6 DEF Sound
  <2>15. W2[q] = [ty |-> t, v |-> r.v] /\ \A s \in Places : s # q => W2[s] = W1[s]
    BY <1>13, <2>9, <2>12, <2>14
  <2>16. \A s \in Places : s # q /\ (W[s] # Free \/ s \in Open(O \ {f})) => W2[s] = W[s]
    <3> TAKE s \in Places
    <3> HAVE s # q /\ (W[s] # Free \/ s \in Open(O \ {f}))
    <3>1. \A i \in 1 .. n : s # <<f, i>>
      <4>1. CASE W[s] # Free
        BY <1>5, <4>1
      <4>2. CASE s \in Open(O \ {f})
        BY <2>10, <4>2
      <4> QED BY <4>1, <4>2
    <3>2. W[s] # Free \/ s \in Open(O)
      BY <2>10
    <3> QED BY <2>4, <2>15, <3>1, <3>2
  <2>17. Twins(m, Ref("array", src), m1, Ref("array", f))
    <3>1. DOMAIN vs = 1 .. n /\ \A i \in 1 .. n : vs[i] \in Values
      BY <1>10, <1>11, SeqFacts
    <3>2. ASSUME NEW id \in Ids, At(W1, id) # {} PROVE Alike(mg.heap[id], m1.heap[id])
      <4>1. Keeps(mg, O, W1, f)
        BY <1>1, <2>4, SoundIs
      <4>2. id # f
        BY <3>2, <4>1 DEF Keeps
      <4>3. m1.heap[id] = mg.heap[id]
        BY <1>18, <4>2 DEF IsPut
      <4> QED BY <4>3 DEF Alike
    <3>3. ASSUME NEW i \in 1 .. n PROVE Twins(m, o.data[i], m1, vs[i])
      <4>1. <<f, i>> \in Places /\ W1[<<f, i>>] # Free /\ W1[<<f, i>>].v = vs[i]
        <5>1. [ty |-> o.el, v |-> vs[i]] # Free
          BY <3>1, NotFree
        <5>2. <<f, i>> \in Places
          BY <1>1, <1>5, PlacesAre
        <5>3. W1[<<f, i>>] = [ty |-> o.el, v |-> vs[i]]
          BY <2>4
        <5> QED BY <5>1, <5>2, <5>3
      <4>2. Twins(mg, vs[i], m1, vs[i])
        BY <2>4, <3>2, <4>1, StaysTwin
      <4>3. Twins(m, o.data[i], mg, vs[i])
        BY <2>4
      <4> QED BY <4>2, <4>3, TwinsAre
    <3>4. m1.heap[f].k = "array" /\ m1.heap[f].data = vs
      BY <1>17, <2>7
    <3> QED BY <1>1, <1>5, <3>1, <3>3, <3>4, ArrayTwins
  <2>18. Filled(m, O \ {f}, W, q, t, src, r, W2)
    BY <1>13, <2>7, <2>13, <2>15, <2>16, <2>17 DEF Filled
  <2> QED BY <1>7, <2>18
<1> QED BY <1>19, <1>20

-----------------------------------------------------------------------------
(* One level of copyValue                                                  *)

\* A value in no other place than before, and its copy in q.
LEMMA PlacedIs ==
  ASSUME NEW m, NEW O, NEW W, W \in [Places -> Contents], NEW p \in Places, NEW q \in Open(O), NEW r,
         Sound(r.m, O, [W EXCEPT ![q] = [ty |-> W[p].ty, v |-> r.v]]), r.m.stuck = m.stuck, Twins(m, W[p].v, r.m, r.v)
  PROVE  CopiedTo(m, O, W, p, q, r, [W EXCEPT ![q] = [ty |-> W[p].ty, v |-> r.v]])
<1>1. q \in Places
  BY DEF Open
<1> QED BY <1>1 DEF CopiedTo

\* A string.
LEMMA StringCopied ==
  ASSUME NEW m, NEW O, NEW W, Sound(m, O, W), NEW p \in Places, IsRef(W[p].v), W[p].v.tag = "string",
         NEW q \in Open(O), W[q] = Free
  PROVE  LET r == CopyString(W[p].v.i, m)
         IN  r.m.full \/ CopiedTo(m, O, W, p, q, r, [W EXCEPT ![q] = [ty |-> W[p].ty, v |-> r.v]])
<1>1. m \in Memories /\ W \in [Places -> Contents] /\ Hosted(m) /\ ~m.broken /\ Fits(W[p], m)
  BY DEF Sound
<1>2. PICK id : id = W[p].v.i
  OBVIOUS
<1>3. id \in Ids /\ W[p].ty \in AllTypes
  BY <1>2, RefIs, Zenon
<1>4. m.heap[id].k = "string" /\ planForType[W[p].ty].drop = "FreeString"
  BY <1>1, <1>2 DEF Fits, DropOf
<1>5. CASE ~Room(m)
  <2>1. CopyString(id, m) = Full(m)
    BY <1>5 DEF CopyString
  <2> QED BY <1>1, <1>2, <2>1, FullIs
<1>6. CASE Room(m)
  <2>1. PICK b \in Bytes : b = m.heap[id].bytes
    <3>1. m.heap[id] \in Objects
      BY <1>1, <1>3, MemoryIs
    <3>2. m.heap[id] \in Strings
      BY <1>4, <3>1, ObjectIs
    <3> QED BY <3>2, KindsAre
  <2>2. PICK f : f = Fresh(m)
    OBVIOUS
  <2>3. PICK m1 : m1 = allocString(b, m)
    OBVIOUS
  <2>4. PICK o : o = StringObject(b)
    OBVIOUS
  <2>5. /\ f \in Ids /\ m.heap[f] = NoObject /\ o.k = "string" /\ o.rc = 1 /\ IsPut(m1, m, f, o)
    BY <1>1, <1>6, <2>2, <2>3, <2>4, AllocStringIs
  <2>6. /\ m1 \in Memories /\ ~m1.broken /\ m1.heap[f] = o /\ m1.host = m.host /\ m1.stuck = m.stuck
        /\ \A j \in Ids \ {f} : m1.heap[j] = m.heap[j]
    BY <1>1, <2>5 DEF IsPut
  <2>7. Hosted(m1)
    <3>1. \A j \in Ids : m1.heap[j] = m.heap[j] \/ (m1.heap[j].k # "host" /\ m.heap[j].k # "host")
      BY <2>5, <2>6 DEF NoObject
    <3> QED BY <1>1, <2>6, <3>1, HostedSame
  <2>8. planForType[W[p].ty].drop = DropOf(m1.heap[f])
    BY <1>4, <2>5, <2>6 DEF DropOf
  <2>9. ~IsRef(W[q].v)
    BY FreeIs
  <2>10. Sound(m1, O, [W EXCEPT ![q] = [ty |-> W[p].ty, v |-> Ref(m1.heap[f].k, f)]])
    <3>1. m1.heap[f].k \in {"string", "host"} /\ m1.heap[f].rc = 1
      BY <2>5, <2>6
    <3> QED BY <1>3, <2>5, <2>6, <2>7, <2>8, <2>9, <3>1, NewLeaf, Zenon
  <2>11. PICK v \in Values : v = Ref("string", f)
    BY <2>5, ValuesAre DEF RefTags
  <2>12. PICK r : r = CopyString(id, m)
    OBVIOUS
  <2>13. r = VM(v, m1)
    BY <1>6, <2>1, <2>2, <2>3, <2>11, <2>12 DEF CopyString
  <2>14. r.v = v /\ r.m = m1
    BY <2>6, <2>13, VMIs
  <2>15. Sound(r.m, O, [W EXCEPT ![q] = [ty |-> W[p].ty, v |-> r.v]])
    BY <2>5, <2>6, <2>10, <2>11, <2>14
  <2>16. Twins(m, W[p].v, m1, v)
    <3>1. W[p].v \in Values /\ v.i = f /\ IsRef(v) /\ m1.heap[f].k = "string" /\ m1.heap[f].bytes = b
      <4>1. W[p].v \in Values
        BY RefIs
      <4>2. o.bytes = b
        BY <2>4 DEF StringObject
      <4>3. v.i = f /\ IsRef(v)
        BY <2>5, <2>11, ValuesAre DEF RefTags
      <4> QED BY <2>5, <2>6, <4>1, <4>2, <4>3
    <3>2. \A e, e1 : TreeOver(v, e1, m1) = <<"str", b>> /\ TreeOver(W[p].v, e, m) = <<"str", b>>
      BY <1>2, <1>4, <2>1, <3>1, TreeOverIs
    <3> QED BY <3>1, <3>2, LeafTwins
  <2>17. CopiedTo(m, O, W, p, q, r, [W EXCEPT ![q] = [ty |-> W[p].ty, v |-> r.v]])
    BY <1>1, <2>6, <2>14, <2>15, <2>16, PlacedIs
  <2> QED BY <1>2, <2>12, <2>17
<1> QED BY <1>5, <1>6

\* A handle: one more reference, and the callback for the second.
LEMMA HandleCopied ==
  ASSUME RegsOK, NEW m, NEW O, NEW W, Sound(m, O, W), NEW p \in Places, IsRef(W[p].v), W[p].v.tag = "host",
         NEW q \in Open(O), W[q] = Free, NEW r, r = VM(W[p].v, retainHandle(W[p].v.i, m))
  PROVE  CopiedTo(m, O, W, p, q, r, [W EXCEPT ![q] = [ty |-> W[p].ty, v |-> r.v]])
<1>1. m \in Memories /\ W \in [Places -> Contents] /\ Hosted(m) /\ ~m.broken /\ Fits(W[p], m)
  BY DEF Sound
<1>2. PICK id : id = W[p].v.i
  OBVIOUS
<1>3. id \in Ids /\ W[p].ty \in AllTypes /\ W[p].v \in Values /\ W[p] = [ty |-> W[p].ty, v |-> W[p].v]
  BY <1>2, RefIs
<1>4. PICK h : h = m.heap[id]
  OBVIOUS
<1>5. h \in Handles /\ h.k = "host" /\ h.rc \in Int /\ h.reg \in DOMAIN regs
  <2>1. h.k = "host"
    BY <1>1, <1>2, <1>4 DEF Fits
  <2>2. h \in Objects
    BY <1>1, <1>3, <1>4, MemoryIs
  <2>3. h \in Handles
    BY <2>1, <2>2, ObjectIs
  <2> QED BY <2>1, <2>3, KindsAre
<1>6. PICK h1 : h1 = [h EXCEPT !.rc = h.rc + 1]
  OBVIOUS
<1>7. SameHandle(h, h1) /\ h1.rc = h.rc + 1
  <2>1. h.rc + 1 \in Int
    BY <1>5
  <2>2. h1.rc = h.rc + 1
    BY <1>5, <1>6 DEF Handles
  <2> QED BY <1>5, <1>6, <2>1, <2>2, CountedHandle
<1>8. PICK mc : mc = Count(id, 1, m)
  OBVIOUS
<1>9. IsPut(mc, m, id, h1)
  <2>1. m.heap[id].k # "free"
    BY <1>4, <1>5
  <2> QED BY <1>1, <1>3, <1>4, <1>6, <1>8, <2>1, CountPut
<1>10. /\ mc \in Memories /\ mc.host = m.host /\ ~mc.broken /\ mc.stuck = m.stuck /\ mc.heap[id] = h1
       /\ \A j \in Ids : j # id => mc.heap[j] = m.heap[j]
  BY <1>1, <1>9 DEF IsPut
<1>11. Hosted(mc)
  <2>1. m.heap[id].k = "host" /\ SameHandle(m.heap[id], mc.heap[id])
    BY <1>4, <1>5, <1>7, <1>10
  <2> QED BY <1>1, <1>3, <1>10, <2>1, HostedCount
<1>12. PICK m1 : m1 = retainHandle(id, m)
  OBVIOUS
<1>13. m1 = IF h.rc + 1 = 2 THEN Calls(h, 0, mc) ELSE mc
  <2>1. Is("host", id, m)
    BY <1>4, <1>5 DEF Is
  <2> QED BY <1>4, <1>8, <1>12, <2>1 DEF retainHandle
<1>14. /\ m1 \in Memories /\ ~m1.broken /\ m1.stuck = m.stuck /\ Hosted(m1) /\ m1.heap = mc.heap
  <2>1. CASE h.rc + 1 # 2
    BY <1>10, <1>11, <1>13, <2>1
  <2>2. CASE h.rc + 1 = 2
    <3>1. m1 = Calls(h, 0, mc)
      BY <1>13, <2>2
    <3>2. /\ m1 \in Memories /\ ~m1.broken /\ m1.stuck = m.stuck /\ m1.heap = mc.heap
      BY <1>5, <1>10, <3>1, CallsIs, Zenon
    <3>3. HandleOK(h, mc.host)
      <4>1. HandleOK(m.heap[id], m.host)
        BY <1>1, <1>3, <1>4, <1>5, HostParts
      <4> QED BY <1>4, <1>10, <4>1
    <3>4. HostCalled(mc, m1, h, 0)
      BY <1>5, <1>10, <3>1, <3>3, HostCalledIs
    <3>5. HostCalled(mc, m1, mc.heap[id], 0)
      <4>1. mc.heap[id].payload = h.payload /\ mc.heap[id].reg = h.reg /\ mc.heap[id].index = h.index
        BY <1>7, <1>10 DEF SameHandle
      <4> QED BY <3>4, <4>1 DEF HostCalled
    <3>6. mc.heap[id].k = "host"
      BY <1>5, <1>7, <1>10 DEF SameHandle
    <3>7. Hosted(m1)
      BY <1>3, <1>10, <1>11, <3>2, <3>5, <3>6, HostedRetained
    <3> QED BY <3>2, <3>7
  <2> QED BY <2>1, <2>2
<1>15. r.v = W[p].v /\ r.m = m1
  BY <1>2, <1>3, <1>12, <1>14, VMIs, Zenon
<1>16. Sound(m1, O, [W EXCEPT ![q] = W[p]])
  <2>1. /\ m.heap[id].k = "host" /\ SameHandle(m.heap[id], m1.heap[id]) /\ m1.heap[id].rc = m.heap[id].rc + 1
        /\ \A j \in Ids : j # id => m1.heap[j] = m.heap[j]
    BY <1>4, <1>5, <1>7, <1>10, <1>14
  <2>2. ~IsRef(W[q].v)
    BY FreeIs
  <2>3. m1 \in Memories /\ ~m1.broken /\ Hosted(m1) /\ id \in Ids /\ id = W[p].v.i
    BY <1>2, <1>3, <1>14
  <2> QED BY <2>1, <2>2, <2>3, More
<1>17. Sound(r.m, O, [W EXCEPT ![q] = [ty |-> W[p].ty, v |-> r.v]])
  <2>1. W[p] = [ty |-> W[p].ty, v |-> r.v]
    BY <1>3, <1>15
  <2> QED BY <1>15, <1>16, <2>1
<1>18. Twins(m, W[p].v, r.m, r.v)
  <2>1. Keeping(m, m1) /\ W[p] # Free
    BY <1>1, <1>3, <1>12, RefIs, RetainTyped
  <2> QED BY <1>15, <2>1, KeepsTwin
<1> QED BY <1>1, <1>14, <1>15, <1>17, <1>18, PlacedIs

\* A value that is no reference.
LEMMA PlainCopied ==
  ASSUME NEW m, NEW O, NEW W, Sound(m, O, W), NEW p \in Places, W[p] # Free, ~IsRef(W[p].v),
         NEW q \in Open(O), W[q] = Free, NEW r, r = VM(W[p].v, m)
  PROVE  CopiedTo(m, O, W, p, q, r, [W EXCEPT ![q] = [ty |-> W[p].ty, v |-> r.v]])
<1>1. m \in Memories /\ W \in [Places -> Contents]
  BY DEF Sound
<1>2. W[p].ty \in AllTypes /\ W[p].v \in Values /\ W[p] = [ty |-> W[p].ty, v |-> W[p].v] /\ W[p] \in Contents
  BY <1>1, ContentIs
<1>3. r.v = W[p].v /\ r.m = m
  BY <1>1, <1>2, VMIs
<1>4. Sound(m, O, [W EXCEPT ![q] = W[p]])
  <2>1. ~IsRef(W[q].v)
    BY FreeIs
  <2> QED BY <1>2, <2>1, Blanked
<1>5. W[p] = [ty |-> W[p].ty, v |-> r.v]
  BY <1>2, <1>3
<1>6. Twins(m, W[p].v, r.m, r.v)
  BY <1>3, TwinsAre
<1>7. Sound(r.m, O, [W EXCEPT ![q] = [ty |-> W[p].ty, v |-> r.v]]) /\ r.m.stuck = m.stuck
  BY <1>3, <1>4, <1>5
<1> QED BY <1>1, <1>6, <1>7, PlacedIs

\* Copies of the elements of the array in p go to a new array f, and it to q.
LEMMA NewCopied ==
  ASSUME NEW T \in SUBSET AllTypes, NEW c \in CopyFns, CopyOk(c, T),
         NEW m, NEW O, NEW W, Sound(m, O, W), NEW p \in Places, IsRef(W[p].v),
         NEW src, src = W[p].v.i, m.heap[src].k = "array", m.heap[src].el \in T,
         NEW q \in Open(O), W[q] = Free, NEW f \in Ids, m.heap[f] = NoObject,
         NEW m1, Prepared(m, O, W, f, src, m1)
  PROVE  LET r == CopyInto(c, f, src, m1) IN r.m.full \/ \E W1 : CopiedTo(m, O, W, p, q, r, W1)
<1>1. m \in Memories /\ W \in [Places -> Contents] /\ Fits(W[p], m) /\ m1 \in Memories
  BY DEF Sound, Prepared
<1>2. src \in Ids /\ W[p].ty \in AllTypes /\ At(W, src) # {}
  <2>1. W[p].v.i \in Ids /\ W[p].ty \in AllTypes /\ At(W, W[p].v.i) # {}
    BY RefIs, Zenon
  <2> QED BY <2>1
<1>3. f \notin O /\ \A i \in 1 .. Big : W[<<f, i>>] = Free
  BY FreeUnheld
<1>4. PICK F : F = O \union {f}
  OBVIOUS
<1>5. F \ {f} = O /\ f \in F
  BY <1>3, <1>4
<1>6. PICK o : o = m.heap[src]
  OBVIOUS
<1>7. o = m1.heap[src] /\ o.k = "array" /\ o.el \in T /\ Ready(m1.heap[f], o)
  BY <1>6 DEF Prepared
<1>8. PICK t : t = W[p].ty
  BY Zenon
<1>9. ArrayType(t, o)
  BY <1>1, <1>2, <1>6, <1>8 DEF Fits, ArrayType
<1>10. Sound(m1, F, W) /\ q \in Open(F \ {f}) /\ m1.stuck = m.stuck
  BY <1>4, <1>5 DEF Prepared
<1>11. PICK r : r = CopyInto(c, f, src, m1)
  OBVIOUS
<1>12. r.m.full \/ \E W1 : Filled(m1, F \ {f}, W, q, t, src, r, W1)
  <2>1. o = m1.heap[src] /\ o.k = "array" /\ o.el \in T /\ Ready(m1.heap[f], o)
    BY <1>7, Zenon
  <2>2. LET x == CopyInto(c, f, src, m1) IN x.m.full \/ \E W1 : Filled(m1, F \ {f}, W, q, t, src, x, W1)
    BY <1>2, <1>3, <1>5, <1>9, <1>10, <2>1, IntoCopied
  <2> QED BY <1>11, <2>2
<1>13. W[p].v = Ref("array", src) /\ Twins(m, W[p].v, m1, W[p].v)
  <2>1. W[p].v = Ref(W[p].v.tag, W[p].v.i) /\ W[p] # Free
    <3>1. W[p] # Free
      BY FreeIs
    <3>2. W[p].v \in Values
      BY <1>1, <3>1, ContentIs
    <3> QED BY <3>1, <3>2, ValuesAre
  <2>2. W[p].v.tag = "array"
    BY <1>1 DEF Fits
  <2>3. ASSUME NEW id \in Ids, At(W, id) # {} PROVE Alike(m.heap[id], m1.heap[id])
    <3>1. id # f
      BY <2>3, FreeUnheld
    <3>2. m1.heap[id] = m.heap[id]
      BY <3>1 DEF Prepared
    <3> QED BY <3>2 DEF Alike
  <2> QED BY <2>1, <2>2, <2>3, StaysTwin
<1>14. ASSUME NEW W1, Filled(m1, F \ {f}, W, q, t, src, r, W1) PROVE CopiedTo(m, O, W, p, q, r, W1)
  <2>1. Twins(m, W[p].v, r.m, r.v)
    BY <1>13, <1>14, TwinsAre DEF Filled
  <2> QED BY <1>5, <1>8, <1>10, <1>14, <2>1 DEF Filled, CopiedTo
<1> QED BY <1>11, <1>12, <1>14

\* An array of fixed length.
LEMMA FixedCopied ==
  ASSUME NEW T \in SUBSET AllTypes, NEW c \in CopyFns, CopyOk(c, T),
         NEW m, NEW O, NEW W, Sound(m, O, W), NEW p \in Places, IsRef(W[p].v),
         NEW src, src = W[p].v.i, m.heap[src].k = "array", m.heap[src].el \in T, m.heap[src].fixed,
         NEW q \in Open(O), W[q] = Free
  PROVE  LET r == ElementWise(c, src, m) IN r.m.full \/ \E W1 : CopiedTo(m, O, W, p, q, r, W1)
<1>1. m \in Memories /\ W \in [Places -> Contents]
  BY DEF Sound
<1>2. src \in Ids /\ At(W, src) # {}
  <2>1. W[p].v.i \in Ids /\ At(W, W[p].v.i) # {}
    BY RefIs, Zenon
  <2> QED BY <2>1
<1>3. PICK o : o = m.heap[src]
  OBVIOUS
<1>4. o \in Arrays /\ o.el \in AllTypes /\ Sizes(o) /\ Len(o.data) \in Nat
  BY <1>2, <1>3, DataFits, Zenon
<1>5. Len(o.data) = FixedLength
  BY <1>3, <1>4 DEF Sizes
<1>6. CASE ~Room(m)
  <2>1. ElementWise(c, src, m) = Full(m)
    BY <1>6 DEF ElementWise
  <2> QED BY <1>1, <2>1, FullIs
<1>7. CASE Room(m)
  <2>1. PICK f : f = Fresh(m)
    OBVIOUS
  <2>2. PICK el \in AllTypes : el = o.el
    BY <1>4
  <2>3. PICK x : x = ArrayObject(el, TRUE, <<Uninitialized, Uninitialized>>, FixedLength)
    OBVIOUS
  <2>4. PICK m1 : m1 = allocFixedArray(el, m)
    OBVIOUS
  <2>5. f \in Ids /\ m.heap[f] = NoObject /\ x \in Arrays /\ IsPut(m1, m, f, x) /\ m1 = Put(m, f, x)
    BY <1>1, <1>7, <2>1, <2>2, <2>3, <2>4, AllocArrayIs
  <2>6. /\ x.k = "array" /\ x.rc = 1 /\ x.el = el /\ x.fixed = TRUE /\ x.cap = FixedLength
        /\ Len(x.data) = FixedLength
    <3>1. PICK s \in Seq(Values) : s = <<Uninitialized, Uninitialized>>
      BY FirstData
    <3>2. x = ArrayObject(el, TRUE, s, FixedLength) /\ Len(s) = 2
      BY <2>3, <3>1, FirstData
    <3>3. FixedLength \in Nat /\ FixedLength = 2 /\ TRUE \in BOOLEAN
      BY DEF FixedLength
    <3>4. x.k = "array" /\ x.rc = 1 /\ x.el = el /\ x.fixed = TRUE /\ x.data = s /\ x.cap = FixedLength
      <4>1. LET o1 == ArrayObject(el, TRUE, s, FixedLength)
            IN  o1.k = "array" /\ o1.rc = 1 /\ o1.el = el /\ o1.fixed = TRUE /\ o1.data = s /\ o1.cap = FixedLength
        BY DEF ArrayObject
      <4> QED BY <3>2, <4>1
    <3> QED BY <3>2, <3>3, <3>4
  <2>7. Sizes(x)
    BY <2>6 DEF Sizes, FixedLength
  <2>8. Sound(m1, O \union {f}, W)
    BY <2>5, <2>6, <2>7, Written
  <2>9. /\ m1.heap[f] = x /\ m1.stuck = m.stuck /\ m1.heap[src] = m.heap[src]
        /\ \A j \in Ids : j # f => m1.heap[j] = m.heap[j]
    <3>1. src # f
      BY <2>5 DEF NoObject
    <3> QED BY <1>2, <2>5, <3>1 DEF IsPut
  <2>10. Ready(m1.heap[f], m.heap[src])
    <3>1. o.fixed = TRUE
      BY <1>3, <1>4, KindsAre
    <3>2. x.cap >= Len(o.data)
      BY <1>5, <2>6 DEF FixedLength
    <3> QED BY <1>3, <2>2, <2>6, <2>9, <3>1, <3>2 DEF Ready
  <2>11. ElementWise(c, src, m) = CopyInto(c, f, src, m1)
    BY <1>3, <1>7, <2>1, <2>2, <2>4 DEF ElementWise
  <2>12. LET r == CopyInto(c, f, src, m1) IN r.m.full \/ \E W1 : CopiedTo(m, O, W, p, q, r, W1)
    <3>1. Prepared(m, O, W, f, src, m1)
      BY <2>8, <2>9, <2>10 DEF Prepared
    <3> QED BY <2>5, <3>1, NewCopied
  <2> QED BY <2>11, <2>12
<1> QED BY <1>6, <1>7

\* An array of dynamic length; its copy gets a capacity that the array has too.
LEMMA DynamicCopied ==
  ASSUME NEW T \in SUBSET AllTypes, NEW c \in CopyFns, CopyOk(c, T),
         NEW m, NEW O, NEW W, Sound(m, O, W), NEW p \in Places, IsRef(W[p].v),
         NEW src, src = W[p].v.i, m.heap[src].k = "array", m.heap[src].el \in T, ~m.heap[src].fixed,
         NEW q \in Open(O), W[q] = Free
  PROVE  LET r == copyArray(c, src, m) IN r.m.full \/ \E W1 : CopiedTo(m, O, W, p, q, r, W1)
<1>1. m \in Memories /\ W \in [Places -> Contents]
  BY DEF Sound
<1>2. src \in Ids /\ At(W, src) # {}
  <2>1. W[p].v.i \in Ids /\ At(W, W[p].v.i) # {}
    BY RefIs, Zenon
  <2> QED BY <2>1
<1>3. PICK o : o = m.heap[src]
  OBVIOUS
<1>4. o \in Arrays /\ o.el \in AllTypes /\ Sizes(o) /\ Len(o.data) \in Nat
  BY <1>2, <1>3, DataFits
<1>5. PICK n \in Nat : n = Len(o.data)
  BY <1>4
<1>6. n <= o.cap /\ o.cap \in Capacities /\ 2 * n <= CapMod /\ n <= MaxLength
  <2>1. n <= o.cap /\ o.cap \in Capacities /\ n <= MaxLength
    BY <1>3, <1>4, <1>5 DEF Sizes
  <2>2. CASE o.cap = 0
    <3>1. n = 0 /\ CapMod \in Nat
      BY <2>1, <2>2, CapsAre
    <3> QED BY <2>1, <3>1
  <2>3. CASE o.cap # 0
    <3>1. o.cap \in Caps
      BY <2>1, <2>3 DEF Capacities
    <3>2. 2 * o.cap <= CapMod /\ CapMod \in Nat
      BY <3>1, CapsAre
    <3>3. o.cap \in Nat
      BY <1>4, KindsAre
    <3> QED BY <1>5, <2>1, <3>2, <3>3
  <2> QED BY <2>2, <2>3, Zenon
<1>7. CASE ~Room(m)
  <2>1. copyArray(c, src, m) = Full(m)
    BY <1>7 DEF copyArray
  <2> QED BY <1>1, <2>1, FullIs
<1>8. CASE Room(m)
  <2>1. PICK f : f = Fresh(m)
    OBVIOUS
  <2>2. PICK el \in AllTypes : el = o.el
    BY <1>4
  <2>3. PICK d : d = ArrayObject(el, FALSE, << >>, 0)
    OBVIOUS
  <2>4. PICK md : md = allocArray(el, m)
    OBVIOUS
  <2>5. f \in Ids /\ m.heap[f] = NoObject /\ d \in Arrays /\ IsPut(md, m, f, d) /\ md = Put(m, f, d)
    BY <1>1, <1>8, <2>1, <2>2, <2>3, <2>4, AllocArrayIs
  <2>6. d.k = "array" /\ d.rc = 1 /\ d.el = el /\ d.fixed = FALSE /\ d.cap = 0 /\ Len(d.data) = 0
    <3>1. PICK s \in Seq(Values) : s = << >>
      BY FirstData
    <3>2. d = ArrayObject(el, FALSE, s, 0) /\ Len(s) = 0
      BY <2>3, <3>1, FirstData
    <3>3. 0 \in Nat /\ FALSE \in BOOLEAN
      OBVIOUS
    <3>4. d.k = "array" /\ d.rc = 1 /\ d.el = el /\ d.fixed = FALSE /\ d.data = s /\ d.cap = 0
      <4>1. LET o1 == ArrayObject(el, FALSE, s, 0)
            IN  o1.k = "array" /\ o1.rc = 1 /\ o1.el = el /\ o1.fixed = FALSE /\ o1.data = s /\ o1.cap = 0
        BY DEF ArrayObject
      <4> QED BY <3>2, <4>1
    <3> QED BY <3>2, <3>4
  <2>7. Sizes(d)
    <3>1. 0 \in Capacities /\ MaxLength \in Nat
      BY BoundsAreNat DEF Capacities
    <3> QED BY <2>6, <3>1 DEF Sizes
  <2>8. Sound(md, O \union {f}, W)
    BY <2>5, <2>6, <2>7, Written
  <2>9. /\ src # f /\ md \in Memories /\ md.heap[f] = d /\ md.stuck = m.stuck /\ md.heap[src] = m.heap[src]
        /\ \A j \in Ids : j # f => md.heap[j] = m.heap[j]
    <3>1. src # f
      BY <2>5 DEF NoObject
    <3> QED BY <1>2, <2>5, <3>1 DEF IsPut
  <2>10. PICK m1 : m1 = ensureCapacity(f, n, md)
    BY Zenon
  <2>11. copyArray(c, src, m) = CopyInto(c, f, src, m1)
    BY <1>3, <1>5, <1>8, <2>1, <2>2, <2>4, <2>10, Zenon DEF copyArray
  <2>12. o.fixed = FALSE
    BY <1>3, <1>4, KindsAre
  <2>13. \/ d.cap >= n /\ m1 = md
         \/ 2 * n > CapMod
         \/ \E k \in Caps : k >= n /\ m1 = Put(md, f, [d EXCEPT !.cap = k]) /\ [d EXCEPT !.cap = k] \in Arrays
    <3>1. d.cap \in Capacities
      BY <2>6 DEF Capacities
    <3> QED BY <2>5, <2>9, <2>10, <3>1, EnsureIs, Zenon
  <2>14. CASE d.cap >= n /\ m1 = md
    <3>1. Ready(m1.heap[f], m.heap[src])
      <4>1. d.cap \in Capacities
        BY <2>6 DEF Capacities
      <4> QED BY <1>3, <1>5, <2>2, <2>6, <2>9, <2>12, <2>14, <4>1 DEF Ready
    <3>2. Prepared(m, O, W, f, src, m1)
      BY <2>8, <2>9, <2>14, <3>1 DEF Prepared
    <3>3. LET r == CopyInto(c, f, src, m1) IN r.m.full \/ \E W1 : CopiedTo(m, O, W, p, q, r, W1)
      BY <2>5, <3>2, NewCopied
    <3> QED BY <2>11, <3>3, Zenon
  <2>15. ASSUME NEW k \in Caps, k >= n, m1 = Put(md, f, [d EXCEPT !.cap = k]), [d EXCEPT !.cap = k] \in Arrays
         PROVE  LET r == copyArray(c, src, m) IN r.m.full \/ \E W1 : CopiedTo(m, O, W, p, q, r, W1)
    <3>1. PICK x \in Arrays : x = [d EXCEPT !.cap = k]
      BY <2>15
    <3>2. k \in Nat /\ x.k = "array" /\ x.rc = 1 /\ x.el = el /\ x.fixed = FALSE /\ x.cap = k /\ Len(x.data) = 0
      <4>1. k \in Nat
        BY CapsAre
      <4>2. x.k = d.k /\ x.rc = d.rc /\ x.el = d.el /\ x.fixed = d.fixed /\ x.cap = k /\ x.data = d.data
        BY <2>5, <3>1 DEF Arrays
      <4> QED BY <2>6, <4>1, <4>2
    <3>3. Sizes(x)
      <4>1. k \in Capacities /\ MaxLength \in Nat
        BY BoundsAreNat DEF Capacities
      <4> QED BY <3>2, <4>1 DEF Sizes
    <3>4. m1 = Put(md, f, x)
      BY <2>15, <3>1
    <3>5. Sound(m1, O \union {f}, W)
      <4>1. PICK F : F = O \union {f}
        OBVIOUS
      <4>2. f \in F /\ F \union {f} = F /\ Sound(md, F, W)
        BY <2>8, <4>1
      <4>3. Sound(Put(md, f, x), F \union {f}, W)
        BY <2>5, <3>2, <3>3, <4>2, Written
      <4> QED BY <3>4, <4>1, <4>2, <4>3
    <3>6. IsPut(m1, md, f, x)
      BY <2>5, <2>9, <3>4, KindsAre, PutFacts
    <3>7. /\ m1.heap[f] = x /\ m1.stuck = m.stuck /\ m1.heap[src] = m.heap[src]
          /\ \A j \in Ids : j # f => m1.heap[j] = m.heap[j]
      BY <1>2, <2>9, <3>6, Zenon DEF IsPut
    <3>8. Ready(m1.heap[f], m.heap[src])
      <4>1. k \in Capacities
        BY DEF Capacities
      <4> QED BY <1>3, <1>5, <2>2, <2>12, <2>15, <3>2, <3>7, <4>1 DEF Ready
    <3>9. Prepared(m, O, W, f, src, m1)
      BY <3>5, <3>7, <3>8 DEF Prepared
    <3>10. LET r == CopyInto(c, f, src, m1) IN r.m.full \/ \E W1 : CopiedTo(m, O, W, p, q, r, W1)
      BY <2>5, <3>9, NewCopied
    <3> QED BY <2>11, <3>10
  <2>16. ~(2 * n > CapMod)
    BY <1>5, <1>6, CapsAre
  <2> QED BY <2>13, <2>14, <2>15, <2>16
<1> QED BY <1>7, <1>8

\* One level of copyValue copies the values of types made of those the level
\* below copies.
LEMMA CopyLevel ==
  ASSUME RegsOK, NEW T \in SUBSET AllTypes, NEW U \in SUBSET AllTypes, Above(U, T),
         NEW c \in CopyFns, CopyOk(c, T), NEW c1 \in CopyFns,
         \A a \in Arguments : c1[a] = Copied(c, a[1], a[2], a[3])
  PROVE  CopyOk(c1, U)
<1> SUFFICES ASSUME NEW m \in Memories, NEW O \in SUBSET Ids, NEW W \in [Places -> Contents],
                    NEW p \in Places, NEW q \in Places,
                    Sound(m, O, W), W[p] # Free, W[p].ty \in U, q \in Open(O), W[q] = Free
             PROVE  LET r == c1[<<W[p].v, W[p].ty, m>>] IN r.m.full \/ \E W1 : CopiedTo(m, O, W, p, q, r, W1)
  BY DEF CopyOk
<1> PICK v, t : v = W[p].v /\ t = W[p].ty
  OBVIOUS
<1>1. v \in Values /\ t \in AllTypes /\ t \in U
  BY ContentIs
<1> PICK r : r = c1[<<v, t, m>>]
  OBVIOUS
<1>2. r = Copied(c, v, t, m)
  <2>1. PICK a : a = <<v, t, m>>
    OBVIOUS
  <2>2. a \in Arguments /\ a[1] = v /\ a[2] = t /\ a[3] = m
    BY <1>1, <2>1 DEF Arguments
  <2>3. c1[a] = Copied(c, v, t, m)
    BY <2>2
  <2> QED BY <2>1, <2>3
<1>3. CASE ~IsRef(v)
  <2>1. r = VM(W[p].v, m)
    BY <1>2, <1>3 DEF Copied, IsRef, RefTags
  <2>2. CopiedTo(m, O, W, p, q, r, [W EXCEPT ![q] = [ty |-> W[p].ty, v |-> r.v]])
    BY <1>3, <2>1, PlainCopied
  <2> QED BY <2>2
<1>4. CASE IsRef(v)
  <2>1. /\ m.heap[v.i].k = v.tag /\ planForType[t].drop = DropOf(m.heap[v.i])
        /\ m.heap[v.i].k = "array" => Under(m.heap[v.i].el, t)
    BY <1>4 DEF Sound, Fits
  <2>2. Is(v.tag, v.i, m)
    BY <2>1 DEF Is
  <2>3. CASE v.tag = "string"
    <3>1. planForType[t].copy = "DeepCopyString"
      <4>1. planForType[t].drop = "FreeString"
        BY <2>1, <2>3 DEF DropOf
      <4> QED BY <1>1, <4>1, PlansDiffer
    <3>2. r = CopyString(v.i, m)
      BY <1>2, <2>2, <2>3, <3>1 DEF Copied
    <3>3. LET x == CopyString(v.i, m)
          IN  x.m.full \/ CopiedTo(m, O, W, p, q, x, [W EXCEPT ![q] = [ty |-> W[p].ty, v |-> x.v]])
      BY <1>4, <2>3, StringCopied
    <3> QED BY <3>2, <3>3
  <2>4. CASE v.tag = "host"
    <3>1. planForType[t].copy = "Retain"
      <4>1. planForType[t].drop = "Release"
        BY <2>1, <2>4 DEF DropOf
      <4> QED BY <1>1, <4>1, PlansDiffer
    <3>2. r = VM(W[p].v, retainHandle(W[p].v.i, m))
      BY <1>2, <2>2, <2>4, <3>1 DEF Copied
    <3>3. CopiedTo(m, O, W, p, q, r, [W EXCEPT ![q] = [ty |-> W[p].ty, v |-> r.v]])
      BY <1>4, <2>4, <3>2, HandleCopied
    <3> QED BY <3>3
  <2>5. CASE v.tag = "array"
    <3>1. m.heap[v.i].el \in T
      BY <1>1, <2>1, <2>5 DEF Above
    <3>2. PICK src : src = v.i
      OBVIOUS
    <3>3. m.heap[src].k = "array" /\ m.heap[src].el \in T
      BY <2>1, <2>5, <3>1, <3>2
    <3>4. CASE m.heap[src].fixed
      <4>1. planForType[t].copy = "ElementWise"
        <5>1. planForType[t].drop = "ElementWise"
          BY <2>1, <2>5, <3>2, <3>4 DEF DropOf
        <5> QED BY <1>1, <5>1, PlansDiffer
      <4>2. r = ElementWise(c, src, m)
        BY <1>2, <2>2, <2>5, <3>2, <4>1 DEF Copied
      <4>3. LET x == ElementWise(c, src, m) IN x.m.full \/ \E W1 : CopiedTo(m, O, W, p, q, x, W1)
        BY <1>4, <3>2, <3>3, <3>4, FixedCopied
      <4> QED BY <4>2, <4>3
    <3>5. CASE ~m.heap[src].fixed
      <4>1. planForType[t].copy = "DeepCopyArray"
        <5>1. planForType[t].drop = "FreeArray"
          BY <2>1, <2>5, <3>2, <3>5 DEF DropOf
        <5> QED BY <1>1, <5>1, PlansDiffer
      <4>2. r = copyArray(c, src, m)
        BY <1>2, <2>2, <2>5, <3>2, <4>1 DEF Copied
      <4>3. LET x == copyArray(c, src, m) IN x.m.full \/ \E W1 : CopiedTo(m, O, W, p, q, x, W1)
        BY <1>4, <3>2, <3>3, <3>5, DynamicCopied
      <4> QED BY <4>2, <4>3
    <3> QED BY <3>4, <3>5
  <2> QED BY <1>4, <2>3, <2>4, <2>5 DEF IsRef, RefTags
<1> QED BY <1>3, <1>4

\* copyValue copies a value of any type.
LEMMA CopyValueOk ==
  ASSUME RegsOK
  PROVE  CopyOk(copying[MaxNesting + 1], AllTypes) /\ copying[MaxNesting + 1] \in CopyFns
<1>1. MaxNesting \in Nat
  BY BoundsAreNat
<1>2. /\ \A n \in Nat : copying[n] \in CopyFns
      /\ \A n \in Nat : \A a \in Arguments : copying[n + 1][a] = Copied(copying[n], a[1], a[2], a[3])
  BY CopyingIs
<1> DEFINE S == {n \in 0 .. MaxNesting : CopyOk(copying[n + 1], TypesTo[n])}
<1>3. 0 \in S
  <2>1. CopyOk(copying[0], {})
    BY DEF CopyOk
  <2>2. TypesTo[0] \subseteq AllTypes /\ Above(TypesTo[0], {})
    BY <1>1, LevelsAbove
  <2>3. CopyOk(copying[0 + 1], TypesTo[0])
    BY <1>2, <2>1, <2>2, CopyLevel
  <2> QED BY <1>1, <2>3
<1>4. ASSUME NEW n \in 0 .. MaxNesting - 1, n \in S PROVE n + 1 \in S
  <2>1. n \in Nat /\ n + 1 \in Nat /\ n <= MaxNesting /\ n + 1 <= MaxNesting /\ n + 1 \in 0 .. MaxNesting
    BY <1>1
  <2>2. TypesTo[n] \subseteq AllTypes /\ TypesTo[n + 1] \subseteq AllTypes /\ Above(TypesTo[n + 1], TypesTo[n])
    BY <2>1, LevelsAbove
  <2>3. PICK k : k = n + 1
    OBVIOUS
  <2>4. /\ copying[k] \in CopyFns /\ copying[k + 1] \in CopyFns
        /\ \A a \in Arguments : copying[k + 1][a] = Copied(copying[k], a[1], a[2], a[3])
    <3>1. k \in Nat /\ k + 1 \in Nat
      BY <2>1, <2>3
    <3> QED BY <1>2, <3>1
  <2>5. CopyOk(copying[k], TypesTo[n])
    BY <1>4, <2>3
  <2>6. CopyOk(copying[k + 1], TypesTo[k])
    BY <2>2, <2>3, <2>4, <2>5, CopyLevel
  <2> QED BY <2>1, <2>3, <2>6
<1>5. MaxNesting \in S
  <2>1. 0 .. MaxNesting \subseteq S
    <3> HIDE DEF S
    <3> QED BY <1>1, <1>3, <1>4, UpTo
  <2> QED BY <1>1, <2>1
<1>6. MaxNesting + 1 \in Nat
  BY <1>1
<1> QED BY <1>2, <1>5, <1>6 DEF AllTypes

-----------------------------------------------------------------------------
(* More names and views                                                    *)

\* A sound memory is sound with more names.
LEMMA SoundGrows ==
  ASSUME Grown, NEW m, NEW O, NEW W, Sound(m, O, W)
  PROVE  Sound(m, O, W)'
<1>1. /\ m \in Memories /\ O \subseteq Ids /\ W \in [Places -> Contents] /\ ~m.broken
      /\ \A p \in Places : Fits(W[p], m)
      /\ \A id \in Ids : Keeps(m, O, W, id)
      /\ Hosted(m)
  BY SoundIs
<1>2. m \in Memories'
  <2>1. Handles \subseteq Handles'
    BY DEF Grown, Handles
  <2>2. Objects \subseteq Objects'
    BY <2>1 DEF Objects
  <2>3. [Ids -> Objects] \subseteq [Ids -> Objects']
    BY <2>2
  <2> QED BY <1>1, <2>3 DEF Memories
<1>3. m.heap \in [Ids -> Objects] /\ \A id \in Ids : m.heap[id].k = "host" => m.heap[id].reg \in DOMAIN regs
  <2>1. m.heap \in [Ids -> Objects]
    BY <1>1, MemoryIs
  <2> QED BY <2>1, ObjectIs, KindsAre
<1>4. ASSUME NEW id \in Ids, m.heap[id].k = "host" PROVE HandleOK(m.heap[id], m.host)'
  <2>1. HandleOK(m.heap[id], m.host) /\ m.heap[id].reg \in DOMAIN regs
    BY <1>1, <1>3, <1>4 DEF Hosted
  <2>2. PICK h : h = m.heap[id]
    OBVIOUS
  <2>3. PICK r, i, p : r = h.reg /\ i = h.index /\ p = h.payload
    OBVIOUS
  <2>4. /\ r \in DOMAIN regs /\ p \in DOMAIN m.host /\ r = m.host[p].reg /\ Entry(r, i) # NoEntry
        /\ Plain(r) => Entry(r, i) = m.host[p].ty
    BY <2>1, <2>2, <2>3 DEF HandleOK
  <2>5. Entry(r, i)' # NoEntry /\ (Plain(r)' => Entry(r, i)' = Entry(r, i) /\ Plain(r))
    <3>1. \A q \in DOMAIN regs : \A j : Entry(q, j) # NoEntry =>
             Entry(q, j)' # NoEntry /\ (Plain(q)' => Entry(q, j)' = Entry(q, j))
      BY DEF Grown
    <3>2. Plain(r)' => Plain(r)
      BY <2>4 DEF Grown
    <3> QED BY <2>4, <3>1, <3>2
  <2>6. HandleOK(h, m.host)'
    BY <2>3, <2>4, <2>5 DEF HandleOK
  <2> QED BY <2>2, <2>6
<1>5. ASSUME NEW p \in DOMAIN m.host
      PROVE  /\ m.host[p].releases = IF Holds(m, p)' # {} THEN 0 ELSE 1
             /\ m.host[p].reg \in DOMAIN regs'
             /\ Plain(m.host[p].reg)' => m.host[p].by \subseteq {m.host[p].ty}
  <2>1. /\ m.host[p].releases = IF Holds(m, p) # {} THEN 0 ELSE 1
        /\ m.host[p].reg \in DOMAIN regs
        /\ Plain(m.host[p].reg) => m.host[p].by \subseteq {m.host[p].ty}
    BY <1>1 DEF Hosted
  <2> QED BY <2>1 DEF Grown
<1>6. Hosted(m)'
  BY <1>1, <1>4, <1>5 DEF Hosted
<1> QED BY <1>1, <1>2, <1>6 DEF Sound

\* The same registries.
LEMMA SameRegs ==
  ASSUME regs' = regs, RegsOK
  PROVE  Grown /\ RegsOK'
BY DEF Grown, RegsOK, Plain, Entry

\* registerType.
LEMMA RegisterGrows ==
  ASSUME RegsOK, NEW r \in DOMAIN regs, NEW n \in Names, RegisterType(r, n)
  PROVE  Grown /\ RegsOK'
<1>1. regs' = [regs EXCEPT ![r].names = Append(@, n)]
  BY DEF RegisterType, Register
<1>2. PICK R \in RegistryRecords : R = regs[r]
  BY DEF RegsOK
<1>3. PICK ns \in Seq(Names) : ns = R.names
  BY DEF RegistryRecords
<1>4. PICK ns1 : ns1 = Append(ns, n)
  OBVIOUS
<1>5. ns1 \in Seq(Names) /\ DOMAIN ns \subseteq DOMAIN ns1 /\ ns1 # << >> /\ DOMAIN ns1 = 1 .. Len(ns) + 1
  <2>1. ns1 \in Seq(Names) /\ Len(ns1) = Len(ns) + 1 /\ Len(ns) \in Nat
    BY <1>4, Appended
  <2>2. DOMAIN ns1 = 1 .. Len(ns1) /\ DOMAIN ns = 1 .. Len(ns)
    BY <2>1, SeqFacts
  <2> QED BY <2>1, <2>2
<1>6. PICK R1 : R1 = [R EXCEPT !.names = ns1]
  OBVIOUS
<1>7. R1 \in RegistryRecords /\ R1.names = ns1 /\ R1.parent = R.parent
  BY <1>2, <1>5, <1>6 DEF RegistryRecords
<1>8. /\ DOMAIN regs' = DOMAIN regs /\ regs'[r] = R1
      /\ \A q \in DOMAIN regs : q # r => regs'[q] = regs[q]
      /\ regs' = [q \in DOMAIN regs |-> IF q = r THEN R1 ELSE regs[q]]
  <2>1. regs = [q \in DOMAIN regs |-> regs[q]]
    BY DEF RegsOK
  <2>2. [regs[r] EXCEPT !.names = Append(regs[r].names, n)] = R1
    BY <1>2, <1>3, <1>4, <1>6
  <2> QED BY <1>1, <2>1, <2>2
<1>9. RegsOK'
  <2>1. regs' \in [DOMAIN regs -> RegistryRecords]
    BY <1>7, <1>8, Zenon DEF RegsOK
  <2>2. \A q \in DOMAIN regs : regs'[q].parent = IF q = "root" THEN "" ELSE "root"
    BY <1>2, <1>7, <1>8 DEF RegsOK
  <2> QED BY <1>8, <2>1, <2>2 DEF RegsOK
<1>10. ASSUME NEW q \in DOMAIN regs PROVE DOMAIN regs[q].names \subseteq DOMAIN regs'[q].names
  BY <1>2, <1>3, <1>5, <1>7, <1>8
<1>11. ASSUME NEW q \in DOMAIN regs, Plain(q)' PROVE Plain(q) /\ (q = "root" \/ (q # r /\ regs[q].names = << >>))
  <2>1. q = r => regs'[q].names # << >>
    BY <1>5, <1>7, <1>8
  <2> QED BY <1>8, <1>11, <2>1 DEF Plain
<1>12. ASSUME NEW q \in DOMAIN regs, NEW i, Entry(q, i) # NoEntry
       PROVE  Entry(q, i)' # NoEntry /\ (Plain(q)' => Entry(q, i)' = Entry(q, i))
  <2>1. "root" \in DOMAIN regs
    BY DEF RegsOK
  <2>2. ASSUME NEW s \in DOMAIN regs, i \in DOMAIN regs'[s].names PROVE <<s, i>> # NoEntry
    <3>1. regs'[s].names \in Seq(Names)
      BY <1>8, <1>9 DEF RegsOK, RegistryRecords
    <3>2. i # 0
      BY <2>2, <3>1, SeqFacts
    <3> QED BY <3>2 DEF NoEntry
  <2>3. i \in DOMAIN regs[q].names \/ i \in DOMAIN regs["root"].names
    BY <1>12 DEF Entry
  <2>4. Entry(q, i)' # NoEntry
    BY <1>10, <2>1, <2>2, <2>3 DEF Entry
  <2>5. ASSUME Plain(q)' PROVE Entry(q, i)' = Entry(q, i)
    <3>1. CASE q = "root"
      BY <1>10, <1>12, <2>3, <3>1 DEF Entry
    <3>2. CASE q # "root"
      <4>1. regs'[q].names = << >> /\ regs[q].names = << >>
        BY <1>8, <1>11, <2>5, <3>2
      <4>2. i \notin DOMAIN regs'[q].names /\ i \notin DOMAIN regs[q].names
        BY <4>1
      <4> QED BY <1>10, <2>1, <2>3, <4>2 DEF Entry
    <3> QED BY <3>1, <3>2
  <2> QED BY <2>4, <2>5
<1> QED BY <1>8, <1>9, <1>11, <1>12 DEF Grown

\* scopedView.
LEMMA ViewGrows ==
  ASSUME RegsOK, NEW r \in Registries, NEW names \in Visible, OpenView(r, names)
  PROVE  Grown /\ RegsOK'
<1>1. PICK R : R = [names |-> << >>, parent |-> "root", visible |-> names]
  OBVIOUS
<1>2. r \notin DOMAIN regs /\ r # "root"
  BY DEF OpenView, RegsOK
<1>3. PICK f : f = [q \in DOMAIN regs \union {r} |-> IF q = r THEN NewRegistry ELSE regs[q]]
  OBVIOUS
<1>4. regs' = [f EXCEPT ![r] = R]
  BY <1>1, <1>3 DEF OpenView, scopedView
<1>5. DOMAIN regs' = DOMAIN regs \union {r} /\ regs'[r] = R /\ \A q \in DOMAIN regs : regs'[q] = regs[q]
  BY <1>2, <1>3, <1>4
<1>6. R \in RegistryRecords
  <2>1. PICK s \in Seq(Names) : s = << >>
    <3>1. << >> \in Seq(Names)
      OBVIOUS
    <3> QED BY <3>1
  <2> QED BY <1>1, <2>1 DEF RegistryRecords
<1>7. R.parent = "root"
  BY <1>1
<1>8. regs' \in [DOMAIN regs' -> RegistryRecords]
  <2>1. regs' = [q \in DOMAIN regs' |-> regs'[q]]
    BY <1>3, <1>4
  <2>2. \A q \in DOMAIN regs' : regs'[q] \in RegistryRecords
    BY <1>5, <1>6 DEF RegsOK
  <2> QED BY <2>1, <2>2
<1>9. RegsOK'
  BY <1>2, <1>5, <1>7, <1>8 DEF RegsOK
<1>10. "root" \in DOMAIN regs
  BY DEF RegsOK
<1> QED BY <1>5, <1>9, <1>10 DEF Grown, Plain, Entry

-----------------------------------------------------------------------------
(* The invariant of the program                                            *)

\* The places that an operation without arrays of its own writes.
LEMMA OpenIs ==
  /\ \A x \in Vars : \A O : <<x, 0>> \in Open(O) /\ <<x, 0>> \in Places
  /\ \A j \in 1 .. Big : \A O : <<0, j>> \in Open(O) /\ <<0, j>> \in Places /\ j # 0
  /\ Hand \in Places /\ (\A O : Hand \in Open(O)) /\ 1 \in 1 .. Big
  /\ \A O : \A a \in O : a \in Ids => \A i \in 1 .. Big : <<a, i>> \in Open(O) /\ <<a, i>> \in Places /\ a # 0 /\ i # 0
  /\ \A p \in Open({}) : (\E x \in Vars : p = <<x, 0>>) \/ \E j \in 1 .. Big : p = <<0, j>>
<1>1. Big \in Nat /\ Big >= 2 /\ 0 \in 0 .. MaxObjects
  BY PlacesAre DEF Big
<1>2. \A j \in 1 .. Big : <<0, j>> \in Places /\ j # 0
  BY <1>1 DEF Places
<1>3. 1 \in 1 .. Big
  BY <1>1
<1>4. \A x \in Vars : \A O : <<x, 0>> \in Open(O) /\ <<x, 0>> \in Places
  BY PlacesAre DEF Open
<1>5. \A j \in 1 .. Big : \A O : <<0, j>> \in Open(O) /\ <<0, j>> \in Places /\ j # 0
  BY <1>2 DEF Open
<1>6. Hand \in Places /\ \A O : Hand \in Open(O)
  BY <1>3, <1>5 DEF Hand
<1>7. \A O : \A a \in O : a \in Ids => \A i \in 1 .. Big : <<a, i>> \in Open(O) /\ <<a, i>> \in Places /\ a # 0 /\ i # 0
  BY PlacesAre DEF Open
<1>8. ASSUME NEW p \in Open({}) PROVE (\E x \in Vars : p = <<x, 0>>) \/ \E j \in 1 .. Big : p = <<0, j>>
  <2>1. p \in Places /\ (p[2] = 0 \/ p[1] = 0)
    BY DEF Open
  <2>2. CASE p \in Vars \X {0}
    BY <2>2
  <2>3. CASE p \in (0 .. MaxObjects) \X (1 .. Big)
    <3>1. p[2] \in 1 .. Big /\ p[2] # 0 /\ p = <<p[1], p[2]>>
      BY <2>3
    <3> QED BY <2>1, <3>1
  <2> QED BY <2>1, <2>2, <2>3 DEF Places
<1> QED BY <1>3, <1>4, <1>5, <1>6, <1>7, <1>8

\* A state after an operation.
LEMMA RightIs ==
  ASSUME NEW s \in [Vars -> Contents], NEW m, ~m.full, ~m.stuck, NEW W, Sound(m, {}, W),
         \A x \in Vars : W[<<x, 0>>] = s[x], \A j \in 1 .. Big : W[<<0, j>>] = Free
  PROVE  Right(s, m)
BY DEF Right, Shows

\* Whatever is in p goes to q.
LEMMA Carried ==
  ASSUME NEW m, NEW O, NEW W, Sound(m, O, W), NEW p \in Open(O), NEW q \in Open(O), p # q, ~IsRef(W[q].v)
  PROVE  Sound(m, O, [W EXCEPT ![q] = W[p], ![p] = Free])
<1>1. W \in [Places -> Contents] /\ p \in Places /\ q \in Places /\ W[p] \in Contents
  BY DEF Sound, Open
<1>2. CASE IsRef(W[p].v)
  <2>1. Fits(W[p], m)
    BY <1>1 DEF Sound
  <2> QED BY <1>1, <1>2, <2>1, Moved
<1>3. CASE ~IsRef(W[p].v)
  <2>1. PICK V : V = [W EXCEPT ![q] = W[p]]
    OBVIOUS
  <2>2. Sound(m, O, V)
    BY <1>1, <1>3, <2>1, Blanked
  <2>3. ~IsRef(V[p].v)
    BY <1>1, <1>3, <2>1
  <2>4. Sound(m, O, [V EXCEPT ![p] = Free])
    BY <1>1, <2>2, <2>3, FreeIs, Blanked
  <2>5. [V EXCEPT ![p] = Free] = [W EXCEPT ![q] = W[p], ![p] = Free]
    BY <2>1
  <2> QED BY <2>4, <2>5
<1> QED BY <1>2, <1>3

\* The variables of a state that W shows.
LEMMA ShownIs ==
  ASSUME NEW W, Shows(slots, mem, W), ~mem.stuck
  PROVE  /\ mem \in Memories /\ ~mem.broken /\ W \in [Places -> Contents] /\ {} \in SUBSET Ids
         /\ \A x \in Vars : W[<<x, 0>>] = slots[x]
         /\ \A j \in 1 .. Big : W[<<0, j>>] = Free
         /\ Sound(mem, {}, W)
BY DEF Shows, Sound

\* A state after an operation that puts c in the variable x.
LEMMA PlacedRight ==
  ASSUME slots \in [Vars -> Contents], NEW W, Shows(slots, mem, W), ~mem.stuck, NEW x \in Vars, NEW c,
         NEW m1, NEW W1, Puts(W, x, c, m1, W1)
  PROVE  Right([slots EXCEPT ![x] = c], m1)
<1> USE DEF Puts
<1>1. W1 \in [Places -> Contents] /\ <<x, 0>> \in Places
  BY OpenIs DEF Sound
<1>2. c \in Contents
  BY <1>1
<1>3. PICK s \in [Vars -> Contents] : s = [slots EXCEPT ![x] = c]
  BY <1>2
<1>4. ASSUME NEW z \in Vars PROVE W1[<<z, 0>>] = s[z]
  <2>1. W[<<z, 0>>] = slots[z] /\ <<z, 0>> \in Open({})
    BY ShownIs, OpenIs
  <2> QED BY <1>3, <2>1
<1>5. ASSUME NEW j \in 1 .. Big PROVE W1[<<0, j>>] = Free
  <2>1. W[<<0, j>>] = Free /\ <<0, j>> \in Open({}) /\ j # 0
    BY ShownIs, OpenIs
  <2>2. <<0, j>> # <<x, 0>>
    BY <2>1
  <2> QED BY <2>1, <2>2
<1>6. Right(s, m1)
  BY <1>4, <1>5, RightIs
<1> QED BY <1>3, <1>6

\* What Place does.
LEMMA PlaceIs ==
  ASSUME NEW x, NEW t, NEW r, Place(x, t, r)
  PROVE  /\ ~r.m.full /\ mem' = r.m /\ regs' = regs
         /\ slots' = [slots EXCEPT ![x] = [ty |-> t, v |-> r.v]]
BY DEF Place

\* A string.
LEMMA StringMade ==
  ASSUME RegsOK, Right(slots, mem), ~mem.stuck, NEW x \in Vars, NEW t \in Types, NEW b \in Bytes, MakeString(x, t, b)
  PROVE  Right(slots', mem') /\ regs' = regs
<1>1. slots \in [Vars -> Contents] /\ slots[x] = Free /\ planForType[t].copy = "DeepCopyString" /\ Room(mem) /\ ~mem.full
  BY DEF MakeString, Right
<1>2. PICK W : Shows(slots, mem, W)
  BY DEF Right
<1>3. /\ mem \in Memories /\ ~mem.broken /\ W \in [Places -> Contents] /\ Sound(mem, {}, W) /\ Hosted(mem)
      /\ W[<<x, 0>>] = Free
  BY <1>1, <1>2, ShownIs, SoundIs
<1>4. PICK f : f = Fresh(mem)
  OBVIOUS
<1>5. PICK m1 : m1 = allocString(b, mem)
  OBVIOUS
<1>6. PICK o : o = StringObject(b)
  OBVIOUS
<1>7. f \in Ids /\ mem.heap[f] = NoObject /\ o.k = "string" /\ o.rc = 1 /\ IsPut(m1, mem, f, o)
  BY <1>1, <1>3, <1>4, <1>5, <1>6, AllocStringIs
<1>8. /\ m1 \in Memories /\ ~m1.broken /\ m1.heap[f] = o /\ m1.host = mem.host /\ ~m1.stuck /\ ~m1.full
      /\ \A j \in Ids \ {f} : m1.heap[j] = mem.heap[j]
  BY <1>1, <1>3, <1>7 DEF IsPut
<1>9. Hosted(m1)
  <2>1. \A j \in Ids : m1.heap[j] = mem.heap[j] \/ (m1.heap[j].k # "host" /\ mem.heap[j].k # "host")
    BY <1>7, <1>8 DEF NoObject
  <2> QED BY <1>3, <1>8, <2>1, HostedSame
<1>10. t \in AllTypes /\ planForType[t].drop = DropOf(m1.heap[f])
  <2>1. t \in AllTypes
    BY ValuesAssumption
  <2>2. planForType[t].drop = "FreeString"
    BY <1>1, <2>1, PlansDiffer
  <2> QED BY <1>7, <1>8, <2>1, <2>2 DEF DropOf
<1>11. PICK p : p = <<x, 0>>
  OBVIOUS
<1>12. p \in Open({}) /\ p \in Places /\ ~IsRef(W[p].v)
  BY <1>3, <1>11, FreeIs, OpenIs
<1>13. PICK c : c = [ty |-> t, v |-> Ref(m1.heap[f].k, f)]
  OBVIOUS
<1>14. PICK W1 : W1 = [W EXCEPT ![p] = c]
  OBVIOUS
<1>15. Sound(m1, {}, W1)
  <2>1. m1.heap[f].k \in {"string", "host"} /\ m1.heap[f].rc = 1
    BY <1>7, <1>8
  <2>2. Sound(m1, {}, [W EXCEPT ![p] = [ty |-> t, v |-> Ref(m1.heap[f].k, f)]])
    BY <1>3, <1>7, <1>8, <1>9, <1>10, <1>12, <2>1, NewLeaf, Zenon
  <2> QED BY <1>13, <1>14, <2>2
<1>16. Right([slots EXCEPT ![x] = c], m1)
  <2>1. W1[p] = c /\ \A q \in Open({}) : q # p => W1[q] = W[q]
    BY <1>3, <1>12, <1>14 DEF Open
  <2>2. W1[<<x, 0>>] = c /\ \A q \in Open({}) : q # <<x, 0>> => W1[q] = W[q]
    BY <1>11, <2>1
  <2>3. Puts(W, x, c, m1, W1)
    BY <1>8, <1>15, <2>2 DEF Puts
  <2> QED BY <1>1, <1>2, <2>3, PlacedRight
<1>17. mem' = m1 /\ slots' = [slots EXCEPT ![x] = c] /\ regs' = regs
  <2>1. PICK v \in Values : v = Ref("string", f)
    BY <1>7, ValuesAre DEF RefTags
  <2>2. VM(v, m1).v = v /\ VM(v, m1).m = m1
    BY <1>8, VMIs
  <2>3. Place(x, t, VM(v, m1))
    BY <1>4, <1>5, <2>1 DEF MakeString
  <2>4. c = [ty |-> t, v |-> v]
    BY <1>7, <1>8, <1>13, <2>1
  <2> QED BY <2>2, <2>3, <2>4, PlaceIs
<1> QED BY <1>16, <1>17

\* nil.
LEMMA NilMade ==
  ASSUME Right(slots, mem), ~mem.stuck, NEW x \in Vars, NEW t \in Types, MakeNil(x, t)
  PROVE  Right(slots', mem') /\ regs' = regs
<1>1. slots \in [Vars -> Contents] /\ slots[x] = Free /\ ~mem.full
  BY DEF MakeNil, Right
<1>2. PICK W : Shows(slots, mem, W)
  BY DEF Right
<1>3. mem \in Memories /\ W \in [Places -> Contents] /\ Sound(mem, {}, W) /\ W[<<x, 0>>] = Free
  BY <1>1, <1>2, ShownIs
<1>4. PICK p : p = <<x, 0>>
  OBVIOUS
<1>5. p \in Open({}) /\ p \in Places /\ ~IsRef(W[p].v)
  BY <1>3, <1>4, FreeIs, OpenIs
<1>6. PICK c : c = [ty |-> t, v |-> Nil]
  OBVIOUS
<1>7. c \in Contents /\ ~IsRef(c.v)
  <2>1. t.k = "nullable" /\ t \in AllTypes
    BY ValuesAssumption DEF MakeNil
  <2> QED BY <1>6, <2>1, ValuesAre DEF Contents
<1>8. PICK W1 : W1 = [W EXCEPT ![p] = c]
  OBVIOUS
<1>9. Sound(mem, {}, W1)
  BY <1>3, <1>5, <1>7, <1>8, Blanked
<1>10. Right([slots EXCEPT ![x] = c], mem)
  <2>1. W1[p] = c /\ \A q \in Open({}) : q # p => W1[q] = W[q]
    BY <1>3, <1>5, <1>8 DEF Open
  <2>2. W1[<<x, 0>>] = c /\ \A q \in Open({}) : q # <<x, 0>> => W1[q] = W[q]
    BY <1>4, <2>1
  <2>3. Puts(W, x, c, mem, W1)
    BY <1>1, <1>9, <2>2 DEF Puts
  <2> QED BY <1>1, <1>2, <2>3, PlacedRight
<1>11. mem' = mem /\ slots' = [slots EXCEPT ![x] = c] /\ regs' = regs
  <2>1. VM(Nil, mem).v = Nil /\ VM(Nil, mem).m = mem
    BY <1>3, ValuesAre, VMIs
  <2> QED BY <1>6, <2>1, PlaceIs DEF MakeNil
<1> QED BY <1>10, <1>11

-----------------------------------------------------------------------------
(* copyValue and dropValue in a statement                                  *)

\* The copy of what is in p is in q.
LEMMA CopyIs ==
  ASSUME RegsOK, NEW m, NEW O, NEW W, Sound(m, O, W), NEW p \in Places, W[p] # Free,
         NEW q \in Open(O), W[q] = Free, NEW r, r = copyValue(W[p].v, W[p].ty, m), ~r.m.full
  PROVE  r \in VMs /\ Keeping(m, r.m) /\ \E W1 : CopiedTo(m, O, W, p, q, r, W1)
<1>1. m \in Memories /\ W \in [Places -> Contents] /\ O \in SUBSET Ids /\ q \in Places
  BY DEF Sound, Open
<1>2. W[p].ty \in AllTypes /\ W[p].v \in Values
  BY <1>1, ContentIs
<1>3. PICK c \in CopyFns : c = copying[MaxNesting + 1]
  BY CopyValueOk
<1>4. CopyOk(c, AllTypes)
  BY <1>3, CopyValueOk
<1>5. r = c[<<W[p].v, W[p].ty, m>>]
  BY <1>3 DEF copyValue
<1>6. \E W1 : CopiedTo(m, O, W, p, q, r, W1)
  BY <1>1, <1>2, <1>4, <1>5 DEF CopyOk
<1>7. r \in VMs /\ Keeping(m, r.m)
  <2>1. PICK a : a = <<W[p].v, W[p].ty, m>>
    OBVIOUS
  <2>2. a \in Arguments /\ a[3] = m
    BY <1>1, <1>2, <2>1 DEF Arguments
  <2> QED BY <1>5, <2>1, <2>2 DEF CopyFns
<1> QED BY <1>6, <1>7

\* The place p is empty.
LEMMA DropIs ==
  ASSUME RegsOK, NEW m, NEW O, NEW W, Sound(m, O, W), NEW p \in Open(O), W[p] # Free,
         NEW m1, m1 = dropValue(W[p].v, W[p].ty, m)
  PROVE  m1.full = m.full /\ m1.stuck = m.stuck /\ Shrinks(m, m1) /\ \E W1 : Emptied(m, O, W, p, m1, W1)
<1>1. m \in Memories /\ W \in [Places -> Contents] /\ O \in SUBSET Ids /\ p \in Places
  BY DEF Sound, Open
<1>2. W[p].ty \in AllTypes /\ W[p].v \in Values
  BY <1>1, ContentIs
<1>3. PICK d \in DropFns : d = dropping[MaxNesting + 1]
  BY DropValueOk
<1>4. DropOk(d, AllTypes)
  BY <1>3, DropValueOk
<1>5. m1 = d[<<W[p].v, W[p].ty, m>>]
  BY <1>3 DEF dropValue
<1>6. \E W1 : Emptied(m, O, W, p, m1, W1)
  BY <1>1, <1>2, <1>4, <1>5 DEF DropOk
<1>7. m1.full = m.full /\ m1.stuck = m.stuck /\ Shrinks(m, m1)
  <2>1. PICK a : a = <<W[p].v, W[p].ty, m>>
    OBVIOUS
  <2>2. a \in Arguments /\ a[3] = m
    BY <1>1, <1>2, <2>1 DEF Arguments
  <2> QED BY <1>5, <2>1, <2>2 DEF DropFns
<1> QED BY <1>6, <1>7

\* A copy of what is in p, in the variable y.
LEMMA CopyPut ==
  ASSUME RegsOK, Right(slots, mem), ~mem.stuck, NEW W, Shows(slots, mem, W), NEW p \in Places, W[p] # Free,
         NEW y \in Vars, slots[y] = Free, NEW r, r = copyValue(W[p].v, W[p].ty, mem), ~r.m.full
  PROVE  Right([slots EXCEPT ![y] = [ty |-> W[p].ty, v |-> r.v]], r.m)
<1>1. slots \in [Vars -> Contents]
  BY DEF Right
<1>2. mem \in Memories /\ W \in [Places -> Contents] /\ Sound(mem, {}, W) /\ W[<<y, 0>>] = Free
  BY ShownIs
<1>3. PICK q : q = <<y, 0>>
  OBVIOUS
<1>4. q \in Open({}) /\ q \in Places /\ W[q] = Free
  BY <1>2, <1>3, OpenIs
<1>5. PICK W1 : CopiedTo(mem, {}, W, p, q, r, W1)
  BY <1>2, <1>4, CopyIs
<1>6. /\ Sound(r.m, {}, W1) /\ ~r.m.stuck /\ W1[q] = [ty |-> W[p].ty, v |-> r.v]
      /\ \A s \in Places : s # q /\ (W[s] # Free \/ s \in Open({})) => W1[s] = W[s]
  BY <1>5 DEF CopiedTo
<1>7. \A s \in Open({}) : s # q => W1[s] = W[s]
  BY <1>6 DEF Open
<1>8. Puts(W, y, [ty |-> W[p].ty, v |-> r.v], r.m, W1)
  BY <1>3, <1>6, <1>7 DEF Puts
<1> QED BY <1>1, <1>8, PlacedRight

\* A variable declared with another's value.
LEMMA CopyMade ==
  ASSUME RegsOK, Right(slots, mem), ~mem.stuck, NEW x \in Vars, NEW y \in Vars, Copy(x, y)
  PROVE  Right(slots', mem') /\ regs' = regs
<1>1. slots[x] # Free /\ slots[y] = Free /\ Place(y, slots[x].ty, CopyOf(x))
  BY DEF Copy
<1>2. PICK r : r = CopyOf(x)
  OBVIOUS
<1>3. /\ ~r.m.full /\ mem' = r.m /\ regs' = regs
      /\ slots' = [slots EXCEPT ![y] = [ty |-> slots[x].ty, v |-> r.v]]
  BY <1>1, <1>2, PlaceIs
<1>4. PICK W : Shows(slots, mem, W)
  BY DEF Right
<1>5. PICK p : p = <<x, 0>>
  OBVIOUS
<1>6. p \in Places /\ W[p] = slots[x]
  BY <1>4, <1>5, ShownIs, OpenIs
<1>7. r = copyValue(W[p].v, W[p].ty, mem)
  BY <1>2, <1>6 DEF CopyOf
<1>8. Right([slots EXCEPT ![y] = [ty |-> W[p].ty, v |-> r.v]], r.m)
  BY <1>1, <1>3, <1>4, <1>6, <1>7, CopyPut
<1> QED BY <1>3, <1>6, <1>8

\* A variable with an array has it alone.
LEMMA ArrayHeld ==
  ASSUME NEW m, NEW O, NEW W, Sound(m, O, W), NEW x \in Vars, W[<<x, 0>>] = slots[x], HasArray(x),
         NEW a, a = slots[x].v.i
  PROVE  HasIt(m, x, a)
<1>1. PICK p : p = <<x, 0>>
  OBVIOUS
<1>2. p \in Places /\ W[p] = slots[x] /\ p \in Open(O)
  BY <1>1, OpenIs
<1>3. slots[x].v.tag = "array" /\ IsRef(W[p].v)
  BY <1>2 DEF HasArray, IsRef, RefTags
<1>4. /\ W[p].v \in Values /\ W[p].v.i \in Ids /\ W[p].ty \in AllTypes /\ W[p] = [ty |-> W[p].ty, v |-> W[p].v]
  BY <1>2, <1>3, RefIs
<1>5. W[p].v = Ref("array", W[p].v.i)
  BY <1>2, <1>3, <1>4, ValuesAre
<1>6. Fits(W[p], m)
  BY <1>2 DEF Sound
<1>7. /\ m.heap[W[p].v.i].k = "array" /\ planForType[W[p].ty].drop = DropOf(m.heap[W[p].v.i])
      /\ Under(m.heap[W[p].v.i].el, W[p].ty)
  BY <1>2, <1>3, <1>6 DEF Fits
<1>8. m.heap[W[p].v.i].rc = 1
  <2>1. PICK b : b = W[p].v.i
    OBVIOUS
  <2>2. b \in Ids /\ m.heap[b].k = "array"
    BY <1>4, <1>7, <2>1
  <2>3. m.heap[b].rc = 1
    <3>1. At(W, b) # {}
      BY <1>2, <1>3, <2>1 DEF At
    <3>2. Keeps(m, O, W, b)
      BY <2>2 DEF Sound
    <3> QED BY <2>2, <3>1, <3>2 DEF Keeps
  <2> QED BY <2>1, <2>3
<1> QED BY <1>2, <1>3, <1>4, <1>5, <1>7, <1>8 DEF HasIt

\* A variable declared with an element of an array.
LEMMA ReadMade ==
  ASSUME RegsOK, Right(slots, mem), ~mem.stuck, NEW x \in Vars, NEW i, NEW y \in Vars, Read(x, i, y)
  PROVE  Right(slots', mem') /\ regs' = regs
<1>1. /\ HasArray(x) /\ slots[y] = Free /\ i \in DOMAIN Data(x)
      /\ Place(y, ElementType(x), copyValue(Data(x)[i], ElementType(x), mem))
  BY DEF Read
<1>2. PICK r : r = copyValue(Data(x)[i], ElementType(x), mem)
  OBVIOUS
<1>3. /\ ~r.m.full /\ mem' = r.m /\ regs' = regs
      /\ slots' = [slots EXCEPT ![y] = [ty |-> ElementType(x), v |-> r.v]]
  BY <1>1, <1>2, PlaceIs
<1>4. PICK W : Shows(slots, mem, W)
  BY DEF Right
<1>5. Sound(mem, {}, W) /\ W[<<x, 0>>] = slots[x]
  BY <1>4, ShownIs
<1>6. PICK a : a = slots[x].v.i
  OBVIOUS
<1>7. a \in Ids /\ mem.heap[a].k = "array" /\ IsRef(slots[x].v)
  <2>1. HasIt(mem, x, a)
    BY <1>1, <1>5, <1>6, ArrayHeld
  <2> QED BY <2>1 DEF HasIt
<1>8. PICK o : o = mem.heap[a]
  OBVIOUS
<1>9. Data(x) = o.data /\ ElementType(x) = o.el
  BY <1>6, <1>8 DEF Data, ElementType, Array
<1>10. i \in 1 .. Big /\ o.data[i] \in Values /\ i \in DOMAIN o.data
  BY <1>1, <1>5, <1>7, <1>8, <1>9, DataFits
<1>11. W[<<a, i>>] = [ty |-> o.el, v |-> o.data[i]]
  <2>1. PICK p : p = <<x, 0>>
    OBVIOUS
  <2>2. p \in Places /\ IsRef(W[p].v) /\ W[p].v.i = a
    BY <1>5, <1>6, <1>7, <2>1, OpenIs
  <2>3. At(W, a) # {}
    BY <2>2 DEF At
  <2>4. Keeps(mem, {}, W, a)
    BY <1>5, <1>7 DEF Sound
  <2>5. W[<<a, i>>] = Element(o, i)
    BY <1>8, <1>10, <2>3, <2>4 DEF Keeps
  <2> QED BY <1>7, <1>8, <1>10, <2>5 DEF Element
<1>12. PICK p : p = <<a, i>>
  OBVIOUS
<1>13. p \in Places /\ W[p].ty = o.el /\ W[p].v = o.data[i] /\ W[p] # Free
  BY <1>7, <1>10, <1>11, <1>12, PlacesAre, NotFree
<1>14. r = copyValue(W[p].v, W[p].ty, mem)
  BY <1>2, <1>9, <1>13
<1>15. Right([slots EXCEPT ![y] = [ty |-> W[p].ty, v |-> r.v]], r.m)
  BY <1>1, <1>3, <1>4, <1>13, <1>14, CopyPut
<1> QED BY <1>3, <1>9, <1>13, <1>15

\* A variable that goes out of scope.
LEMMA DropMade ==
  ASSUME RegsOK, Right(slots, mem), ~mem.stuck, NEW x \in Vars, Drop(x)
  PROVE  Right(slots', mem') /\ regs' = regs
<1>1. /\ slots[x] # Free /\ slots' = [slots EXCEPT ![x] = Free] /\ regs' = regs
      /\ mem' = dropValue(slots[x].v, slots[x].ty, mem)
  BY DEF Drop
<1>2. slots \in [Vars -> Contents] /\ ~mem.full
  BY DEF Right
<1>3. PICK W : Shows(slots, mem, W)
  BY DEF Right
<1>4. PICK p : p = <<x, 0>>
  OBVIOUS
<1>5. Sound(mem, {}, W) /\ W[p] = slots[x] /\ p \in Open({})
  BY <1>3, <1>4, ShownIs, OpenIs
<1>6. PICK m1 : m1 = dropValue(W[p].v, W[p].ty, mem)
  OBVIOUS
<1>7. mem' = m1
  BY <1>1, <1>5, <1>6
<1>8. m1.full = mem.full /\ m1.stuck = mem.stuck /\ \E W1 : Emptied(mem, {}, W, p, m1, W1)
  BY <1>1, <1>5, <1>6, DropIs
<1>9. PICK W1 : Emptied(mem, {}, W, p, m1, W1)
  BY <1>8
<1>10. Puts(W, x, Free, m1, W1)
  BY <1>2, <1>4, <1>8, <1>9 DEF Emptied, Puts
<1>11. Right([slots EXCEPT ![x] = Free], m1)
  BY <1>2, <1>3, <1>10, PlacedRight
<1> QED BY <1>1, <1>7, <1>11

\* An assignment: a copy in the hand, the old value dropped, the copy in place.
LEMMA AssignMade ==
  ASSUME RegsOK, Right(slots, mem), ~mem.stuck, NEW x \in Vars, NEW y \in Vars, Assign(x, y)
  PROVE  Right(slots', mem') /\ regs' = regs
<1>1. PICK r : r = CopyOf(x)
  OBVIOUS
<1>2. /\ slots[x] # Free /\ slots[x].ty = slots[y].ty
      /\ Place(y, slots[x].ty, VM(r.v, dropValue(slots[y].v, slots[y].ty, r.m)))
  BY <1>1 DEF Assign
<1>3. slots \in [Vars -> Contents] /\ ~mem.full
  BY DEF Right
<1>4. PICK W : Shows(slots, mem, W)
  BY DEF Right
<1>5. PICK p, q : p = <<x, 0>> /\ q = <<y, 0>>
  OBVIOUS
<1>6. /\ Sound(mem, {}, W) /\ W[p] = slots[x] /\ W[q] = slots[y] /\ p \in Places /\ q \in Open({}) /\ q \in Places
      /\ Hand \in Places /\ Hand \in Open({}) /\ W[Hand] = Free /\ q # Hand
  <2>1. \A j \in 1 .. Big : W[<<0, j>>] = Free
    BY <1>4, ShownIs
  <2>2. W[Hand] = Free
    BY <2>1, OpenIs DEF Hand
  <2>3. q # Hand
    BY <1>5 DEF Hand
  <2> QED BY <1>4, <1>5, <2>2, <2>3, ShownIs, OpenIs
<1>7. slots[y] # Free
  <2>1. slots[x].ty \in AllTypes
    BY <1>2, <1>3 DEF Contents
  <2>2. Free.ty \notin AllTypes
    <3>1. ASSUME Free.ty \in AllTypes PROVE FALSE
      <4>1. Free.ty.k \in {"string", "host", "nullable", "dyn", "fix"}
        BY <3>1, AllTypesMade
      <4> QED BY <4>1 DEF Free
    <3> QED BY <3>1
  <2> QED BY <1>2, <2>1, <2>2
<1>8. PICK m1 : m1 = dropValue(slots[y].v, slots[y].ty, r.m)
  OBVIOUS
<1>9. PICK rr : rr = VM(r.v, m1)
  OBVIOUS
<1>10. rr.v = r.v /\ rr.m = m1
  BY <1>9 DEF VM
<1>11. /\ ~m1.full /\ mem' = m1 /\ regs' = regs
       /\ slots' = [slots EXCEPT ![y] = [ty |-> slots[x].ty, v |-> r.v]]
  <2>1. Place(y, slots[x].ty, rr)
    BY <1>2, <1>8, <1>9
  <2> QED BY <1>10, <2>1, PlaceIs
<1>12. r = copyValue(W[p].v, W[p].ty, mem)
  BY <1>1, <1>6 DEF CopyOf
<1>13. r.v \in Values /\ r.m \in Memories /\ r.m.full = m1.full
  <2>1. PICK c \in CopyFns : c = copying[MaxNesting + 1]
    BY CopyValueOk
  <2>2. PICK d \in DropFns : d = dropping[MaxNesting + 1]
    BY DropValueOk
  <2>3. PICK a : a = <<slots[x].v, slots[x].ty, mem>>
    OBVIOUS
  <2>4. slots[x].v \in Values /\ slots[x].ty \in AllTypes /\ slots[y].v \in Values /\ slots[y].ty \in AllTypes
    BY <1>2, <1>3, <1>7 DEF Contents
  <2>5. a \in Arguments
    BY <1>6, <2>3, <2>4, SoundIs DEF Arguments
  <2>6. r = c[a]
    BY <1>1, <2>1, <2>3 DEF CopyOf, copyValue
  <2>7. r \in VMs
    BY <2>5, <2>6 DEF CopyFns
  <2>8. r.v \in Values /\ r.m \in Memories
    BY <2>7, VMIs
  <2>9. PICK b : b = <<slots[y].v, slots[y].ty, r.m>>
    OBVIOUS
  <2>10. b \in Arguments /\ b[3] = r.m
    BY <2>4, <2>8, <2>9 DEF Arguments
  <2>11. m1 = d[b]
    BY <1>8, <2>2, <2>9 DEF dropValue
  <2>12. m1.full = r.m.full
    BY <2>10, <2>11 DEF DropFns
  <2> QED BY <2>8, <2>12
<1>14. ~r.m.full
  BY <1>11, <1>13
<1>15. PICK W1 : CopiedTo(mem, {}, W, p, Hand, r, W1)
  <2>1. W[p] # Free
    BY <1>2, <1>6
  <2> QED BY <1>6, <1>12, <1>14, <2>1, CopyIs
<1>16. /\ Sound(r.m, {}, W1) /\ r.m.stuck = mem.stuck /\ W1[Hand] = [ty |-> W[p].ty, v |-> r.v]
       /\ \A s \in Places : s # Hand /\ (W[s] # Free \/ s \in Open({})) => W1[s] = W[s]
  BY <1>15 DEF CopiedTo
<1>17. W1[q] = slots[y]
  BY <1>6, <1>16
<1>18. PICK W2 : Emptied(r.m, {}, W1, q, m1, W2) /\ m1.stuck = r.m.stuck
  <2>1. m1 = dropValue(W1[q].v, W1[q].ty, r.m)
    BY <1>8, <1>17
  <2>2. W1[q] # Free
    BY <1>7, <1>17
  <2> QED BY <1>6, <1>16, <2>1, <2>2, DropIs
<1>19. Sound(m1, {}, W2) /\ W2[q] = Free /\ \A s \in Open({}) : s # q => W2[s] = W1[s]
  BY <1>18 DEF Emptied
<1>20. PICK c : c = [ty |-> slots[x].ty, v |-> r.v]
  OBVIOUS
<1>21. W2[Hand] = c
  BY <1>6, <1>16, <1>19, <1>20
<1>22. PICK W3 : W3 = [W2 EXCEPT ![q] = W2[Hand], ![Hand] = Free]
  OBVIOUS
<1>23. Sound(m1, {}, W3)
  <2>1. ~IsRef(W2[q].v)
    BY <1>19, FreeIs
  <2> QED BY <1>6, <1>19, <1>22, <2>1, Carried
<1>24. W2 \in [Places -> Contents]
  BY <1>19, SoundIs
<1>25. W3[q] = c /\ W3[Hand] = Free /\ \A s \in Places : s # q /\ s # Hand => W3[s] = W2[s]
  BY <1>6, <1>21, <1>22, <1>24
<1>26. \A s \in Open({}) : s # q => W3[s] = W[s]
  <2> TAKE s \in Open({})
  <2> HAVE s # q
  <2>1. s \in Places
    BY DEF Open
  <2>2. CASE s = Hand
    BY <1>6, <1>25, <2>2
  <2>3. CASE s # Hand
    BY <1>16, <1>19, <1>25, <2>1, <2>3
  <2> QED BY <2>2, <2>3
<1>27. Puts(W, y, c, m1, W3)
  BY <1>5, <1>11, <1>16, <1>18, <1>23, <1>25, <1>26 DEF Puts
<1>28. Right([slots EXCEPT ![y] = c], m1)
  BY <1>3, <1>4, <1>27, PlacedRight
<1> QED BY <1>11, <1>20, <1>28

\* An array's type and that of its elements.
LEMMA ElementUnder ==
  ASSUME NEW t, t.k \in {"dyn", "fix"}
  PROVE  Under(t.el, t)
<1> SUFFICES ASSUME NEW n \in Nat, t \in TypesTo[n] PROVE n > 0 /\ t.el \in TypesTo[n - 1]
  BY DEF Under
<1>1. Made(t, n)
  BY TypeMade
<1> QED BY <1>1 DEF Made

\* An empty array.
LEMMA ArrayMade ==
  ASSUME RegsOK, Right(slots, mem), ~mem.stuck, NEW x \in Vars, NEW t \in Types, MakeArray(x, t)
  PROVE  Right(slots', mem') /\ regs' = regs
<1>1. /\ slots[x] = Free /\ t.k = "dyn" /\ Room(mem)
      /\ Place(x, t, VM(Ref("array", Fresh(mem)), allocArray(t.el, mem)))
  BY DEF MakeArray
<1>2. slots \in [Vars -> Contents] /\ ~mem.full
  BY DEF Right
<1>3. PICK W : Shows(slots, mem, W)
  BY DEF Right
<1>4. mem \in Memories /\ Sound(mem, {}, W) /\ W[<<x, 0>>] = Free /\ W \in [Places -> Contents]
  BY <1>1, <1>3, ShownIs
<1>5. t \in AllTypes /\ t.el \in AllTypes /\ planForType[t].drop = "FreeArray" /\ Under(t.el, t)
  <2>1. t \in AllTypes
    BY ValuesAssumption
  <2>2. t.el \in AllTypes
    BY <1>1, <2>1, AllTypesMade
  <2>3. planForType[t].drop = "FreeArray"
    BY <1>1, <2>1, PlanIs DEF Plan
  <2> QED BY <1>1, <2>1, <2>2, <2>3, ElementUnder
<1>6. PICK f, el, d, m1 : f = Fresh(mem) /\ el = t.el /\ d = ArrayObject(el, FALSE, << >>, 0) /\ m1 = allocArray(el, mem)
  OBVIOUS
<1>7. f \in Ids /\ mem.heap[f] = NoObject /\ d \in Arrays /\ IsPut(m1, mem, f, d) /\ m1 = Put(mem, f, d)
  BY <1>1, <1>4, <1>5, <1>6, AllocArrayIs
<1>8. d.k = "array" /\ d.rc = 1 /\ d.el = el /\ d.fixed = FALSE /\ d.cap = 0 /\ d.data = << >>
  BY <1>6 DEF ArrayObject
<1>9. Sizes(d) /\ \A i \in 1 .. Big : Element(d, i) = Free
  <2>1. 0 \in Capacities /\ MaxLength \in Nat /\ Len(<< >>) = 0
    BY BoundsAreNat DEF Capacities
  <2>2. Sizes(d)
    BY <1>8, <2>1 DEF Sizes
  <2>3. DOMAIN << >> = {}
    OBVIOUS
  <2> QED BY <1>8, <2>2, <2>3 DEF Element
<1>10. Sound(m1, {f}, W) /\ \A i \in 1 .. Big : W[<<f, i>>] = Free
  <2>1. Sound(Put(mem, f, d), {} \union {f}, W) /\ \A i \in 1 .. Big : W[<<f, i>>] = Free
    BY <1>4, <1>7, <1>8, <1>9, Written
  <2>2. {} \union {f} = {f}
    OBVIOUS
  <2> QED BY <1>7, <2>1, <2>2
<1>11. m1.heap[f] = d /\ ~m1.full /\ ~m1.stuck
  BY <1>2, <1>7 DEF IsPut
<1>12. PICK p, F : p = <<x, 0>> /\ F = {f}
  OBVIOUS
<1>13. p \in Open(F) /\ p \in Places /\ p[2] = 0 /\ ~IsRef(W[p].v)
  BY <1>4, <1>12, OpenIs, FreeIs
<1>14. PICK c : c = [ty |-> t, v |-> Ref("array", f)]
  OBVIOUS
<1>15. PICK W1 : W1 = [W EXCEPT ![p] = c]
  OBVIOUS
<1>16. Sound(m1, {}, W1)
  <2>1. DropOf(m1.heap[f]) = "FreeArray" /\ m1.heap[f].el = t.el
    BY <1>6, <1>8, <1>11 DEF DropOf
  <2>2. \A i \in 1 .. Big : W[<<f, i>>] = Element(m1.heap[f], i)
    BY <1>9, <1>10, <1>11
  <2>3. f \in F /\ Sound(m1, F, W)
    BY <1>10, <1>12
  <2>4. planForType[t].drop = DropOf(m1.heap[f]) /\ Under(m1.heap[f].el, t)
    BY <1>5, <2>1
  <2>5. Sound(m1, F \ {f}, [W EXCEPT ![p] = [ty |-> t, v |-> Ref("array", f)]])
    BY <1>5, <1>13, <2>2, <2>3, <2>4, Attached
  <2>6. F \ {f} = {}
    BY <1>12
  <2> QED BY <1>14, <1>15, <2>5, <2>6
<1>17. Puts(W, x, c, m1, W1)
  <2>1. W1[p] = c /\ \A q \in Open({}) : q # p => W1[q] = W[q]
    BY <1>4, <1>13, <1>15 DEF Open
  <2> QED BY <1>11, <1>12, <1>16, <2>1 DEF Puts
<1>18. Right([slots EXCEPT ![x] = c], m1)
  BY <1>2, <1>3, <1>17, PlacedRight
<1>19. mem' = m1 /\ slots' = [slots EXCEPT ![x] = c] /\ regs' = regs
  <2>1. PICK r : r = VM(Ref("array", Fresh(mem)), allocArray(t.el, mem))
    OBVIOUS
  <2>2. r.v = Ref("array", f) /\ r.m = m1
    BY <1>6, <2>1 DEF VM
  <2> QED BY <1>1, <1>14, <2>1, <2>2, PlaceIs
<1> QED BY <1>18, <1>19

\* The host's part with them.
LEMMA HostedNew ==
  ASSUME NEW m, Hosted(m), m.host \in Seq(Payloads), NEW f \in Ids, m.heap[f] = NoObject,
         NEW m1, NEW h, NEW pl \in Payloads, NewHandle(m, m1, f, h, pl),
         h.reg = pl.reg, pl.reg \in DOMAIN regs, pl.releases = 0, pl.by = {},
         Entry(h.reg, h.index) # NoEntry, Plain(h.reg) => Entry(h.reg, h.index) = pl.ty
  PROVE  Hosted(m1)
<1>1. PICK n : n = Len(m.host)
  OBVIOUS
<1>2. PICK k : k = n + 1
  OBVIOUS
<1>3. n \in Nat /\ k \in Nat /\ DOMAIN m.host = 1 .. n /\ k \notin 1 .. n /\ m1.host \in Seq(Payloads)
  BY <1>1, <1>2, SeqFacts, Appended DEF NewHandle
<1>4. /\ DOMAIN m1.host = 1 .. k /\ m1.host[k] = pl /\ \A p \in 1 .. n : m1.host[p] = m.host[p]
  <2>1. Len(m1.host) = k /\ m1.host[k] = pl /\ \A p \in 1 .. n : m1.host[p] = m.host[p]
    BY <1>1, <1>2, Appended DEF NewHandle
  <2> QED BY <1>3, <2>1, SeqFacts
<1>5. /\ \A id \in Ids : m.heap[id].k = "host" => HandleOK(m.heap[id], m.host)
      /\ \A id, j \in Ids : m.heap[id].k = "host" /\ m.heap[j].k = "host" /\ m.heap[id].payload = m.heap[j].payload => id = j
      /\ \A p \in DOMAIN m.host : /\ m.host[p].releases = IF Holds(m, p) # {} THEN 0 ELSE 1
                                  /\ m.host[p].reg \in DOMAIN regs
                                  /\ Plain(m.host[p].reg) => m.host[p].by \subseteq {m.host[p].ty}
  BY HostParts
<1>6. /\ m1.heap[f] = h /\ h.k = "host" /\ h.payload = k
      /\ \A j \in Ids : j # f => m1.heap[j] = m.heap[j]
  BY <1>1, <1>2 DEF NewHandle
<1>7. \A id \in Ids : id # f /\ m.heap[id].k = "host" => m.heap[id].payload \in 1 .. n
  BY <1>3, <1>5 DEF HandleOK
<1>8. m.heap[f].k # "host"
  BY DEF NoObject
<1>9. ASSUME NEW id \in Ids, m1.heap[id].k = "host" PROVE HandleOK(m1.heap[id], m1.host)
  <2>1. CASE id = f
    <3>1. k \in DOMAIN m1.host
      BY <1>2, <1>3, <1>4
    <3> QED BY <1>4, <1>6, <2>1, <3>1 DEF HandleOK
  <2>2. CASE id # f
    <3>1. HandleOK(m.heap[id], m.host) /\ m1.heap[id] = m.heap[id]
      BY <1>5, <1>6, <1>9, <2>2
    <3>2. m.heap[id].payload \in 1 .. n
      BY <1>3, <3>1 DEF HandleOK
    <3>3. m.heap[id].payload \in 1 .. k
      BY <1>2, <1>3, <3>2
    <3> QED BY <1>4, <3>1, <3>2, <3>3 DEF HandleOK
  <2> QED BY <2>1, <2>2
<1>10. ASSUME NEW id \in Ids, NEW j \in Ids, m1.heap[id].k = "host", m1.heap[j].k = "host",
              m1.heap[id].payload = m1.heap[j].payload
       PROVE  id = j
  <2>1. CASE id = f \/ j = f
    BY <1>3, <1>6, <1>7, <1>10, <2>1
  <2>2. CASE id # f /\ j # f
    BY <1>5, <1>6, <1>10, <2>2
  <2> QED BY <2>1, <2>2
<1>11. ASSUME NEW p \in 1 .. k
       PROVE  /\ m1.host[p].releases = IF Holds(m1, p) # {} THEN 0 ELSE 1
              /\ m1.host[p].reg \in DOMAIN regs
              /\ Plain(m1.host[p].reg) => m1.host[p].by \subseteq {m1.host[p].ty}
  <2>1. CASE p = k
    <3>1. f \in Holds(m1, k)
      BY <1>6 DEF Holds
    <3> QED BY <1>4, <2>1, <3>1
  <2>2. CASE p # k
    <3>1. p \in 1 .. n
      BY <1>2, <1>3, <2>2
    <3>2. Holds(m1, p) = Holds(m, p)
      <4>1. \A id \in Ids : (m1.heap[id].k = "host" /\ m1.heap[id].payload = p) <=> (m.heap[id].k = "host" /\ m.heap[id].payload = p)
        BY <1>6, <1>8, <2>2
      <4> QED BY <4>1 DEF Holds
    <3> QED BY <1>3, <1>4, <1>5, <3>1, <3>2, Zenon
  <2> QED BY <2>1, <2>2
<1> QED BY <1>4, <1>9, <1>10, <1>11 DEF Hosted

\* Which object is fresh depends on the heap only.
LEMMA FreshByHeap ==
  ASSUME NEW m, NEW m1, m1.heap = m.heap
  PROVE  Fresh(m1) = Fresh(m) /\ (Room(m) => Room(m1))
<1> DEFINE FreshIn(heap) == CHOOSE i \in Ids : ~(heap[i] # NoObject)
<1>1. Fresh(m) = FreshIn(m.heap) /\ Fresh(m1) = FreshIn(m1.heap)
  BY DEF Fresh, Live
<1>2. FreshIn(m1.heap) = FreshIn(m.heap)
  <2> HIDE DEF FreshIn
  <2> QED OBVIOUS
<1> QED BY <1>1, <1>2 DEF Room, Live

\* The host gives the program a handle.
LEMMA HandleMade ==
  ASSUME RegsOK, Right(slots, mem), ~mem.stuck, NEW x \in Vars, NEW r \in DOMAIN regs, NEW n \in Names,
         allocHandle(x, r, n)
  PROVE  Right(slots', mem') /\ regs' = regs
<1>1. PICK e : e = find(regs, r, n)
  OBVIOUS
<1>2. PICK pl : pl = Payload(r, n, e)
  OBVIOUS
<1>3. PICK k : k = Len(mem.host) + 1
  OBVIOUS
<1>4. PICK h : h = [k |-> "host", rc |-> 1, reg |-> r, index |-> e[2], payload |-> k]
  OBVIOUS
<1>5. PICK mh : mh = [mem EXCEPT !.host = Append(mem.host, pl)]
  OBVIOUS
<1>6. /\ slots[x] = Free /\ e # NoEntry /\ Room(mem)
      /\ Place(x, Host, VM(Ref("host", Fresh(mem)), Alloc(h, mh)))
  BY <1>1, <1>2, <1>3, <1>4, <1>5 DEF allocHandle
<1>7. slots \in [Vars -> Contents] /\ ~mem.full
  BY DEF Right
<1>8. PICK W : Shows(slots, mem, W)
  BY DEF Right
<1>9. mem \in Memories /\ ~mem.broken /\ Sound(mem, {}, W) /\ W[<<x, 0>>] = Free /\ W \in [Places -> Contents]
  BY <1>6, <1>8, ShownIs
<1>10. /\ e \in Entries /\ Entry(r, e[2]) = e
       /\ (r = "root" \/ regs[r].names = << >>) => <<Owner(r, n), e[2]>> = e
       /\ Owner(r, n) \in Registries
  BY <1>1, <1>6, FindIs
<1>11. e[2] \in Nat /\ r \in Registries
  BY <1>10 DEF Entries, RegsOK
<1>12. /\ pl \in Payloads /\ pl.reg = r /\ pl.ty = <<Owner(r, n), e[2]>> /\ pl.releases = 0 /\ pl.by = {}
  <2>1. <<Owner(r, n), e[2]>> \in Entries
    BY <1>10, <1>11 DEF Entries
  <2> QED BY <1>2, <1>11, <2>1 DEF Payload, Payloads
<1>13. mem.host \in Seq(Payloads) /\ Len(mem.host) \in Nat /\ Append(mem.host, pl) \in Seq(Payloads) /\ k \in Nat
  <2>1. mem.host \in Seq(Payloads)
    BY <1>9, MemoryIs
  <2> QED BY <1>3, <1>12, <2>1, Appended
<1>14. h \in Handles /\ h.k = "host" /\ h.rc = 1 /\ h.reg = r /\ h.index = e[2] /\ h.payload = k /\ h \in Objects
  <2>1. h \in Handles
    BY <1>4, <1>11, <1>13 DEF Handles
  <2> QED BY <1>4, <2>1, KindsAre
<1>15. /\ mh \in Memories /\ mh.heap = mem.heap /\ mh.broken = mem.broken /\ mh.stuck = mem.stuck /\ mh.full = mem.full
       /\ mh.host = Append(mem.host, pl)
  <2>1. PICK hs \in Seq(Payloads) : hs = Append(mem.host, pl)
    BY <1>13
  <2>2. mh = [mem EXCEPT !.host = hs]
    BY <1>5, <2>1
  <2>3. mh \in Memories /\ mh.host = hs
    BY <1>9, <2>2 DEF Memories
  <2>4. mh.heap = mem.heap /\ mh.broken = mem.broken /\ mh.stuck = mem.stuck /\ mh.full = mem.full
    BY <1>9, <2>2 DEF Memories
  <2> QED BY <2>1, <2>3, <2>4
<1>16. PICK f : f = Fresh(mem)
  OBVIOUS
<1>17. Room(mh) /\ Fresh(mh) = f
  BY <1>6, <1>15, <1>16, FreshByHeap
<1>18. PICK m1 : m1 = Alloc(h, mh)
  OBVIOUS
<1>19. f \in Ids /\ mem.heap[f] = NoObject /\ IsPut(m1, mh, f, h)
  <2>1. f \in Ids /\ mh.heap[f] = NoObject /\ IsPut(m1, mh, f, h)
    BY <1>14, <1>15, <1>17, <1>18, AllocIs
  <2> QED BY <1>15, <2>1
<1>20. /\ m1 \in Memories /\ ~m1.broken /\ ~m1.stuck /\ ~m1.full /\ m1.heap[f] = h
       /\ m1.host = Append(mem.host, pl) /\ \A j \in Ids : j # f => m1.heap[j] = mem.heap[j]
  BY <1>7, <1>9, <1>15, <1>19 DEF IsPut
<1>21. Hosted(m1)
  <2>1. NewHandle(mem, m1, f, h, pl)
    BY <1>3, <1>14, <1>20 DEF NewHandle
  <2>2. Plain(h.reg) => Entry(h.reg, h.index) = pl.ty
    BY <1>10, <1>12, <1>14 DEF Plain
  <2>3. Entry(h.reg, h.index) # NoEntry
    BY <1>6, <1>10, <1>14
  <2>4. Hosted(mem)
    BY <1>9, SoundIs
  <2> QED BY <1>12, <1>13, <1>14, <1>19, <2>1, <2>2, <2>3, <2>4, HostedNew
<1>22. Host \in AllTypes /\ planForType[Host].drop = DropOf(m1.heap[f])
  <2>1. Host \in AllTypes
    <3>1. TypesTo[0] \subseteq AllTypes
      BY BoundsAreNat, LevelsAbove
    <3> QED BY <3>1, TypesToIs
  <2>2. planForType[Host].drop = "Release"
    BY <2>1, PlanIs DEF Plan, Host
  <2> QED BY <1>14, <1>20, <2>1, <2>2 DEF DropOf
<1>23. PICK p : p = <<x, 0>>
  OBVIOUS
<1>24. p \in Open({}) /\ p \in Places /\ ~IsRef(W[p].v)
  BY <1>9, <1>23, FreeIs, OpenIs
<1>25. PICK c : c = [ty |-> Host, v |-> Ref("host", f)]
  OBVIOUS
<1>26. PICK W1 : W1 = [W EXCEPT ![p] = c]
  OBVIOUS
<1>27. Sound(m1, {}, W1)
  <2>1. m1.heap[f].k \in {"string", "host"} /\ m1.heap[f].rc = 1 /\ m1.heap[f].k = "host"
    BY <1>14, <1>20
  <2>2. \A j \in Ids \ {f} : m1.heap[j] = mem.heap[j]
    BY <1>20
  <2>3. Sound(m1, {}, [W EXCEPT ![p] = [ty |-> Host, v |-> Ref(m1.heap[f].k, f)]])
    BY <1>9, <1>19, <1>20, <1>21, <1>22, <1>24, <2>1, <2>2, NewLeaf
  <2> QED BY <1>25, <1>26, <2>1, <2>3
<1>28. Puts(W, x, c, m1, W1)
  <2>1. W1[p] = c /\ \A q \in Open({}) : q # p => W1[q] = W[q]
    BY <1>9, <1>24, <1>26 DEF Open
  <2> QED BY <1>20, <1>23, <1>27, <2>1 DEF Puts
<1>29. Right([slots EXCEPT ![x] = c], m1)
  BY <1>7, <1>8, <1>28, PlacedRight
<1>30. mem' = m1 /\ slots' = [slots EXCEPT ![x] = c] /\ regs' = regs
  <2>1. PICK rr : rr = VM(Ref("host", Fresh(mem)), Alloc(h, mh))
    OBVIOUS
  <2>2. rr.v = Ref("host", f) /\ rr.m = m1
    BY <1>16, <1>18, <2>1 DEF VM
  <2> QED BY <1>6, <1>25, <2>1, <2>2, PlaceIs
<1> QED BY <1>29, <1>30
==============================================================================
