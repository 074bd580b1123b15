------------------------ MODULE ModuleResolverProofs ------------------------
(***************************************************************************)
(* The order of the modules, and what is told of a change, for any package *)
(* of finitely many files that say anything, parsed in any order of the    *)
(* imports and sorted in any order of the hash maps.                       *)
(*                                                                         *)
(* Three arguments meet: the parse keeps a path of imports on its stack,   *)
(* so that an import that is still being parsed closes a cycle and every   *)
(* other one resolves; the counts of Kahn's algorithm are exact between    *)
(* any two of its steps; and where it stops every module that is left has  *)
(* an import that is left, which in a finite package is a cycle.           *)
(***************************************************************************)
EXTENDS FileWatcher, FiniteSetTheorems, FunctionTheorems, WellFoundedInduction, TLAPS

-----------------------------------------------------------------------------
(* Induction over the numbers, with a set in the place of the predicate.   *)

\* A set of numbers that is not empty has a least one.
LEMMA Least ==
  ASSUME NEW T \in SUBSET Nat, T # {}
  PROVE  \E m \in T : \A n \in T : m <= n
<1> DEFINE R == {p \in Nat \X Nat : p[1] < p[2]}
<1>1. R = OpToRel(<, Nat)
  BY DEF OpToRel
<1>2. IsWellFoundedOn(R, Nat)
  BY <1>1, NatLessThanWellFounded
<1>3. \E x \in T : \A y \in T : ~ (<<y, x>> \in R)
  <2> HIDE DEF R
  <2> QED BY <1>2, WFMin
<1>4. PICK x \in T : \A y \in T : ~ (<<y, x>> \in R)
  BY <1>3
<1>5. ASSUME NEW y \in T PROVE x <= y
  <2>1. ~ (<<y, x>> \in R)
    BY <1>4
  <2>2. <<y, x>> \in Nat \X Nat /\ <<y, x>>[1] = y /\ <<y, x>>[2] = x
    OBVIOUS
  <2> QED BY <2>1, <2>2
<1> QED BY <1>5

\* The numbers up to m are in every set that has zero and, with a number below
\* m, the next one.
LEMMA UpTo ==
  ASSUME NEW m \in Nat, NEW S, 0 \in S, \A n \in 0 .. m - 1 : n \in S => n + 1 \in S
  PROVE  0 .. m \subseteq S
<1>1. SUFFICES ASSUME (0 .. m) \ S # {} PROVE FALSE
  OBVIOUS
<1>2. PICK n \in (0 .. m) \ S : \A k \in (0 .. m) \ S : n <= k
  <2> DEFINE T == (0 .. m) \ S
  <2>1. T \in SUBSET Nat /\ T # {}
    BY <1>1
  <2> HIDE DEF T
  <2>2. \E k \in T : \A l \in T : k <= l
    BY <2>1, Least
  <2> QED BY <2>2 DEF T
<1>3. n # 0 /\ n - 1 \in 0 .. m - 1
  BY <1>2
<1>4. n - 1 \in S
  BY <1>2, <1>3
<1> QED BY <1>2, <1>3, <1>4

\* All the numbers are in every set that has zero and, with each, the next.
LEMMA NatInd ==
  ASSUME NEW S, 0 \in S, \A n \in Nat : n \in S => n + 1 \in S
  PROVE  Nat \subseteq S
<1> SUFFICES ASSUME NEW m \in Nat PROVE m \in S
  OBVIOUS
<1>1. 0 .. m \subseteq S
  BY UpTo
<1> QED BY <1>1

-----------------------------------------------------------------------------
(* Recursion *)

\* The first n values of a recursion from x.
Partial(n, S, x, step) ==
  {g \in [0 .. n -> S] : g[0] = x /\ \A k \in 0 .. n - 1 : g[k + 1] = step[k][g[k]]}

\* They exist.
LEMMA PartialExists ==
  ASSUME NEW S, NEW x \in S, NEW step \in [Nat -> [S -> S]], NEW n \in Nat
  PROVE  Partial(n, S, x, step) # {}
<1> DEFINE T == {m \in Nat : Partial(m, S, x, step) # {}}
<1>1. 0 \in T
  <2>1. [k \in 0 .. 0 |-> x] \in Partial(0, S, x, step)
    BY DEF Partial
  <2> QED BY <2>1
<1>2. ASSUME NEW m \in Nat, m \in T PROVE m + 1 \in T
  <2>1. PICK g : g \in Partial(m, S, x, step)
    BY <1>2
  <2>2. g \in [0 .. m -> S] /\ g[0] = x /\ \A k \in 0 .. m - 1 : g[k + 1] = step[k][g[k]]
    BY <2>1 DEF Partial
  <2> DEFINE h == [k \in 0 .. m + 1 |-> IF k = m + 1 THEN step[m][g[m]] ELSE g[k]]
  <2>3. step[m][g[m]] \in S
    BY <2>2
  <2>4. h \in [0 .. m + 1 -> S] /\ h[0] = x
    BY <2>2, <2>3
  <2>5. ASSUME NEW k \in 0 .. m PROVE h[k + 1] = step[k][h[k]]
    BY <2>2
  <2>6. h \in Partial(m + 1, S, x, step)
    <3>1. 0 .. m + 1 - 1 = 0 .. m
      OBVIOUS
    <3> HIDE DEF h
    <3> QED BY <2>4, <2>5, <3>1 DEF Partial
  <2> QED BY <2>6
<1>3. Nat \subseteq T
  <2> HIDE DEF T
  <2> QED BY <1>1, <1>2, NatInd
<1> QED BY <1>3

\* And agree with each other.
LEMMA PartialAgree ==
  ASSUME NEW S, NEW x \in S, NEW step \in [Nat -> [S -> S]], NEW n \in Nat, NEW m \in Nat,
         NEW g \in Partial(n, S, x, step), NEW h \in Partial(m, S, x, step), n <= m
  PROVE  \A k \in 0 .. n : g[k] = h[k]
<1> DEFINE T == {k \in 0 .. n : g[k] = h[k]}
<1>1. 0 \in T
  BY DEF Partial
<1>2. ASSUME NEW k \in 0 .. n - 1, k \in T PROVE k + 1 \in T
  <2>1. g[k + 1] = step[k][g[k]]
    BY DEF Partial
  <2>2. k \in 0 .. m - 1 /\ k + 1 \in 0 .. n
    OBVIOUS
  <2>3. h[k + 1] = step[k][h[k]]
    BY <2>2 DEF Partial
  <2> QED BY <1>2, <2>1, <2>2, <2>3
<1>3. 0 .. n \subseteq T
  <2> HIDE DEF T
  <2> QED BY <1>1, <1>2, UpTo
<1> QED BY <1>3

\* All of them.
Follows(f, S, x, step) ==
  f \in [Nat -> S] /\ f[0] = x /\ \A n \in Nat : f[n + 1] = step[n][f[n]]

\* There is a function with a given first value and, at each number, what step
\* makes of the value before.
LEMMA Recursion ==
  ASSUME NEW S, NEW x \in S, NEW step \in [Nat -> [S -> S]]
  PROVE  \E f : Follows(f, S, x, step)
<1> DEFINE g == [n \in Nat |-> CHOOSE p \in Partial(n, S, x, step) : TRUE]
           f == [n \in Nat |-> g[n][n]]
<1>1. ASSUME NEW n \in Nat PROVE g[n] \in Partial(n, S, x, step)
  BY PartialExists
<1> HIDE DEF g
<1>2. ASSUME NEW n \in Nat PROVE f[n] \in S
  BY <1>1 DEF Partial
<1>3. f[0] = x
  BY <1>1 DEF Partial
<1>4. ASSUME NEW n \in Nat PROVE f[n + 1] = step[n][f[n]]
  <2>1. g[n + 1][n + 1] = step[n][g[n + 1][n]]
    <3>1. g[n + 1] \in Partial(n + 1, S, x, step)
      BY <1>1
    <3>2. n \in 0 .. n + 1 - 1
      OBVIOUS
    <3>3. PICK q : q = g[n + 1]
      OBVIOUS
    <3>4. q \in Partial(n + 1, S, x, step)
      BY <3>1, <3>3
    <3>5. q[n + 1] = step[n][q[n]]
      BY <3>2, <3>4 DEF Partial
    <3> QED BY <3>3, <3>5
  <2>2. g[n][n] = g[n + 1][n]
    <3>1. g[n] \in Partial(n, S, x, step) /\ g[n + 1] \in Partial(n + 1, S, x, step)
      BY <1>1
    <3>2. n + 1 \in Nat /\ n <= n + 1 /\ n \in 0 .. n
      OBVIOUS
    <3>3. PICK p : p = g[n]
      OBVIOUS
    <3>4. PICK q : q = g[n + 1]
      OBVIOUS
    <3>5. p \in Partial(n, S, x, step) /\ q \in Partial(n + 1, S, x, step)
      BY <3>1, <3>3, <3>4
    <3>6. n \in Nat /\ n + 1 \in Nat /\ n <= n + 1
      BY <3>2
    <3>7. \A k \in 0 .. n : p[k] = q[k]
      BY <3>5, <3>6, PartialAgree
    <3> QED BY <3>2, <3>3, <3>4, <3>7
  <2>3. f[n + 1] = g[n + 1][n + 1] /\ f[n] = g[n][n]
    OBVIOUS
  <2> QED BY <2>1, <2>2, <2>3
<1>5. f \in [Nat -> S]
  BY <1>2
<1>6. Follows(f, S, x, step)
  <2> HIDE DEF f
  <2> QED BY <1>3, <1>4, <1>5 DEF Follows
<1> QED BY <1>6


\* The resolver's variables while modules are parsed.
Loaded ==
  /\ imports \in Projects
  /\ parsed \subseteq Files
  /\ parsingStack \in Seq(Files)
  /\ DOMAIN resolvedImports = parsed
  /\ \A m \in parsed : IsFiniteSet(DOMAIN resolvedImports[m])

\* The stack is a path of imports from the root, through modules not parsed yet.
Path ==
  /\ \A i \in DOMAIN parsingStack : parsingStack[i] \notin parsed
  /\ \A i, j \in DOMAIN parsingStack : parsingStack[i] = parsingStack[j] => i = j
  /\ \A i \in DOMAIN parsingStack : i + 1 \in DOMAIN parsingStack =>
       parsingStack[i + 1] \in Targets(parsingStack[i])
  /\ parsingStack # << >> => parsingStack[1] = Root
  /\ Parsed => Root \in parsed

\* An import that was parsed resolves, unless it closes a cycle or its alias is
\* declared again.
ResolvedAt(m) ==
  /\ \A a \in DOMAIN resolvedImports[m] : resolvedImports[m][a] \in Targets(m) \cap parsed
  /\ Targets(m) \cap Files \subseteq parsed \union ToSet(parsingStack)
  /\ ~OnCycle(m) /\ DistinctAliases(m) => \A t \in Targets(m) \cap Files : Resolves(m, t)

Resolved == \A m \in parsed : ResolvedAt(m)

\* The imports of n that its indegree counts.
Remaining(n) ==
  {a \in DOMAIN resolvedImports[n] :
     resolvedImports[n][a] \notin ToSet(moduleOrderList) \/ <<n, a>> \in pending}

Out == ToSet(moduleOrderList) \union ToSet(queue)

\* Kahn's algorithm between two of its steps.
Sorting ==
  /\ moduleOrderList \in Seq(parsed) /\ queue \in Seq(parsed)
  /\ \A i, j \in DOMAIN moduleOrderList : moduleOrderList[i] = moduleOrderList[j] => i = j
  /\ \A i, j \in DOMAIN queue : queue[i] = queue[j] => i = j
  /\ \A i \in DOMAIN moduleOrderList, j \in DOMAIN queue : moduleOrderList[i] # queue[j]
  /\ \A e \in pending : \E n \in parsed : \E a \in DOMAIN resolvedImports[n] :
       e = <<n, a>> /\ resolvedImports[n][a] \in ToSet(moduleOrderList)
  /\ indegree \in [parsed -> Nat]
  /\ \A n \in parsed : indegree[n] = Cardinality(Remaining(n)) /\ (n \in Out <=> indegree[n] = 0)
  /\ \A i \in DOMAIN moduleOrderList : \A a \in DOMAIN resolvedImports[moduleOrderList[i]] :
       \E j \in DOMAIN moduleOrderList :
         j < i /\ moduleOrderList[j] = resolvedImports[moduleOrderList[i]][a]

\* What it leaves.
Sorted ==
  /\ ToSet(moduleOrderList) = parsed /\ Len(moduleOrderList) = Cardinality(parsed)
  /\ \A m \in parsed : Settled(m) =>
       \A a \in DOMAIN resolvedImports[m] : Before(resolvedImports[m][a], m)

Phases ==
  /\ ordering \in {"not", "kahn", "done"}
  /\ ordering = "not" => moduleOrderList = << >> /\ pending = {}
  /\ ordering # "not" => Parsed
  /\ ordering = "kahn" => Sorting
  /\ ordering = "done" => Sorted

IInv == Loaded /\ Path /\ Resolved /\ Phases

-----------------------------------------------------------------------------
(* What the program text says                                              *)

\* A module concerns itself.
LEMMA ReachSelf == ASSUME NEW m \in Files PROVE m \in Reach(m)
BY DEF Reach

\* And what imports a module that it concerns.
LEMMA ReachImporter ==
  ASSUME NEW m, NEW n \in Reach(m), NEW k \in Files, n \in Targets(k)
  PROVE  k \in Reach(m)
<1> SUFFICES ASSUME NEW S \in SUBSET Files, m \in S,
                    \A l \in Files : Targets(l) \cap S # {} => l \in S
             PROVE  k \in S
  BY DEF Reach
<1>1. n \in S
  BY DEF Reach
<1> QED BY <1>1

\* And nothing else.
LEMMA ReachLeast ==
  ASSUME NEW m, NEW S \in SUBSET Files, m \in S,
         \A k \in Files : Targets(k) \cap S # {} => k \in S
  PROVE  Reach(m) \subseteq S
BY DEF Reach

\* A module that imports one it concerns closes a cycle.
LEMMA Cycle ==
  ASSUME NEW m \in Files, NEW t \in Files, t \in Targets(m), t \in Reach(m)
  PROVE  OnCycle(m)
BY DEF OnCycle

\* Where every module of a set imports one of it there is a cycle.
LEMMA HasCycle ==
  ASSUME NEW U \in SUBSET Files, U # {}, \A u \in U : \E t \in U : t \in Targets(u)
  PROVE  \E u \in U : OnCycle(u)
<1> DEFINE step == [n \in Nat |-> [u \in U |-> CHOOSE t \in U : t \in Targets(u)]]
           c == Cardinality(U)
<1>1. PICK x : x \in U
  OBVIOUS
<1>2. step \in [Nat -> [U -> U]] /\ \A n \in Nat, u \in U : step[n][u] \in Targets(u)
  OBVIOUS
<1>3. PICK f : Follows(f, U, x, step)
  <2> HIDE DEF step
  <2> QED BY <1>1, <1>2, Recursion
<1>4. f \in [Nat -> U] /\ \A n \in Nat : f[n + 1] \in Targets(f[n])
  <2> HIDE DEF step
  <2> QED BY <1>2, <1>3 DEF Follows
<1>5. IsFiniteSet(U) /\ c \in Nat
  BY ResolverAssumption, FS_Subset, FS_CardinalityType
<1>6. IsFiniteSet(0 .. c) /\ Cardinality(0 .. c) = c + 1
  BY <1>5, FS_Interval
<1> DEFINE g == [n \in 0 .. c |-> f[n]]
<1>7. g \in [0 .. c -> U]
  BY <1>4, <1>5
<1>8. \E i, j \in 0 .. c : i # j /\ g[i] = g[j]
  <2> DEFINE S == 0 .. c
  <2>1. IsFiniteSet(S) /\ Cardinality(U) < Cardinality(S) /\ g \in [S -> U]
    BY <1>5, <1>6, <1>7
  <2> HIDE DEF g, S
  <2>2. \E i, j \in S : i # j /\ g[i] = g[j]
    BY <2>1, <1>5, FS_PigeonHole
  <2> QED BY <2>2 DEF S
<1>9. PICK i \in Nat, j \in Nat : i < j /\ f[i] = f[j]
  BY <1>5, <1>8
<1>10. 0 .. j \subseteq {k \in 0 .. j : f[j - k] \in Reach(f[j])}
  <2> DEFINE T == {k \in 0 .. j : f[j - k] \in Reach(f[j])}
  <2>1. 0 \in T
    BY <1>4, ReachSelf
  <2>2. ASSUME NEW k \in 0 .. j - 1, k \in T PROVE k + 1 \in T
    <3>1. j - (k + 1) \in Nat /\ j - (k + 1) + 1 = j - k /\ k + 1 \in 0 .. j
      OBVIOUS
    <3>2. f[j - k] \in Targets(f[j - (k + 1)]) /\ f[j - (k + 1)] \in Files
      BY <1>4, <3>1
    <3>3. f[j - k] \in Reach(f[j])
      BY <2>2
    <3>4. f[j - (k + 1)] \in Reach(f[j])
      BY <3>2, <3>3, ReachImporter
    <3> QED BY <3>1, <3>4
  <2> HIDE DEF T
  <2>3. 0 .. j \subseteq T
    BY <2>1, <2>2, UpTo
  <2> QED BY <2>3 DEF T
<1>11. f[i + 1] \in Reach(f[j])
  <2>1. j - (i + 1) \in 0 .. j /\ j - (j - (i + 1)) = i + 1
    BY <1>9
  <2> QED BY <1>10, <2>1
<1>12. f[i] \in U /\ f[i] \in Files /\ f[i + 1] \in Files /\ f[i + 1] \in Targets(f[i]) /\ f[i + 1] \in Reach(f[i])
  BY <1>4, <1>9, <1>11
<1> QED BY <1>12, Cycle

\* It says the same as long as nobody edits the imports.
LEMMA SameText ==
  ASSUME imports' = imports
  PROVE  \A m \in Files : /\ Targets(m)' = Targets(m) /\ Reach(m)' = Reach(m)
                          /\ OnCycle(m)' <=> OnCycle(m)
                          /\ DistinctAliases(m)' <=> DistinctAliases(m)
<1>1. \A m : Targets(m)' = Targets(m)
  BY DEF Targets
<1>2. \A m : Reach(m)' = Reach(m)
  BY <1>1 DEF Reach
<1>3. \A m : OnCycle(m)' <=> OnCycle(m)
  BY <1>1, <1>2 DEF OnCycle
<1>4. \A m : DistinctAliases(m)' <=> DistinctAliases(m)
  BY DEF DistinctAliases
<1> QED BY <1>1, <1>2, <1>3, <1>4

\* A set of the numbers up to n has a greatest one.
LEMMA Greatest ==
  ASSUME NEW n \in Nat, NEW T \in SUBSET (1 .. n), T # {}
  PROVE  \E i \in T : \A j \in T : j <= i
<1> DEFINE D == {d \in Nat : n - d \in T}
<1>1. D # {}
  <2>1. PICK i \in T : TRUE
    OBVIOUS
  <2>2. n - i \in Nat /\ n - (n - i) = i
    BY <2>1
  <2> QED BY <2>1, <2>2
<1>2. PICK d \in D : \A e \in D : d <= e
  <2>1. D \in SUBSET Nat
    OBVIOUS
  <2> HIDE DEF D
  <2> QED BY <1>1, <2>1, Least
<1>3. ASSUME NEW j \in T PROVE j <= n - d
  <2>1. n - j \in Nat /\ n - (n - j) = j
    OBVIOUS
  <2>2. d <= n - j
    BY <1>2, <2>1
  <2> QED BY <1>2, <2>2
<1> QED BY <1>2, <1>3

\* The imports that are kept are of files that are known, and of each alias one
\* is kept if any import of that alias is.
LEMMA Keeps ==
  ASSUME Loaded, NEW m \in Files, NEW known \in SUBSET Files
  PROVE  LET r == resolveAndStoreImports(m, known)
         IN  /\ IsFiniteSet(DOMAIN r)
             /\ \A a \in DOMAIN r : r[a] \in Targets(m) \cap known
             /\ DistinctAliases(m) => \A t \in Targets(m) \cap known : \E a \in DOMAIN r : r[a] = t
<1> DEFINE K == Kept(m, known)
           A == {imports[m][i][1] : i \in K}
           Of(a) == {i \in K : imports[m][i][1] = a}
           last(a) == CHOOSE i \in K : /\ imports[m][i][1] = a
                                       /\ \A j \in K : imports[m][j][1] = a => j <= i
           r == resolveAndStoreImports(m, known)
<1>1. Len(imports[m]) \in Nat /\ DOMAIN imports[m] = 1 .. Len(imports[m])
  BY ResolverAssumption DEF Loaded
<1>2. K \subseteq 1 .. Len(imports[m]) /\ IsFiniteSet(K)
  <2>1. K \subseteq 1 .. Len(imports[m])
    BY <1>1 DEF Kept
  <2>2. IsFiniteSet(1 .. Len(imports[m]))
    BY <1>1, FS_Interval
  <2> QED BY <2>1, <2>2, FS_Subset
<1>3. r = [a \in A |-> imports[m][last(a)][2]]
  BY DEF resolveAndStoreImports
<1>4. IsFiniteSet(A)
  <2> DEFINE f == [i \in K |-> imports[m][i][1]]
  <2>1. f \in Surjection(K, A)
    <3>1. f \in [K -> A] /\ \A a \in A : \E i \in K : f[i] = a
      OBVIOUS
    <3> HIDE DEF f, K, A
    <3> QED BY <3>1 DEF Surjection
  <2> HIDE DEF f, K, A
  <2> QED BY <2>1, <1>2, FS_Surjection
<1>5. ASSUME NEW a \in A
      PROVE  last(a) \in K /\ imports[m][last(a)][1] = a
  <2>1. Of(a) # {} /\ Of(a) \in SUBSET (1 .. Len(imports[m]))
    BY <1>2
  <2>2. PICK i \in Of(a) : \A j \in Of(a) : j <= i
    <3> HIDE DEF Of
    <3> QED BY <1>1, <2>1, Greatest
  <2> HIDE DEF K
  <2>3. i \in K /\ imports[m][i][1] = a /\ \A j \in K : imports[m][j][1] = a => j <= i
    BY <2>2
  <2> QED BY <2>3, Zenon
<1>6. ASSUME NEW a \in A PROVE r[a] \in Targets(m) \cap known
  <2> HIDE DEF last, A, r, K
  <2>1. last(a) \in K /\ r[a] = imports[m][last(a)][2]
    BY <1>3, <1>5
  <2> USE DEF K
  <2> QED BY <2>1 DEF Kept, Targets
<1>7. ASSUME DistinctAliases(m), NEW t \in Targets(m) \cap known
      PROVE  \E a \in A : r[a] = t
  <2>1. PICK i \in DOMAIN imports[m] : imports[m][i][2] = t
    BY DEF Targets
  <2>2. i \in K
    BY <2>1 DEF Kept, resolveImportPath
  <2>3. imports[m][i][1] \in A
    BY <2>2
  <2>4. last(imports[m][i][1]) \in K /\ imports[m][last(imports[m][i][1])][1] = imports[m][i][1]
    BY <1>5, <2>3
  <2>5. last(imports[m][i][1]) = i
    <3> HIDE DEF last
    <3> QED BY <1>7, <2>1, <2>4 DEF DistinctAliases, Kept
  <2>6. r[imports[m][i][1]] = imports[m][last(imports[m][i][1])][2]
    <3> HIDE DEF last, A, r
    <3> QED BY <1>3, <2>3
  <2>7. r[imports[m][i][1]] = t
    BY <2>1, <2>5, <2>6
  <2> HIDE DEF A, r
  <2> QED BY <2>3, <2>7
<1>8. DOMAIN r = A
  BY <1>3
<1> HIDE DEF r, A
<1> QED BY <1>4, <1>6, <1>7, <1>8 DEF r

-----------------------------------------------------------------------------
(* The parse                                                               *)

\* A step of the resolver.
ResolverStep ==
  \/ \E m \in Files : pushParsing(m)
  \/ cacheModule \/ getModulesInOrder \/ popQueue
  \/ \E e \in pending : visitDependent(e)
  \/ placeCyclic

\* While a module is parsed nothing has been ordered.
LEMMA NotOrdered ==
  ASSUME Phases, parsingStack # << >>
  PROVE  ordering = "not" /\ moduleOrderList = << >> /\ pending = {}
BY DEF Phases, Parsed

\* What is on the stack imports its top.
LEMMA StackReaches ==
  ASSUME Loaded, Path, parsingStack # << >>
  PROVE  \A t \in ToSet(parsingStack) : t \in Reach(Last(parsingStack))
<1> DEFINE n == Len(parsingStack)
           m == Last(parsingStack)
           T == {k \in 0 .. n - 1 : parsingStack[n - k] \in Reach(m)}
<1>1. n \in Nat /\ n # 0 /\ DOMAIN parsingStack = 1 .. n /\ m = parsingStack[n] /\ m \in Files
  BY DEF Loaded, Last
<1>2. 0 \in T
  BY <1>1, ReachSelf
<1>3. ASSUME NEW k \in 0 .. n - 1 - 1, k \in T PROVE k + 1 \in T
  <2>1. /\ n - (k + 1) \in DOMAIN parsingStack /\ n - (k + 1) + 1 = n - k
        /\ n - k \in DOMAIN parsingStack /\ k + 1 \in 0 .. n - 1
    BY <1>1
  <2>2. parsingStack[n - k] \in Targets(parsingStack[n - (k + 1)]) /\ parsingStack[n - (k + 1)] \in Files
    BY <1>1, <2>1 DEF Path, Loaded
  <2>3. parsingStack[n - k] \in Reach(m)
    BY <1>3
  <2>4. parsingStack[n - (k + 1)] \in Reach(m)
    <3> HIDE DEF m
    <3> QED BY <2>2, <2>3, ReachImporter
  <2> QED BY <2>1, <2>4
<1>4. 0 .. n - 1 \subseteq T
  <2> HIDE DEF T
  <2>1. n - 1 \in Nat
    BY <1>1
  <2> QED BY <1>2, <1>3, <2>1, UpTo
<1>5. ASSUME NEW t \in ToSet(parsingStack) PROVE t \in Reach(m)
  <2>1. PICK i \in 1 .. n : parsingStack[i] = t
    BY <1>1 DEF ToSet
  <2>2. n - i \in 0 .. n - 1 /\ n - (n - i) = i
    BY <1>1
  <2>3. n - i \in T
    BY <1>4, <2>2
  <2> QED BY <2>1, <2>2, <2>3
<1> QED BY <1>5

\* A module that is parsed goes on the path.
LEMMA PushInv ==
  ASSUME IInv, NEW m \in Files, pushParsing(m)
  PROVE  IInv'
<1> DEFINE n == Len(parsingStack)
<1>1. Loaded /\ Path /\ Resolved /\ Phases
  BY DEF IInv
<1>2. imports' = imports /\ parsed' = parsed /\ resolvedImports' = resolvedImports
  BY DEF pushParsing
<1>3. n \in Nat /\ DOMAIN parsingStack = 1 .. n /\ parsingStack \in Seq(Files)
  BY <1>1 DEF Loaded
<1>4. /\ parsingStack' \in Seq(Files) /\ DOMAIN parsingStack' = 1 .. n + 1
      /\ \A i \in 1 .. n : parsingStack'[i] = parsingStack[i]
      /\ parsingStack'[n + 1] = m /\ parsingStack' # << >>
  BY <1>3 DEF pushParsing
<1>5. Loaded'
  BY <1>1, <1>2, <1>4 DEF Loaded
<1>6. Path'
  <2>1. \A i \in 1 .. n : m # parsingStack[i]
    BY <1>3 DEF pushParsing, isParsing, ToSet
  <2>2. \A i \in DOMAIN parsingStack' : parsingStack'[i] \notin parsed'
    BY <1>1, <1>2, <1>3, <1>4 DEF Path, pushParsing
  <2>3. \A i, j \in DOMAIN parsingStack' : parsingStack'[i] = parsingStack'[j] => i = j
    BY <1>1, <1>3, <1>4, <2>1 DEF Path
  <2>4. (\A i \in DOMAIN parsingStack : i + 1 \in DOMAIN parsingStack =>
           parsingStack[i + 1] \in Targets(parsingStack[i]))'
    <3> SUFFICES ASSUME NEW i \in 1 .. n PROVE parsingStack'[i + 1] \in Targets(parsingStack[i])
      BY <1>2, <1>4 DEF Targets
    <3>1. CASE i = n
      <4>1. parsingStack # << >> /\ Last(parsingStack) = parsingStack[n]
        BY <1>3, <3>1 DEF Last
      <4> QED BY <1>4, <3>1, <4>1 DEF pushParsing
    <3>2. CASE i # n
      <4>1. i + 1 \in 1 .. n
        <5>1. n \in Nat
          BY <1>3
        <5> HIDE DEF n
        <5> QED BY <3>2, <5>1
      <4> QED BY <1>1, <1>3, <1>4, <4>1 DEF Path
    <3> QED BY <3>1, <3>2
  <2>5. parsingStack'[1] = Root
    <3>1. CASE n = 0
      BY <1>3, <1>4, <3>1 DEF pushParsing
    <3>2. CASE n # 0
      BY <1>1, <1>3, <1>4, <3>2 DEF Path
    <3> QED BY <3>1, <3>2
  <2> QED BY <1>4, <2>2, <2>3, <2>4, <2>5 DEF Path, Parsed
<1>7. Resolved'
  <2> SUFFICES ASSUME NEW k \in parsed PROVE ResolvedAt(k)'
    BY <1>2 DEF Resolved
  <2>1. ToSet(parsingStack) \subseteq ToSet(parsingStack)'
    BY <1>3, <1>4 DEF ToSet
  <2>2. k \in Files /\ ResolvedAt(k)
    BY <1>1 DEF Loaded, Resolved
  <2>3. Targets(k)' = Targets(k) /\ (OnCycle(k)' <=> OnCycle(k)) /\ (DistinctAliases(k)' <=> DistinctAliases(k))
    BY <1>2, <2>2, SameText
  <2>4. \A t : Resolves(k, t)' <=> Resolves(k, t)
    BY <1>2 DEF Resolves, AliasesOf
  <2> QED BY <1>2, <2>1, <2>2, <2>3, <2>4 DEF ResolvedAt
<1>8. Phases'
  <2>1. ordering = "not" /\ moduleOrderList = << >> /\ pending = {}
    <3>1. CASE parsingStack # << >>
      BY <1>1, <3>1, NotOrdered
    <3>2. CASE parsingStack = << >>
      <4>1. m = Root /\ m \notin parsed
        BY <3>2 DEF pushParsing
      <4>2. ~Parsed
        BY <1>1, <4>1 DEF Path
      <4> QED BY <1>1, <4>2 DEF Phases
    <3> QED BY <3>1, <3>2
  <2> QED BY <2>1 DEF Phases, pushParsing
<1> QED BY <1>5, <1>6, <1>7, <1>8 DEF IInv

\* A module whose imports have been parsed, or are being parsed, has been parsed.
LEMMA CacheInv ==
  ASSUME IInv, cacheModule
  PROVE  IInv'
<1> DEFINE n == Len(parsingStack)
           m == Last(parsingStack)
<1>1. Loaded /\ Path /\ Resolved /\ Phases
  BY DEF IInv
<1>2. imports' = imports /\ parsed' = parsed \union {m} /\ parsingStack # << >>
  BY DEF cacheModule
<1>3. /\ n \in Nat /\ n # 0 /\ DOMAIN parsingStack = 1 .. n /\ parsingStack \in Seq(Files)
      /\ m = parsingStack[n] /\ m \in Files /\ m \notin parsed
  BY <1>1, <1>2 DEF Loaded, Path, Last
<1>4. /\ parsingStack' \in Seq(Files) /\ DOMAIN parsingStack' = 1 .. n - 1
      /\ \A i \in 1 .. n - 1 : parsingStack'[i] = parsingStack[i]
  BY <1>3 DEF cacheModule, Front
<1>5. PICK known : known = parsed \union {m}
  OBVIOUS
<1>6. PICK r : r = resolveAndStoreImports(m, known)
  OBVIOUS
<1>7. /\ DOMAIN resolvedImports' = parsed' /\ resolvedImports'[m] = r
      /\ \A k \in parsed : resolvedImports'[k] = resolvedImports[k]
  <2>1. resolvedImports' = [k \in parsed' |-> IF k = m THEN resolveAndStoreImports(m, parsed')
                                                       ELSE resolvedImports[k]]
    BY DEF cacheModule
  <2>2. parsed' = known
    BY <1>2, <1>5
  <2>3. resolvedImports' = [k \in known |-> IF k = m THEN r ELSE resolvedImports[k]]
    BY <1>6, <2>1, <2>2
  <2> HIDE DEF m
  <2> QED BY <1>3, <1>5, <2>2, <2>3
<1>8. /\ known \in SUBSET Files /\ IsFiniteSet(DOMAIN r)
      /\ \A a \in DOMAIN r : r[a] \in Targets(m) \cap known
      /\ DistinctAliases(m) => \A t \in Targets(m) \cap known : \E a \in DOMAIN r : r[a] = t
  <2>1. known \in SUBSET Files
    BY <1>1, <1>3, <1>5 DEF Loaded
  <2> HIDE DEF m
  <2> QED BY <1>1, <1>3, <1>6, <2>1, Keeps
<1>9. Loaded'
  <2>1. parsed' \subseteq Files /\ imports' \in Projects
    BY <1>1, <1>2, <1>3 DEF Loaded
  <2>2. ASSUME NEW k \in parsed' PROVE IsFiniteSet(DOMAIN resolvedImports'[k])
    <3> HIDE DEF m
    <3> QED BY <1>1, <1>2, <1>7, <1>8 DEF Loaded
  <2> QED BY <1>4, <1>7, <2>1, <2>2 DEF Loaded
<1>10. Path'
  <2>1. \A i \in DOMAIN parsingStack' : parsingStack'[i] \notin parsed'
    BY <1>1, <1>2, <1>3, <1>4 DEF Path
  <2>2. \A i, j \in DOMAIN parsingStack' : parsingStack'[i] = parsingStack'[j] => i = j
    BY <1>1, <1>3, <1>4 DEF Path
  <2>3. (\A i \in DOMAIN parsingStack : i + 1 \in DOMAIN parsingStack =>
           parsingStack[i + 1] \in Targets(parsingStack[i]))'
    <3> SUFFICES ASSUME NEW i \in 1 .. n - 1, i + 1 \in 1 .. n - 1
                 PROVE  parsingStack[i + 1] \in Targets(parsingStack[i])
      BY <1>2, <1>4 DEF Targets
    <3> QED BY <1>1, <1>3 DEF Path
  <2>4. parsingStack' # << >> => parsingStack'[1] = Root
    BY <1>1, <1>3, <1>4 DEF Path
  <2>5. Parsed' => Root \in parsed'
    <3> SUFFICES ASSUME parsingStack' = << >> PROVE Root \in parsed'
      BY DEF Parsed
    <3>1. n = 1
      <4>1. DOMAIN parsingStack' = {}
        OBVIOUS
      <4>2. 1 .. n - 1 = {} /\ n \in Nat /\ n # 0
        BY <1>3, <1>4, <4>1
      <4> HIDE DEF n
      <4> QED BY <4>2
    <3>3. parsingStack # << >> => parsingStack[1] = Root
      BY <1>1 DEF Path
    <3>4. parsingStack # << >> /\ m = parsingStack[1]
      BY <1>3, <3>1
    <3>2. m = Root
      BY <3>3, <3>4
    <3> QED BY <1>2, <3>2
  <2> QED BY <2>1, <2>2, <2>3, <2>4, <2>5 DEF Path
<1>11. ToSet(parsingStack) \subseteq {m} \union ToSet(parsingStack)'
  <2>1. ASSUME NEW i \in 1 .. n, i # n PROVE parsingStack[i] = parsingStack'[i] /\ i \in DOMAIN parsingStack'
    <3>1. n \in Nat
      BY <1>3
    <3>2. i \in 1 .. n - 1
      <4> HIDE DEF n
      <4> QED BY <2>1, <3>1
    <3> QED BY <1>4, <3>2
  <2> QED BY <1>3, <2>1 DEF ToSet
<1>12. Targets(m) \cap Files \subseteq parsed \union ToSet(parsingStack)
  BY DEF cacheModule, isParsing
<1>13. ~OnCycle(m) => Targets(m) \cap Files \subseteq known
  <2> SUFFICES ASSUME ~OnCycle(m), NEW t \in Targets(m) \cap Files, t \in ToSet(parsingStack) PROVE FALSE
    BY <1>5, <1>12
  <2>1. t \in Reach(m)
    BY <1>1, <1>2, StackReaches
  <2> HIDE DEF m
  <2> QED BY <1>3, <2>1, Cycle
<1>14. Resolved'
  <2> SUFFICES ASSUME NEW k \in parsed' PROVE ResolvedAt(k)'
    BY DEF Resolved
  <2>1. k \in Files /\ m \in Files /\ parsed' = known
    BY <1>2, <1>5, <1>8
  <2>2. Targets(k)' = Targets(k) /\ (OnCycle(k)' <=> OnCycle(k)) /\ (DistinctAliases(k)' <=> DistinctAliases(k))
    BY <1>2, <2>1, SameText
  <2>3. \A t : Resolves(k, t)' <=> \E a \in DOMAIN resolvedImports'[k] : resolvedImports'[k][a] = t
    BY DEF Resolves, AliasesOf
  <2> HIDE DEF m
  <2>4. CASE k = m
    <3>1. resolvedImports'[k] = r
      BY <1>7, <2>4
    <3>2. \A a \in DOMAIN resolvedImports'[k] : resolvedImports'[k][a] \in Targets(k)' \cap parsed'
      BY <1>8, <2>1, <2>2, <2>4, <3>1
    <3>3. Targets(k)' \cap Files \subseteq parsed' \union ToSet(parsingStack)'
      BY <1>2, <1>11, <1>12, <2>2, <2>4
    <3>4. ~OnCycle(k)' /\ DistinctAliases(k)' => \A t \in Targets(k)' \cap Files : Resolves(k, t)'
      BY <1>8, <1>13, <2>2, <2>3, <2>4, <3>1
    <3> QED BY <3>2, <3>3, <3>4 DEF ResolvedAt
  <2>5. CASE k # m
    <3>1. k \in parsed /\ resolvedImports'[k] = resolvedImports[k] /\ ResolvedAt(k)
      BY <1>1, <1>2, <1>7, <2>5 DEF Resolved
    <3>2. \A t : Resolves(k, t)' <=> Resolves(k, t)
      BY <2>3, <3>1 DEF Resolves, AliasesOf
    <3>3. Targets(k) \cap Files \subseteq parsed' \union ToSet(parsingStack)'
      BY <1>2, <1>11, <3>1 DEF ResolvedAt
    <3> QED BY <1>2, <2>2, <3>1, <3>2, <3>3 DEF ResolvedAt
  <2> QED BY <2>4, <2>5
<1>15. Phases'
  <2>1. ordering = "not" /\ moduleOrderList = << >> /\ pending = {}
    BY <1>1, <1>2, NotOrdered
  <2> QED BY <2>1 DEF Phases, cacheModule
<1> QED BY <1>9, <1>10, <1>14, <1>15 DEF IInv

-----------------------------------------------------------------------------
(* The order                                                               *)

\* A list of a finite set has each of its members once.
LEMMA Listing ==
  ASSUME NEW S, IsFiniteSet(S), NEW s \in SetToSeqs(S)
  PROVE  /\ s \in Seq(S) /\ Len(s) = Cardinality(S) /\ ToSet(s) = S
         /\ \A i, j \in DOMAIN s : s[i] = s[j] => i = j
<1> DEFINE c == Cardinality(S)
<1>1. c \in Nat
  BY FS_CardinalityType
<1>2. s \in [1 .. c -> S] /\ \A i, j \in 1 .. c : i # j => s[i] # s[j]
  BY DEF SetToSeqs
<1>3. s \in Injection(1 .. c, S)
  BY <1>2 DEF Injection, IsInjective
<1>4. Cardinality(1 .. c) = c
  BY <1>1, FS_Interval
<1>5. s \in Surjection(1 .. c, S)
  BY <1>3, <1>4, FS_Injection
<1>6. \A x \in S : \E i \in 1 .. c : s[i] = x
  BY <1>5 DEF Surjection
<1>7. s \in Seq(S) /\ Len(s) = c /\ DOMAIN s = 1 .. c
  <2> HIDE DEF c
  <2> QED BY <1>1, <1>2
<1>8. ToSet(s) = S
  <2> HIDE DEF c
  <2> QED BY <1>2, <1>6, <1>7 DEF ToSet
<1> QED BY <1>2, <1>7, <1>8

\* Nothing that the parse left changes while the modules are ordered.
LEMMA SortFrame ==
  ASSUME IInv, UNCHANGED <<imports, parsed, resolvedImports, parsingStack>>
  PROVE  Loaded' /\ Path' /\ Resolved' /\ (Parsed' <=> Parsed)
<1>1. Loaded /\ Path /\ Resolved
  BY DEF IInv
<1>2. Loaded'
  BY <1>1 DEF Loaded
<1>3. Path'
  BY <1>1 DEF Path, Targets, Parsed
<1>4. ASSUME NEW k \in parsed PROVE ResolvedAt(k)'
  <2>1. k \in Files /\ ResolvedAt(k)
    BY <1>1 DEF Loaded, Resolved
  <2>2. Targets(k)' = Targets(k) /\ (OnCycle(k)' <=> OnCycle(k)) /\ (DistinctAliases(k)' <=> DistinctAliases(k))
    BY <2>1, SameText
  <2>3. \A t : Resolves(k, t)' <=> Resolves(k, t)
    BY DEF Resolves, AliasesOf
  <2> QED BY <2>1, <2>2, <2>3 DEF ResolvedAt
<1>5. Resolved'
  BY <1>4 DEF Resolved
<1> QED BY <1>2, <1>3, <1>5 DEF Parsed

\* The counts are those of finite sets.
LEMMA Counts ==
  ASSUME Loaded, NEW n \in parsed
  PROVE  /\ IsFiniteSet(Remaining(n)) /\ Cardinality(Remaining(n)) \in Nat
         /\ Cardinality(Remaining(n)) = 0 <=> Remaining(n) = {}
<1>1. IsFiniteSet(DOMAIN resolvedImports[n]) /\ Remaining(n) \in SUBSET DOMAIN resolvedImports[n]
  BY DEF Loaded, Remaining
<1>2. IsFiniteSet(Remaining(n))
  BY <1>1, FS_Subset
<1> QED BY <1>2, FS_CardinalityType, FS_EmptySet

\* The queue starts with what imports nothing.
LEMMA OrderInv ==
  ASSUME IInv, getModulesInOrder
  PROVE  IInv'
<1> DEFINE S == {n \in parsed : DOMAIN resolvedImports[n] = {}}
<1>1. Loaded /\ Phases /\ Parsed
  BY DEF IInv, getModulesInOrder
<1>2. /\ ordering = "not" /\ ordering' = "kahn" /\ queue' \in SetToSeqs(S)
      /\ indegree' = [n \in parsed |-> Cardinality(DOMAIN resolvedImports[n])]
      /\ UNCHANGED <<imports, parsed, resolvedImports, parsingStack, moduleOrderList, pending>>
  BY DEF getModulesInOrder
<1>3. moduleOrderList = << >> /\ pending = {} /\ moduleOrderList' = << >> /\ pending' = {}
  BY <1>1, <1>2 DEF Phases
<1>4. IsFiniteSet(S)
  <2>1. IsFiniteSet(Files) /\ S \in SUBSET Files
    BY <1>1, ResolverAssumption DEF Loaded
  <2> QED BY <2>1, FS_Subset
<1>5. /\ queue' \in Seq(S) /\ ToSet(queue') = S
      /\ \A i, j \in DOMAIN queue' : queue'[i] = queue'[j] => i = j
  <2> HIDE DEF S
  <2> QED BY <1>2, <1>4, Listing
<1>6. queue' \in Seq(parsed)
  BY <1>5
<1>7. ToSet(moduleOrderList') = {} /\ DOMAIN moduleOrderList' = {}
  BY <1>3 DEF ToSet
<1>8. \A n : Remaining(n)' = DOMAIN resolvedImports[n]
  BY <1>2, <1>7 DEF Remaining
<1>9. ASSUME NEW n \in parsed
      PROVE  indegree'[n] \in Nat /\ indegree'[n] = Cardinality(Remaining(n)')
             /\ (n \in S <=> indegree'[n] = 0)
  <2>1. IsFiniteSet(DOMAIN resolvedImports[n])
    BY <1>1 DEF Loaded
  <2>2. indegree'[n] = Cardinality(DOMAIN resolvedImports[n])
    BY <1>2
  <2> QED BY <1>8, <2>1, <2>2, FS_CardinalityType, FS_EmptySet
<1>10. indegree' \in [parsed -> Nat]
  BY <1>2, <1>9
<1>11. \A n : n \in Out' <=> n \in S
  BY <1>5, <1>7 DEF Out
<1>12. moduleOrderList' \in Seq(parsed')
  BY <1>3
<1>13. (\A n \in parsed : indegree[n] = Cardinality(Remaining(n)) /\ (n \in Out <=> indegree[n] = 0))'
  BY <1>2, <1>9, <1>11
<1>14. Sorting'
  BY <1>2, <1>3, <1>5, <1>6, <1>7, <1>10, <1>12, <1>13 DEF Sorting
<1> QED BY <1>1, <1>2, <1>14, SortFrame DEF IInv, Phases

\* A module that goes out of the queue has nothing left before it.
LEMMA PopInv ==
  ASSUME IInv, popQueue
  PROVE  IInv'
<1> DEFINE M == Len(moduleOrderList)
           q == Len(queue)
<1>1. Loaded /\ Phases /\ Parsed /\ Sorting
  BY DEF IInv, Phases, popQueue
<1>2. PICK h : h = Head(queue)
  OBVIOUS
<1>3. /\ ordering = "kahn" /\ ordering' = "kahn" /\ pending = {} /\ queue # << >>
      /\ moduleOrderList' = Append(moduleOrderList, h) /\ queue' = Tail(queue) /\ pending' = graph(h)
      /\ UNCHANGED <<imports, parsed, resolvedImports, parsingStack, indegree>>
  BY <1>2 DEF popQueue
<1>4. moduleOrderList \in Seq(parsed) /\ queue \in Seq(parsed)
  BY <1>1 DEF Sorting
<1>5. /\ q \in Nat \ {0} /\ DOMAIN queue = 1 .. q /\ h = queue[1] /\ h \in parsed
      /\ M \in Nat /\ DOMAIN moduleOrderList = 1 .. M
  BY <1>2, <1>3, <1>4
<1>6. /\ queue' \in Seq(parsed) /\ DOMAIN queue' = 1 .. q - 1
      /\ \A j \in 1 .. q - 1 : queue'[j] = queue[j + 1]
  BY <1>3, <1>4, <1>5
<1>7. /\ moduleOrderList' \in Seq(parsed) /\ DOMAIN moduleOrderList' = 1 .. M + 1
      /\ moduleOrderList'[M + 1] = h /\ \A i \in 1 .. M : moduleOrderList'[i] = moduleOrderList[i]
  BY <1>3, <1>4, <1>5
<1>8. \A j \in 1 .. q - 1 : j + 1 \in 1 .. q /\ j + 1 # 1
  BY <1>5
<1>9. /\ 1 \in 1 .. q /\ M + 1 \in 1 .. M + 1 /\ M + 1 \notin 1 .. M
      /\ \A i \in 1 .. M : i \in 1 .. M + 1 /\ i < M + 1
      /\ \A i \in 1 .. M + 1 : i \in 1 .. M \/ i = M + 1
  BY <1>5
<1>10. h \notin ToSet(moduleOrderList) /\ \A i \in 1 .. M : moduleOrderList[i] # h
  <2>1. ASSUME NEW i \in 1 .. M PROVE moduleOrderList[i] # h
    <3>1. i \in DOMAIN moduleOrderList /\ 1 \in DOMAIN queue
      BY <1>5, <1>9
    <3> QED BY <1>1, <1>5, <3>1 DEF Sorting
  <2> HIDE DEF M
  <2> QED BY <1>5, <2>1 DEF ToSet
<1>11. ToSet(moduleOrderList') = ToSet(moduleOrderList) \union {h}
  <2> HIDE DEF M
  <2> QED BY <1>5, <1>7, <1>9 DEF ToSet
<1>12. ToSet(queue) = {h} \union ToSet(queue')
  <2>1. \A j \in 1 .. q : j = 1 \/ (j - 1 \in 1 .. q - 1 /\ j - 1 + 1 = j)
    BY <1>5
  <2> HIDE DEF q
  <2>2. ASSUME NEW x \in ToSet(queue) PROVE x \in {h} \union ToSet(queue')
    <3>1. PICK j \in 1 .. q : queue[j] = x
      BY <1>5 DEF ToSet
    <3>2. CASE j = 1
      BY <1>5, <3>1, <3>2
    <3>3. CASE j # 1
      <4>1. j - 1 \in DOMAIN queue' /\ queue'[j - 1] = x
        BY <1>6, <2>1, <3>1, <3>3
      <4> QED BY <4>1 DEF ToSet
    <3> QED BY <3>2, <3>3
  <2>3. ASSUME NEW x \in ToSet(queue') PROVE x \in ToSet(queue)
    <3>1. PICK j \in 1 .. q - 1 : queue'[j] = x
      BY <1>6 DEF ToSet
    <3> QED BY <1>5, <1>6, <1>8, <3>1 DEF ToSet
  <2>4. h \in ToSet(queue)
    BY <1>5, <1>9 DEF ToSet
  <2> QED BY <2>2, <2>3, <2>4
<1>13. \A n : n \in Out' <=> n \in Out
  BY <1>11, <1>12 DEF Out
<1>14. \A e : e \in pending' <=> \E n \in parsed : \E a \in DOMAIN resolvedImports[n] :
                                  e = <<n, a>> /\ resolvedImports[n][a] = h
  BY <1>3 DEF graph, AliasesOf
<1>15. ASSUME NEW n \in parsed PROVE Remaining(n)' = Remaining(n)
  <2>1. ASSUME NEW a \in DOMAIN resolvedImports[n]
        PROVE  a \in Remaining(n)' <=> a \in Remaining(n)
    <3>1. <<n, a>> \in pending' <=> resolvedImports[n][a] = h
      BY <1>14, <2>1
    <3>2. a \in Remaining(n) <=> resolvedImports[n][a] \notin ToSet(moduleOrderList)
      BY <1>3 DEF Remaining
    <3>3. a \in Remaining(n)' <=> \/ resolvedImports[n][a] \notin ToSet(moduleOrderList')
                                  \/ <<n, a>> \in pending'
      BY <1>3 DEF Remaining
    <3> QED BY <1>10, <1>11, <3>1, <3>2, <3>3
  <2>2. Remaining(n)' \subseteq DOMAIN resolvedImports[n] /\ Remaining(n) \subseteq DOMAIN resolvedImports[n]
    BY <1>3 DEF Remaining
  <2> QED BY <2>1, <2>2
<1>16. Remaining(h) = {}
  <2>1. h \in Out
    BY <1>12 DEF Out
  <2>2. Cardinality(Remaining(h)) = 0
    BY <1>1, <1>5, <2>1 DEF Sorting
  <2> QED BY <1>1, <1>5, <2>2, Counts
<1>17. Sorting'
  <2>1. (\A i, j \in DOMAIN moduleOrderList : moduleOrderList[i] = moduleOrderList[j] => i = j)'
    <3>1. \A i, j \in 1 .. M : moduleOrderList[i] = moduleOrderList[j] => i = j
      BY <1>1, <1>5 DEF Sorting
    <3> HIDE DEF M
    <3> QED BY <1>5, <1>7, <1>9, <1>10, <3>1
  <2>2. (\A i, j \in DOMAIN queue : queue[i] = queue[j] => i = j)'
    <3> SUFFICES ASSUME NEW i \in 1 .. q - 1, NEW j \in 1 .. q - 1, queue[i + 1] = queue[j + 1] PROVE i = j
      BY <1>6
    <3>1. i + 1 = j + 1
      BY <1>1, <1>5, <1>8 DEF Sorting
    <3> QED BY <3>1, <1>5
  <2>3. (\A i \in DOMAIN moduleOrderList, j \in DOMAIN queue : moduleOrderList[i] # queue[j])'
    <3> SUFFICES ASSUME NEW i \in 1 .. M + 1, NEW j \in 1 .. q - 1 PROVE moduleOrderList'[i] # queue[j + 1]
      BY <1>6, <1>7
    <3>1. CASE i = M + 1
      <4>1. 1 \in DOMAIN queue /\ j + 1 \in DOMAIN queue /\ j + 1 # 1
        BY <1>5, <1>8, <1>9
      <4>2. queue[1] # queue[j + 1]
        BY <1>1, <4>1 DEF Sorting
      <4> QED BY <1>5, <1>7, <3>1, <4>2
    <3>2. CASE i \in 1 .. M
      <4>1. i \in DOMAIN moduleOrderList /\ j + 1 \in DOMAIN queue
        BY <1>5, <1>8, <3>2
      <4>2. moduleOrderList[i] # queue[j + 1]
        BY <1>1, <4>1 DEF Sorting
      <4> QED BY <1>7, <3>2, <4>2
    <3> QED BY <1>9, <3>1, <3>2
  <2>4. (\A e \in pending : \E n \in parsed : \E a \in DOMAIN resolvedImports[n] :
           e = <<n, a>> /\ resolvedImports[n][a] \in ToSet(moduleOrderList))'
    BY <1>3, <1>11, <1>14
  <2>5. (\A n \in parsed : indegree[n] = Cardinality(Remaining(n)) /\ (n \in Out <=> indegree[n] = 0))'
    <3> SUFFICES ASSUME NEW n \in parsed
                 PROVE  indegree[n] = Cardinality(Remaining(n)') /\ (n \in Out' <=> indegree[n] = 0)
      BY <1>3
    <3>1. PICK R : R = Remaining(n)
      OBVIOUS
    <3>2. Remaining(n)' = R
      BY <1>15, <3>1
    <3>3. indegree[n] = Cardinality(R) /\ (n \in Out <=> indegree[n] = 0)
      BY <1>1, <3>1 DEF Sorting
    <3> QED BY <1>13, <3>2, <3>3
  <2>6. (\A i \in DOMAIN moduleOrderList : \A a \in DOMAIN resolvedImports[moduleOrderList[i]] :
           \E j \in DOMAIN moduleOrderList :
             j < i /\ moduleOrderList[j] = resolvedImports[moduleOrderList[i]][a])'
    <3> SUFFICES ASSUME NEW i \in 1 .. M + 1, NEW a \in DOMAIN resolvedImports[moduleOrderList'[i]]
                 PROVE  \E j \in 1 .. M + 1 : j < i /\ moduleOrderList'[j] = resolvedImports[moduleOrderList'[i]][a]
      <4>1. resolvedImports' = resolvedImports /\ DOMAIN moduleOrderList' = 1 .. M + 1
        BY <1>3, <1>7
      <4> HIDE DEF M
      <4> QED BY <4>1
    <3>1. CASE i = M + 1
      <4>1. resolvedImports[h][a] \in ToSet(moduleOrderList)
        BY <1>7, <1>16, <3>1 DEF Remaining
      <4>2. PICK j \in 1 .. M : moduleOrderList[j] = resolvedImports[h][a]
        BY <1>5, <4>1 DEF ToSet
      <4> HIDE DEF M
      <4> QED BY <1>7, <1>9, <3>1, <4>2
    <3>2. CASE i \in 1 .. M
      <4>1. PICK j \in 1 .. M : j < i /\ moduleOrderList[j] = resolvedImports[moduleOrderList[i]][a]
        BY <1>1, <1>5, <1>7, <3>2 DEF Sorting
      <4> HIDE DEF M
      <4> QED BY <1>7, <1>9, <3>2, <4>1
    <3> QED BY <1>9, <3>1, <3>2
  <2>7. indegree' \in [parsed' -> Nat] /\ moduleOrderList' \in Seq(parsed') /\ queue' \in Seq(parsed')
    BY <1>1, <1>3, <1>6, <1>7 DEF Sorting
  <2> QED BY <2>1, <2>2, <2>3, <2>4, <2>5, <2>6, <2>7 DEF Sorting
<1> QED BY <1>1, <1>3, <1>17, SortFrame DEF IInv, Phases

\* An edge that is visited is counted no more, and its module is queued when it
\* was the last.
LEMMA VisitInv ==
  ASSUME IInv, NEW e \in pending, visitDependent(e)
  PROVE  IInv'
<1> DEFINE q == Len(queue)
           Queued ==
             /\ queue' \in Seq(parsed)
             /\ (\A i, j \in DOMAIN queue : queue[i] = queue[j] => i = j)'
             /\ (\A i \in DOMAIN moduleOrderList, j \in DOMAIN queue : moduleOrderList[i] # queue[j])'
             /\ \A k \in parsed : indegree'[k] = Cardinality(Remaining(k)') /\ (k \in Out' <=> indegree'[k] = 0)
<1>1. Loaded /\ Phases /\ Parsed /\ Sorting
  BY DEF IInv, Phases, visitDependent
<1>2. PICK n \in parsed : \E a \in DOMAIN resolvedImports[n] :
        e = <<n, a>> /\ resolvedImports[n][a] \in ToSet(moduleOrderList)
  BY <1>1 DEF Sorting
<1>3. PICK a \in DOMAIN resolvedImports[n] :
        e = <<n, a>> /\ resolvedImports[n][a] \in ToSet(moduleOrderList)
  BY <1>2
<1>4. /\ ordering = "kahn" /\ ordering' = "kahn" /\ pending' = pending \ {e}
      /\ indegree' = [indegree EXCEPT ![n] = @ - 1]
      /\ queue' = IF indegree[n] = 1 THEN Append(queue, n) ELSE queue
      /\ UNCHANGED <<imports, parsed, resolvedImports, parsingStack, moduleOrderList>>
  BY <1>3 DEF visitDependent
<1>5. moduleOrderList \in Seq(parsed) /\ queue \in Seq(parsed) /\ indegree \in [parsed -> Nat]
  BY <1>1 DEF Sorting
<1>6. \A k \in parsed : indegree[k] = Cardinality(Remaining(k)) /\ (k \in Out <=> indegree[k] = 0)
  BY <1>1 DEF Sorting
<1>7. a \in Remaining(n)
  BY <1>3 DEF Remaining
<1>8. Remaining(n)' = Remaining(n) \ {a}
  BY <1>3, <1>4 DEF Remaining
<1>9. ASSUME NEW k \in parsed, k # n PROVE Remaining(k)' = Remaining(k)
  <2>1. \A b : <<k, b>> \in pending' <=> <<k, b>> \in pending
    BY <1>3, <1>4, <1>9
  <2> QED BY <1>4, <2>1 DEF Remaining
<1>10. indegree[n] \in Nat \ {0} /\ indegree[n] - 1 = Cardinality(Remaining(n)') /\ n \notin Out
  <2>1. IsFiniteSet(Remaining(n)) /\ (Cardinality(Remaining(n)) = 0 <=> Remaining(n) = {})
    BY <1>1, Counts
  <2>2. PICK R : R = Remaining(n)
    OBVIOUS
  <2>3. Cardinality(R \ {a}) = Cardinality(R) - 1
    BY <1>7, <2>1, <2>2, FS_RemoveElement
  <2>4. Remaining(n)' = R \ {a}
    BY <1>8, <2>2
  <2>5. indegree[n] = Cardinality(R) /\ Cardinality(R) # 0
    BY <1>6, <1>7, <2>1, <2>2
  <2> QED BY <1>5, <1>6, <2>3, <2>4, <2>5
<1>11. /\ indegree' \in [parsed -> Nat] /\ indegree'[n] = indegree[n] - 1
       /\ \A k \in parsed : k # n => indegree'[k] = indegree[k]
  <2>1. indegree[n] - 1 \in Nat
    BY <1>10
  <2> QED BY <1>4, <1>5, <2>1
<1>12. q \in Nat /\ DOMAIN queue = 1 .. q
  BY <1>5
<1>13. n \notin ToSet(moduleOrderList) /\ n \notin ToSet(queue)
  BY <1>10 DEF Out
<1>14. ASSUME indegree[n] = 1 PROVE Queued
  <2>1. /\ queue' \in Seq(parsed) /\ DOMAIN queue' = 1 .. q + 1
        /\ queue'[q + 1] = n /\ \A i \in 1 .. q : queue'[i] = queue[i]
    BY <1>4, <1>5, <1>12, <1>14
  <2>2. /\ q + 1 \in 1 .. q + 1
        /\ \A i \in 1 .. q : i \in 1 .. q + 1
        /\ \A i \in 1 .. q + 1 : i \in 1 .. q \/ i = q + 1
    BY <1>12
  <2>3. \A i \in 1 .. q : queue[i] # n
    BY <1>12, <1>13 DEF ToSet
  <2>4. ToSet(queue') = ToSet(queue) \union {n}
    <3> HIDE DEF q
    <3> QED BY <1>12, <2>1, <2>2 DEF ToSet
  <2>5. \A k : k \in Out' <=> k \in Out \/ k = n
    BY <1>4, <2>4 DEF Out
  <2>6. (\A i, j \in DOMAIN queue : queue[i] = queue[j] => i = j)'
    <3> SUFFICES ASSUME NEW i \in 1 .. q + 1, NEW j \in 1 .. q + 1, queue'[i] = queue'[j] PROVE i = j
      BY <2>1
    <3>1. \A k, l \in 1 .. q : queue[k] = queue[l] => k = l
      BY <1>1, <1>12 DEF Sorting
    <3> HIDE DEF q
    <3> QED BY <2>1, <2>2, <2>3, <3>1
  <2>7. (\A i \in DOMAIN moduleOrderList, j \in DOMAIN queue : moduleOrderList[i] # queue[j])'
    <3> SUFFICES ASSUME NEW i \in DOMAIN moduleOrderList, NEW j \in 1 .. q + 1 PROVE moduleOrderList[i] # queue'[j]
      BY <1>4, <2>1
    <3>1. CASE j = q + 1
      BY <1>13, <2>1, <3>1 DEF ToSet
    <3>2. CASE j \in 1 .. q
      <4>1. moduleOrderList[i] # queue[j]
        BY <1>1, <1>12, <3>2 DEF Sorting
      <4> QED BY <2>1, <3>2, <4>1
    <3> QED BY <2>2, <3>1, <3>2
  <2>8. ASSUME NEW k \in parsed
        PROVE  indegree'[k] = Cardinality(Remaining(k)') /\ (k \in Out' <=> indegree'[k] = 0)
    <3>1. CASE k = n
      BY <1>10, <1>11, <1>14, <2>5, <3>1
    <3>2. CASE k # n
      <4>1. PICK R : R = Remaining(k)
        OBVIOUS
      <4>2. Remaining(k)' = R
        BY <1>9, <3>2, <4>1
      <4> QED BY <1>6, <1>11, <2>5, <3>2, <4>1, <4>2
    <3> QED BY <3>1, <3>2
  <2> QED BY <2>1, <2>6, <2>7, <2>8
<1>15. ASSUME indegree[n] # 1 PROVE Queued
  <2>1. queue' = queue
    BY <1>4, <1>15
  <2>2. \A k : k \in Out' <=> k \in Out
    BY <1>4, <2>1 DEF Out
  <2>3. ASSUME NEW k \in parsed
        PROVE  indegree'[k] = Cardinality(Remaining(k)') /\ (k \in Out' <=> indegree'[k] = 0)
    <3>1. CASE k = n
      BY <1>10, <1>11, <1>15, <2>2, <3>1
    <3>2. CASE k # n
      <4>1. PICK R : R = Remaining(k)
        OBVIOUS
      <4>2. Remaining(k)' = R
        BY <1>9, <3>2, <4>1
      <4> QED BY <1>6, <1>11, <2>2, <3>2, <4>1, <4>2
    <3> QED BY <3>1, <3>2
  <2>4. /\ queue' \in Seq(parsed)
        /\ (\A i, j \in DOMAIN queue : queue[i] = queue[j] => i = j)'
        /\ (\A i \in DOMAIN moduleOrderList, j \in DOMAIN queue : moduleOrderList[i] # queue[j])'
    BY <1>1, <1>4, <2>1 DEF Sorting
  <2> QED BY <2>3, <2>4
<1>16. Queued
  BY <1>14, <1>15
<1>17. Sorting'
  <2>1. (\A f \in pending : \E k \in parsed : \E b \in DOMAIN resolvedImports[k] :
           f = <<k, b>> /\ resolvedImports[k][b] \in ToSet(moduleOrderList))'
    BY <1>1, <1>4 DEF Sorting
  <2>2. (\A i \in DOMAIN moduleOrderList : \A b \in DOMAIN resolvedImports[moduleOrderList[i]] :
           \E j \in DOMAIN moduleOrderList :
             j < i /\ moduleOrderList[j] = resolvedImports[moduleOrderList[i]][b])'
    BY <1>1, <1>4 DEF Sorting
  <2>3. (\A i, j \in DOMAIN moduleOrderList : moduleOrderList[i] = moduleOrderList[j] => i = j)'
    BY <1>1, <1>4 DEF Sorting
  <2>4. (\A k \in parsed : indegree[k] = Cardinality(Remaining(k)) /\ (k \in Out <=> indegree[k] = 0))'
    BY <1>4, <1>16
  <2>5. moduleOrderList' \in Seq(parsed') /\ queue' \in Seq(parsed') /\ indegree' \in [parsed' -> Nat]
    BY <1>4, <1>5, <1>11, <1>16
  <2> QED BY <1>16, <2>1, <2>2, <2>3, <2>4, <2>5 DEF Sorting
<1> QED BY <1>1, <1>4, <1>17, SortFrame DEF IInv, Phases

\* What concerns a module that another concerns concerns that one.
LEMMA ReachTrans ==
  ASSUME NEW t \in Files, NEW u \in Reach(t), NEW m \in Reach(u)
  PROVE  m \in Reach(t)
<1> DEFINE S == Reach(t)
<1>1. S \in SUBSET Files
  BY DEF Reach
<1>2. ASSUME NEW k \in Files, Targets(k) \cap S # {} PROVE k \in S
  <2>1. PICK n \in S : n \in Targets(k)
    BY <1>2
  <2> QED BY <2>1, ReachImporter
<1>3. Reach(u) \subseteq S
  <2> HIDE DEF S
  <2>1. u \in S
    BY DEF S
  <2> QED BY <1>1, <1>2, <2>1, ReachLeast
<1> QED BY <1>3

\* Of what is left every module has an import that is left: where a module of it
\* is settled, one of them would close a cycle.
LEMMA LeftIsBehindCycle ==
  ASSUME IInv, ordering = "kahn", pending = {}, queue = << >>,
         NEW m \in parsed, m \notin ToSet(moduleOrderList)
  PROVE  ~Settled(m)
<1> DEFINE U == {u \in parsed : u \notin ToSet(moduleOrderList) /\ m \in Reach(u)}
<1>1. Loaded /\ Resolved /\ Sorting
  BY DEF IInv, Phases
<1>2. parsed \subseteq Files /\ U \in SUBSET Files
  BY <1>1 DEF Loaded
<1>3. m \in U
  BY <1>2, ReachSelf
<1>4. ASSUME NEW u \in U PROVE \E t \in U : t \in Targets(u)
  <2>1. u \notin Out
    BY DEF Out, ToSet
  <2>2. indegree[u] # 0 /\ indegree[u] = Cardinality(Remaining(u))
    BY <1>1, <2>1 DEF Sorting
  <2>3. Remaining(u) # {}
    BY <1>1, <2>2, Counts
  <2>4. PICK a \in DOMAIN resolvedImports[u] : resolvedImports[u][a] \notin ToSet(moduleOrderList)
    BY <2>3 DEF Remaining
  <2>5. PICK t : t = resolvedImports[u][a]
    OBVIOUS
  <2>6. t \in Targets(u) /\ t \in parsed
    BY <1>1, <2>5 DEF Resolved, ResolvedAt
  <2>7. u \in Reach(t)
    BY <1>2, <2>6, ReachSelf, ReachImporter
  <2>8. m \in Reach(t)
    BY <1>2, <2>6, <2>7, ReachTrans
  <2> QED BY <2>4, <2>5, <2>6, <2>8
<1>5. \E u \in U : OnCycle(u)
  <2> HIDE DEF U
  <2> QED BY <1>2, <1>3, <1>4, HasCycle
<1> QED BY <1>5 DEF Settled

\* What is left comes last.
LEMMA PlaceInv ==
  ASSUME IInv, placeCyclic
  PROVE  IInv'
<1> DEFINE M == Len(moduleOrderList)
           R == parsed \ ToSet(moduleOrderList)
           c == Cardinality(R)
<1>1. Loaded /\ Phases /\ Parsed /\ Sorting
  BY DEF IInv, Phases, placeCyclic
<1>2. /\ ordering = "kahn" /\ ordering' = "done" /\ pending = {} /\ queue = << >>
      /\ UNCHANGED <<imports, parsed, resolvedImports, parsingStack, queue, pending>>
  BY DEF placeCyclic
<1>3. PICK rest \in SetToSeqs(R) : moduleOrderList' = moduleOrderList \o rest
  BY DEF placeCyclic
<1>4. IsFiniteSet(parsed) /\ IsFiniteSet(R) /\ c \in Nat
  <2>1. IsFiniteSet(Files) /\ parsed \in SUBSET Files /\ R \in SUBSET Files
    BY <1>1, ResolverAssumption DEF Loaded
  <2>2. IsFiniteSet(parsed) /\ IsFiniteSet(R)
    BY <2>1, FS_Subset
  <2> QED BY <2>2, FS_CardinalityType
<1>5. /\ rest \in Seq(R) /\ Len(rest) = c /\ ToSet(rest) = R
      /\ \A i, j \in DOMAIN rest : rest[i] = rest[j] => i = j
  <2> HIDE DEF R
  <2> QED BY <1>4, Listing
<1>6. moduleOrderList \in Seq(parsed) /\ rest \in Seq(parsed)
  BY <1>1, <1>5 DEF Sorting
<1>7. M \in Nat /\ DOMAIN moduleOrderList = 1 .. M /\ DOMAIN rest = 1 .. c
  <2> HIDE DEF c
  <2> QED BY <1>4, <1>5, <1>6
<1>8. /\ moduleOrderList' \in Seq(parsed) /\ DOMAIN moduleOrderList' = 1 .. M + c /\ Len(moduleOrderList') = M + c
      /\ \A i \in 1 .. M : moduleOrderList'[i] = moduleOrderList[i]
      /\ \A i \in 1 .. c : moduleOrderList'[M + i] = rest[i]
  <2> HIDE DEF c
  <2> QED BY <1>3, <1>4, <1>5, <1>6, <1>7
<1>9. /\ \A i \in 1 .. M : i \in 1 .. M + c
      /\ \A i \in 1 .. c : M + i \in 1 .. M + c
      /\ \A i \in 1 .. M + c : i \in 1 .. M \/ (i - M \in 1 .. c /\ M + (i - M) = i)
  <2> HIDE DEF M, c
  <2> QED BY <1>4, <1>7
<1>10. \A i \in 1 .. M : moduleOrderList'[i] \in ToSet(moduleOrderList)
  BY <1>7, <1>8 DEF ToSet
<1>11. \A i \in 1 .. M + c : i \in 1 .. M \/ moduleOrderList'[i] \in R
  <2> HIDE DEF M, c, R
  <2> QED BY <1>5, <1>7, <1>8, <1>9 DEF ToSet
<1>20. \A i, j \in 1 .. M : moduleOrderList[i] = moduleOrderList[j] => i = j
  BY <1>1, <1>7 DEF Sorting
<1>12. \A i, j \in 1 .. M + c : moduleOrderList'[i] = moduleOrderList'[j] => i = j
  <2> SUFFICES ASSUME NEW i \in 1 .. M + c, NEW j \in 1 .. M + c, moduleOrderList'[i] = moduleOrderList'[j]
               PROVE  i = j
    OBVIOUS
  <2>1. CASE i \in 1 .. M /\ j \in 1 .. M
    <3>1. moduleOrderList'[i] = moduleOrderList[i] /\ moduleOrderList'[j] = moduleOrderList[j]
      BY <1>8, <2>1
    <3> QED BY <1>20, <2>1, <3>1
  <2>2. CASE i \in 1 .. M /\ j \notin 1 .. M
    BY <1>10, <1>11, <2>2
  <2>3. CASE i \notin 1 .. M /\ j \in 1 .. M
    BY <1>10, <1>11, <2>3
  <2>4. CASE i \notin 1 .. M /\ j \notin 1 .. M
    <3>1. /\ i - M \in 1 .. c /\ M + (i - M) = i
          /\ j - M \in 1 .. c /\ M + (j - M) = j
      BY <1>9, <2>4
    <3>2. rest[i - M] = rest[j - M]
      BY <1>8, <3>1
    <3>3. i - M = j - M
      BY <1>5, <1>7, <3>1, <3>2
    <3> QED BY <3>1, <3>3
  <2> QED BY <2>1, <2>2, <2>3, <2>4
<1>13. ToSet(moduleOrderList') = parsed
  <2>1. ASSUME NEW x \in parsed PROVE \E i \in 1 .. M + c : moduleOrderList'[i] = x
    <3>1. CASE x \in ToSet(moduleOrderList)
      <4>1. PICK i \in 1 .. M : moduleOrderList[i] = x
        BY <1>7, <3>1 DEF ToSet
      <4> HIDE DEF M, c
      <4> QED BY <1>8, <1>9, <4>1
    <3>2. CASE x \notin ToSet(moduleOrderList)
      <4>1. x \in ToSet(rest)
        BY <1>5, <3>2
      <4>2. PICK i \in 1 .. c : rest[i] = x
        BY <1>7, <4>1 DEF ToSet
      <4> HIDE DEF M, c
      <4> QED BY <1>8, <1>9, <4>2
    <3> QED BY <3>1, <3>2
  <2>2. \A i \in 1 .. M + c : moduleOrderList'[i] \in parsed
    <3> HIDE DEF M, c
    <3> QED BY <1>8
  <2> HIDE DEF M, c
  <2> QED BY <1>8, <2>1, <2>2 DEF ToSet
<1>14. M + c = Cardinality(parsed)
  <2> HIDE DEF M, c
  <2>1. moduleOrderList' \in [1 .. M + c -> parsed]
    BY <1>8
  <2>2. moduleOrderList' \in Injection(1 .. M + c, parsed)
    BY <1>8, <1>12, <2>1 DEF Injection, IsInjective
  <2>3. moduleOrderList' \in Surjection(1 .. M + c, parsed)
    BY <1>8, <1>13, <2>1 DEF Surjection, ToSet
  <2>4. Cardinality(1 .. M + c) = Cardinality(parsed)
    BY <1>4, <2>2, <2>3, FS_Injection
  <2>5. Cardinality(1 .. M + c) = M + c
    <3>1. 1 \in Int /\ M + c \in Int /\ M + c - 1 + 1 = M + c /\ (1 > M + c => M + c = 0)
      BY <1>4, <1>7
    <3> QED BY <1>4, <1>7, FS_Interval
  <2> QED BY <2>4, <2>5
<1>15. ASSUME NEW m \in parsed, Settled(m)', NEW a \in DOMAIN resolvedImports[m]
       PROVE  Before(resolvedImports[m][a], m)'
  <2>1. Settled(m)
    <3>1. parsed \subseteq Files
      BY <1>1 DEF Loaded
    <3> QED BY <1>2, <1>15, <3>1, SameText DEF Settled
  <2>2. m \in ToSet(moduleOrderList)
    BY <1>2, <2>1, LeftIsBehindCycle
  <2>3. PICK i \in 1 .. M : moduleOrderList[i] = m
    BY <1>7, <2>2 DEF ToSet
  <2>4. PICK j \in 1 .. M : j < i /\ moduleOrderList[j] = resolvedImports[m][a]
    BY <1>1, <1>7, <2>3 DEF Sorting
  <2> HIDE DEF M, c
  <2>5. i \in DOMAIN moduleOrderList' /\ j \in DOMAIN moduleOrderList'
    BY <1>8, <1>9
  <2> QED BY <1>2, <1>8, <2>3, <2>4, <2>5 DEF Before
<1>16. Sorted'
  <2>1. (\A m \in parsed : Settled(m) =>
           \A a \in DOMAIN resolvedImports[m] : Before(resolvedImports[m][a], m))'
    BY <1>2, <1>15
  <2>2. ToSet(moduleOrderList') = parsed' /\ Len(moduleOrderList') = Cardinality(parsed')
    BY <1>2, <1>8, <1>13, <1>14
  <2> QED BY <2>1, <2>2 DEF Sorted
<1> QED BY <1>1, <1>2, <1>16, SortFrame DEF IInv, Phases

-----------------------------------------------------------------------------
(* Every step                                                              *)

LEMMA InitInv == Init => IInv
<1> SUFFICES ASSUME Init PROVE IInv
  OBVIOUS
<1>1. /\ imports \in Projects /\ parsed = {} /\ resolvedImports = << >> /\ parsingStack = << >>
      /\ moduleOrderList = << >> /\ ordering = "not" /\ pending = {}
  BY DEF Init, ResolverInit
<1>2. DOMAIN << >> = {} /\ << >> \in Seq(Files)
  OBVIOUS
<1>3. Loaded
  BY <1>1, <1>2 DEF Loaded
<1>4. Path
  BY <1>1, <1>2 DEF Path, Parsed
<1>5. Resolved /\ Phases
  BY <1>1 DEF Resolved, Phases
<1> QED BY <1>3, <1>4, <1>5 DEF IInv

\* The watcher, the editor and the starts and stops leave the resolver alone.
LEMMA ResolverOrWatcher == [Next]_vars => ResolverStep \/ UNCHANGED resolver
<1> SUFFICES ASSUME [Next]_vars PROVE ResolverStep \/ UNCHANGED resolver
  OBVIOUS
<1>1. CASE Thread
  BY <1>1 DEF Thread, wake, endOfPass, handleHotReloadChange, visit
<1>2. CASE Editor
  BY <1>2 DEF Editor, Tick, Write, Delete
<1>3. CASE Loading
  BY <1>3 DEF Loading, ResolverStep
<1>4. CASE Caching
  BY <1>4 DEF Caching, ResolverStep
<1>5. CASE Ordering
  BY <1>5 DEF Ordering, computeTopologicalOrder, ResolverStep
<1>6. CASE start \/ stop \/ joined
  BY <1>6 DEF start, stop, joined
<1>7. CASE \E f \in Edited : watchFile(f) \/ unwatchFile(f)
  BY <1>7 DEF watchFile, unwatchFile
<1>8. CASE UNCHANGED vars
  BY <1>8 DEF vars
<1> QED BY <1>1, <1>2, <1>3, <1>4, <1>5, <1>6, <1>7, <1>8 DEF Next, Main

LEMMA NextInv == IInv /\ [Next]_vars => IInv'
<1> SUFFICES ASSUME IInv, [Next]_vars PROVE IInv'
  OBVIOUS
<1>1. CASE \E m \in Files : pushParsing(m)
  BY <1>1, PushInv
<1>2. CASE cacheModule
  BY <1>2, CacheInv
<1>3. CASE getModulesInOrder
  BY <1>3, OrderInv
<1>4. CASE popQueue
  BY <1>4, PopInv
<1>5. CASE \E e \in pending : visitDependent(e)
  BY <1>5, VisitInv
<1>6. CASE placeCyclic
  BY <1>6, PlaceInv
<1>7. CASE UNCHANGED resolver
  <2>1. /\ UNCHANGED <<imports, parsed, resolvedImports, parsingStack>>
        /\ UNCHANGED <<moduleOrderList, ordering, queue, indegree, pending>>
    BY <1>7 DEF resolver
  <2>2. Phases' <=> Phases
    <3>1. Sorting' <=> Sorting
      <4>1. \A n : Remaining(n)' = Remaining(n)
        BY <2>1 DEF Remaining
      <4>2. Out' = Out
        BY <2>1 DEF Out
      <4> QED BY <2>1, <4>1, <4>2 DEF Sorting
    <3>2. (parsed \subseteq Files) => (Sorted' <=> Sorted)
      <4>1. (parsed \subseteq Files) => \A m \in parsed : Settled(m)' <=> Settled(m)
        BY <2>1, SameText DEF Settled
      <4>2. \A m, n : Before(m, n)' <=> Before(m, n)
        BY <2>1 DEF Before
      <4> QED BY <2>1, <4>1, <4>2 DEF Sorted
    <3>3. parsed \subseteq Files
      BY DEF IInv, Loaded
    <3> QED BY <2>1, <3>1, <3>2, <3>3 DEF Phases, Parsed
  <2> QED BY <2>1, <2>2, SortFrame DEF IInv
<1> QED BY <1>1, <1>2, <1>3, <1>4, <1>5, <1>6, <1>7, ResolverOrWatcher DEF ResolverStep

-----------------------------------------------------------------------------
(* What it comes to                                                        *)

\* A sorted list puts a module after its imports.
LEMMA OrderFromInv == IInv => OrderRespectsImports
<1> SUFFICES ASSUME IInv, ordering = "done" PROVE
       /\ ToSet(moduleOrderList) = parsed /\ Len(moduleOrderList) = Cardinality(parsed)
       /\ \A m \in parsed : Settled(m) =>
            \A t \in Targets(m) \cap Files : Resolves(m, t) \/ DistinctAliases(m) => Before(t, m)
  BY DEF OrderRespectsImports
<1>1. Loaded /\ Resolved /\ Sorted
  BY DEF IInv, Phases
<1>2. ASSUME NEW m \in parsed, Settled(m), NEW t \in Targets(m) \cap Files, Resolves(m, t) \/ DistinctAliases(m)
      PROVE  Before(t, m)
  <2>1. m \in Files /\ ResolvedAt(m)
    BY <1>1 DEF Loaded, Resolved
  <2>2. ~OnCycle(m)
    BY <1>2, <2>1, ReachSelf DEF Settled
  <2>3. Resolves(m, t)
    BY <1>2, <2>1, <2>2 DEF ResolvedAt
  <2>4. PICK a \in DOMAIN resolvedImports[m] : resolvedImports[m][a] = t
    BY <2>3 DEF Resolves, AliasesOf
  <2> QED BY <1>1, <1>2, <2>4 DEF Sorted
<1> QED BY <1>1, <1>2 DEF Sorted

\* The dependents of a module are what imports it, where every import resolved.
LEMMA Dependents ==
  ASSUME IInv, Parsed, Plain
  PROVE  /\ \A k \in parsed : Targets(k) \cap Files \subseteq parsed
         /\ \A m \in Files : dependents(m) = {n \in parsed : m \in Targets(n)}
<1>1. Loaded /\ Resolved /\ ToSet(parsingStack) = {}
  BY DEF IInv, Parsed, ToSet
<1>2. \A k \in parsed : Targets(k) \cap Files \subseteq parsed
  BY <1>1 DEF Resolved, ResolvedAt
<1>3. ASSUME NEW m \in Files, NEW n \in parsed PROVE AliasesOf(n, m) # {} <=> m \in Targets(n)
  <2>1. ResolvedAt(n) /\ ~OnCycle(n) /\ DistinctAliases(n)
    BY <1>1 DEF Resolved, Plain
  <2>2. m \in Targets(n) => Resolves(n, m)
    BY <2>1 DEF ResolvedAt
  <2>3. ASSUME NEW a \in AliasesOf(n, m) PROVE m \in Targets(n)
    BY <2>1 DEF AliasesOf, ResolvedAt
  <2> QED BY <2>2, <2>3 DEF Resolves
<1> QED BY <1>2, <1>3 DEF dependents

\* What the graph names is what imports the module, directly or not.
LEMMA AffectedFromInv == IInv => AffectedIsImporters
<1> SUFFICES ASSUME IInv, Parsed, Plain, NEW m \in parsed PROVE getAffected(m) = Importers(m)
  BY DEF AffectedIsImporters
<1>1. parsed \subseteq Files
  BY DEF IInv, Loaded
<1>2. /\ \A k \in parsed : Targets(k) \cap Files \subseteq parsed
      /\ \A k \in Files : dependents(k) = {n \in parsed : k \in Targets(n)}
  BY Dependents
<1>3. ASSUME NEW n \in getAffected(m) PROVE n \in Importers(m)
  <2> DEFINE S == Importers(m)
  <2>1. S \in SUBSET parsed /\ m \in S
    BY <1>1, ReachSelf DEF Importers
  <2>2. ASSUME NEW k \in S, NEW d \in dependents(k) PROVE d \in S
    <3>1. k \in Reach(m) /\ k \in Files
      BY <1>1 DEF Importers
    <3>2. d \in parsed /\ k \in Targets(d)
      BY <1>2, <3>1
    <3>3. d \in Reach(m)
      BY <1>1, <3>1, <3>2, ReachImporter
    <3> QED BY <3>2, <3>3 DEF Importers
  <2> HIDE DEF S
  <2>3. n \in S
    BY <2>1, <2>2 DEF getAffected
  <2> QED BY <2>3 DEF S
<1>4. ASSUME NEW n \in Importers(m) PROVE n \in getAffected(m)
  <2> SUFFICES ASSUME NEW S \in SUBSET parsed, m \in S, \A k \in S : dependents(k) \subseteq S
               PROVE  n \in S
    BY DEF getAffected, Importers
  <2> DEFINE T == S \union (Files \ parsed)
  <2>1. T \in SUBSET Files /\ m \in T
    BY <1>1
  <2>2. ASSUME NEW k \in Files, Targets(k) \cap T # {} PROVE k \in T
    <3> SUFFICES ASSUME k \in parsed PROVE k \in S
      OBVIOUS
    <3>1. PICK t \in T : t \in Targets(k)
      BY <2>2
    <3>2. t \in S
      BY <1>1, <1>2, <3>1
    <3>3. t \in Files
      BY <1>1, <3>2
    <3>4. k \in dependents(t)
      BY <1>2, <3>1, <3>3
    <3> QED BY <3>2, <3>4
  <2>3. Reach(m) \subseteq T
    <3> HIDE DEF T
    <3> QED BY <2>1, <2>2, ReachLeast
  <2> QED BY <2>3 DEF Importers
<1> QED BY <1>3, <1>4

\* Every module comes once, after what it imports unless a cycle is behind it,
\* and what is told of a change is what the change concerns: for any package of
\* finitely many files, parsed and sorted in any order.
THEOREM ModulesAlwaysSound == Spec => []ModulesSound
<1>1. IInv => ModulesSound
  BY OrderFromInv, AffectedFromInv DEF ModulesSound
<1> QED BY InitInv, NextInv, <1>1, PTL DEF Spec
=============================================================================
