-------------------------- MODULE ExecutionProofs ---------------------------
(***************************************************************************)
(* The compiler's blocks end, with which the code of any body is Compiled: *)
(* the rest of the argument of EmitterProofs.  Then the machine runs it.   *)
(*                                                                         *)
(* The machine keeps to what the code's states say.  A frame Matches a     *)
(* state if its values are what the state knows of them (Typed), and the   *)
(* allocated objects are, each exactly once, those of the places that the  *)
(* state holds and of the entries of the stack that own one (Exact).  No   *)
(* object has two owners, so none is freed twice; and where a function     *)
(* returns its state holds nothing, so nothing is left.                    *)
(*                                                                         *)
(* Each instruction that fits a state that the frame matches leaves a      *)
(* frame that matches the state after it (the lemmas ...Moves).            *)
(***************************************************************************)
EXTENDS Execution, EmitterProofs, FiniteSetTheorems

-----------------------------------------------------------------------------
(* Blocks: what holds where one ends.                                      *)

\* The first h scopes.
Popped(s, h) == [s EXCEPT !.scopes = SubSeq(@, 1, h)]

\* popScope leaves the scopes but the last.
LEMMA PopsOne ==
  ASSUME NEW s, SlotsOK(s), NEW h \in 1 .. Len(s.scopes)
  PROVE  /\ PopScope(Popped(s, h)) = Popped(s, h - 1)
         /\ h = Len(s.scopes) => PopScope(s) = Popped(s, h - 1)
<1>1. s.scopes \in Seq(Seq(Nat \ {0})) /\ Len(s.scopes) \in Nat
  BY DEF SlotsOK
<1>2. PICK f, n : f = s.scopes /\ n = Len(s.scopes)
  OBVIOUS
<1>3. f \in Seq(Seq(Nat \ {0})) /\ n = Len(f) /\ n \in Nat /\ h \in 1 .. n
  BY <1>1, <1>2
<1>4. h \in 0 .. n /\ h - 1 \in 0 .. n /\ h - 1 \in 0 .. h /\ h - 1 <= h
  BY <1>3
<1>5. /\ SubSeq(f, 1, h) \in Seq(Seq(Nat \ {0})) /\ Len(SubSeq(f, 1, h)) = h
      /\ \A i \in 1 .. h : SubSeq(f, 1, h)[i] = f[i]
  BY <1>3, <1>4, Shortened
<1>6. /\ SubSeq(f, 1, h - 1) \in Seq(Seq(Nat \ {0})) /\ Len(SubSeq(f, 1, h - 1)) = h - 1
      /\ \A i \in 1 .. h - 1 : SubSeq(f, 1, h - 1)[i] = f[i]
  BY <1>3, <1>4, Shortened
<1>7. PICK u, v : u = SubSeq(f, 1, h) /\ v = SubSeq(f, 1, h - 1)
  OBVIOUS
<1>8. /\ SubSeq(u, 1, h - 1) \in Seq(Seq(Nat \ {0})) /\ Len(SubSeq(u, 1, h - 1)) = h - 1
      /\ \A i \in 1 .. h - 1 : SubSeq(u, 1, h - 1)[i] = u[i]
  <2>1. u \in Seq(Seq(Nat \ {0})) /\ h - 1 \in 0 .. Len(u)
    BY <1>4, <1>5, <1>7
  <2> QED BY <2>1, Shortened
<1>9. \A i \in 1 .. h - 1 : i \in 1 .. h
  BY <1>3
<1>10. \A i \in 1 .. h - 1 : SubSeq(u, 1, h - 1)[i] = v[i]
  BY <1>5, <1>6, <1>7, <1>8, <1>9
<1>11. SubSeq(u, 1, h - 1) = v
  <2>1. PICK w : w = SubSeq(u, 1, h - 1)
    OBVIOUS
  <2>2. w \in Seq(Seq(Nat \ {0})) /\ v \in Seq(Seq(Nat \ {0})) /\ Len(w) = Len(v) /\ \A i \in 1 .. Len(w) : w[i] = v[i]
    BY <1>6, <1>7, <1>8, <1>10, <2>1
  <2>3. w = v
    BY <2>2, SeqEqual
  <2> QED BY <2>1, <2>3
<1>12. Front(u) = v
  BY <1>5, <1>7, <1>11 DEF Front
<1>13. h = n => Front(f) = v
  BY <1>3, <1>7 DEF Front
<1>14. /\ Popped(s, h).scopes = u /\ Popped(s, h - 1) = [s EXCEPT !.scopes = v]
  BY <1>2, <1>7 DEF Popped, SlotsOK
<1>15. PopScope(Popped(s, h)) = Popped(s, h - 1)
  <2>1. PopScope(Popped(s, h)) = [Popped(s, h) EXCEPT !.scopes = Front(Popped(s, h).scopes)]
    BY DEF PopScope
  <2>2. Popped(s, h) = [s EXCEPT !.scopes = u]
    BY <1>2, <1>7 DEF Popped
  <2>3. PopScope(Popped(s, h)) = [Popped(s, h) EXCEPT !.scopes = v]
    BY <1>12, <1>14, <2>1
  <2>4. \A x, y : [[s EXCEPT !.scopes = x] EXCEPT !.scopes = y] = [s EXCEPT !.scopes = y]
    BY DEF SlotsOK
  <2> QED BY <1>14, <2>2, <2>3, <2>4
<1>16. h = Len(s.scopes) => PopScope(s) = Popped(s, h - 1)
  BY <1>2, <1>13, <1>14 DEF PopScope
<1> QED BY <1>15, <1>16

\* The blocks outside the one that ends, the innermost of which may transfer control.
Outer(todos, b) == [Front(todos) EXCEPT ![Len(Front(todos))].transfers = @ \/ b]

\* The blocks once the innermost has ended.
LEMMA OuterBlocks ==
  ASSUME NEW todos \in Seq(Todo), Len(todos) >= 2, NEW b \in BOOLEAN,
         ~todos[Len(todos) - 1].transfers
  PROVE  /\ Outer(todos, b) \in Seq(Todo) /\ Len(Outer(todos, b)) = Len(todos) - 1
         /\ \A k \in 1 .. Len(todos) - 2 : Outer(todos, b)[k] = todos[k]
         /\ Outer(todos, b)[Len(todos) - 1] = [todos[Len(todos) - 1] EXCEPT !.transfers = b]
         /\ Outer(todos, FALSE) = Front(todos)
<1>0. PICK n : n = Len(todos)
  OBVIOUS
<1>1. n \in Nat /\ n - 1 \in 0 .. n /\ n - 1 \in 1 .. n /\ n - 1 \in 1 .. n - 1 /\ n - 1 \in Nat /\ ~todos[n - 1].transfers
  BY <1>0
<1>2. PICK f, m : f = Front(todos) /\ m = n - 1
  OBVIOUS
<1>3. f \in Seq(Todo) /\ Len(f) = m /\ \A i \in 1 .. m : f[i] = todos[i]
  <2>1. f = SubSeq(todos, 1, m)
    BY <1>0, <1>2 DEF Front
  <2> QED BY <1>0, <1>1, <1>2, <2>1, Shortened
<1>4. PICK t : t = todos[m]
  OBVIOUS
<1>5. t \in Todo /\ ~t.transfers /\ f[m] = t
  BY <1>0, <1>1, <1>2, <1>3, <1>4
<1>6. t.transfers = FALSE
  BY <1>5 DEF Todo
<1>7. ASSUME NEW d \in BOOLEAN
      PROVE  Outer(todos, d) = [f EXCEPT ![m] = [t EXCEPT !.transfers = d]]
  BY <1>2, <1>3, <1>5, <1>6 DEF Outer
<1>8. [t EXCEPT !.transfers = FALSE] = t
  BY <1>5, <1>6 DEF Todo
<1>9. ASSUME NEW d \in BOOLEAN
      PROVE  /\ Outer(todos, d) \in Seq(Todo) /\ Len(Outer(todos, d)) = m
             /\ \A i \in 1 .. m : Outer(todos, d)[i] = IF i = m THEN [t EXCEPT !.transfers = d] ELSE f[i]
  <2>1. PICK e : e = [t EXCEPT !.transfers = d]
    OBVIOUS
  <2>2. e \in Todo
    BY <1>5, <2>1 DEF Todo
  <2>3. m \in 1 .. Len(f)
    BY <1>1, <1>2, <1>3
  <2>4. /\ [f EXCEPT ![m] = e] \in Seq(Todo) /\ Len([f EXCEPT ![m] = e]) = Len(f)
        /\ \A i \in 1 .. Len(f) : [f EXCEPT ![m] = e][i] = IF i = m THEN e ELSE f[i]
    BY <1>3, <2>2, <2>3, ExceptSeq
  <2>5. Outer(todos, d) = [f EXCEPT ![m] = e]
    BY <1>7, <2>1
  <2> QED BY <1>3, <2>1, <2>4, <2>5
<1>10. Outer(todos, FALSE) = f
  <2>1. PICK w : w = Outer(todos, FALSE)
    OBVIOUS
  <2>2. w \in Seq(Todo) /\ Len(w) = m /\ \A i \in 1 .. m : w[i] = f[i]
    BY <1>5, <1>8, <1>9, <2>1
  <2>3. w = f
    BY <1>3, <2>2, SeqEqual
  <2> QED BY <2>1, <2>3
<1>11. \A k \in 1 .. n - 2 : k \in 1 .. m /\ k # m
  BY <1>1, <1>2
<1>12. \A k \in 1 .. n - 2 : Outer(todos, b)[k] = todos[k]
  BY <1>3, <1>9, <1>11
<1>13. Outer(todos, b)[n - 1] = [todos[n - 1] EXCEPT !.transfers = b]
  BY <1>1, <1>2, <1>4, <1>9
<1> QED BY <1>0, <1>2, <1>9, <1>10, <1>12, <1>13

\* The level of the block that ends is left: what is outside it nests.
Leaves(s, ls, todos, decls, g, lvl, heads, b, g2, lvl2) ==
  LET n == Len(g) IN
  /\ Nest(Popped(s, g[n - 1].h), SubSeq(ls, 1, g[n - 1].n), Outer(todos, b), SubSeq(decls, 1, g[n - 1].d), g2, lvl2)
  /\ HeadsOK(Outer(todos, b), g2, heads)
  /\ Len(g2) = n - 1 /\ g2[n - 1] = g[n - 1] /\ Len(Outer(todos, b)) = n - 1 /\ Outer(todos, b)[n - 1].transfers = b
  /\ Exits(g2, lvl2) = Unpatched(Exits(g, lvl), Pending(ls, todos[n], g[n]))

\* A block is left: the blocks outside it nest as they did.
LEMMA NestLeave ==
  ASSUME NEW s, NEW ls, NEW todos, NEW decls, NEW g, NEW lvl, NEW heads, Nest(s, ls, todos, decls, g, lvl),
         HeadsOK(todos, g, heads), Len(g) >= 2, NEW b \in BOOLEAN
  PROVE  \E g2, lvl2 : Leaves(s, ls, todos, decls, g, lvl, heads, b, g2, lvl2)
<1>1. PICK n, q : n = Len(g) /\ q = g[n - 1]
  OBVIOUS
<1>2. n \in Nat /\ n >= 2 /\ n - 1 \in 1 .. n /\ n \in 1 .. n /\ n - 1 < n /\ n = Len(todos)
  BY <1>1, NestTypes
<1>3. /\ todos \in Seq(Todo) /\ ls \in Seq(Loops) /\ decls \in Seq([Names -> Nat]) /\ SlotsOK(s) /\ DeclaredOK(s, decls)
  BY DEF Nest, Shaped, DeclaredOK
<1>4. ~todos[n - 1].transfers
  BY <1>1, <1>2 DEF Nest, Ordered
<1>5. /\ q.h \in Nat /\ q.h <= Len(s.scopes) /\ q.d \in Nat /\ q.d <= Len(decls) /\ q.n \in Nat /\ q.n <= Len(ls)
  BY <1>1, <1>2, NestBounds
<1>6. q.h \in 0 .. Len(s.scopes) /\ q.d \in 0 .. Len(decls) /\ q.n \in 0 .. Len(ls)
  <2>1. PICK x, y, z, u, v, w : x = q.h /\ y = q.d /\ z = q.n /\ u = Len(s.scopes) /\ v = Len(decls) /\ w = Len(ls)
    OBVIOUS
  <2>2. u \in Nat /\ v \in Nat /\ w \in Nat
    BY <1>3, <2>1 DEF SlotsOK
  <2>3. x \in 0 .. u /\ y \in 0 .. v /\ z \in 0 .. w
    BY <1>5, <2>1, <2>2
  <2> QED BY <2>1, <2>3
<1>7. PICK s2 : s2 = Popped(s, q.h)
  OBVIOUS
<1>8. SlotsOK(s2) /\ s2.types = s.types /\ s2.of = s.of /\ Len(s2.scopes) = q.h /\ \A i \in 1 .. q.h : s2.scopes[i] = s.scopes[i]
  <2>1. s2 = [s EXCEPT !.scopes = SubSeq(s.scopes, 1, q.h)]
    BY <1>7 DEF Popped
  <2> QED BY <1>3, <1>6, <2>1, SlotsKept
<1>9. PICK d2, l2, t2 : d2 = SubSeq(decls, 1, q.d) /\ l2 = SubSeq(ls, 1, q.n) /\ t2 = Outer(todos, b)
  OBVIOUS
<1>10. d2 \in Seq([Names -> Nat]) /\ Len(d2) = q.d /\ \A i \in 1 .. q.d : d2[i] = decls[i]
  BY <1>3, <1>6, <1>9, Shortened
<1>11. l2 \in Seq(Loops) /\ Len(l2) = q.n /\ \A i \in 1 .. q.n : l2[i] = ls[i]
  BY <1>3, <1>6, <1>9, Shortened
<1>12. /\ t2 \in Seq(Todo) /\ Len(t2) = n - 1 /\ \A k \in 1 .. n - 2 : t2[k] = todos[k]
       /\ t2[n - 1] = [todos[n - 1] EXCEPT !.transfers = b]
  <2>1. /\ Outer(todos, b) \in Seq(Todo) /\ Len(Outer(todos, b)) = Len(todos) - 1
        /\ \A k \in 1 .. Len(todos) - 2 : Outer(todos, b)[k] = todos[k]
        /\ Outer(todos, b)[Len(todos) - 1] = [todos[Len(todos) - 1] EXCEPT !.transfers = b]
    <3>1. Len(todos) >= 2 /\ ~todos[Len(todos) - 1].transfers
      BY <1>2, <1>4
    <3> QED BY <1>3, <3>1, OuterBlocks
  <2> QED BY <1>2, <1>9, <2>1
<1>13. DeclaredOK(s2, d2)
  <2>1. \A i \in 1 .. q.d : i \in 1 .. Len(decls)
    BY <1>1, <1>2, NestBounds
  <2> SUFFICES ASSUME NEW i \in 1 .. q.d, NEW nm \in Names, d2[i][nm] # 0
               PROVE  d2[i][nm] = s2.of[nm] /\ d2[i][nm] \in 1 .. Len(s2.types)
    BY <1>10 DEF DeclaredOK
  <2>2. i \in 1 .. Len(decls) /\ d2[i] = decls[i]
    BY <1>10, <2>1
  <2>3. decls[i][nm] = s.of[nm] /\ decls[i][nm] \in 1 .. Len(s.types)
    BY <1>3, <2>2 DEF DeclaredOK
  <2> QED BY <1>8, <2>2, <2>3
<1>20. Pops(n, s, ls, todos, decls, g, lvl, s2, d2, l2, t2, b)
  BY <1>1, <1>2, <1>8, <1>10, <1>11, <1>12, <1>13 DEF Pops
<1>14. PICK g2, lvl2 :
         /\ Nest(s2, l2, t2, d2, g2, lvl2)
         /\ Len(g2) = n - 1 /\ \A k \in 1 .. n - 1 : g2[k] = g[k]
         /\ Exits(g2, lvl2) = Unpatched(Exits(g, lvl), Pending(ls, todos[n], g[n]))
  BY <1>20, NestPop
<1>15. n - 1 \in 1 .. n - 1 /\ \A k \in 2 .. n - 1 : k \in 1 .. n - 1 /\ k \in 2 .. n /\ (k \in 1 .. n - 2 \/ k = n - 1)
  BY <1>2
<1>16. t2[n - 1].transfers = b /\ t2[n - 1].k = todos[n - 1].k /\ t2[n - 1].back = todos[n - 1].back
  <2>1. todos[n - 1] \in Todo
    BY <1>2, <1>3
  <2> QED BY <1>12, <2>1 DEF Todo
<1>17. HeadsOK(t2, g2, heads)
  <2>1. \A k \in 2 .. n - 1 : t2[k].k = todos[k].k /\ t2[k].back = todos[k].back
    BY <1>12, <1>15, <1>16
  <2>2. <<1, Start>> \in heads /\ \A k \in 2 .. n : todos[k].k \in LoopKinds => <<todos[k].back, g[k].head>> \in heads
    BY <1>1 DEF HeadsOK
  <2> QED BY <1>14, <1>15, <2>1, <2>2 DEF HeadsOK
<1>18. Leaves(s, ls, todos, decls, g, lvl, heads, b, g2, lvl2)
  BY <1>1, <1>7, <1>9, <1>12, <1>14, <1>15, <1>16, <1>17 DEF Leaves
<1> QED BY <1>18

\* Emitting goes on after the block.
LEMMA EmitsLeave ==
  ASSUME NEW s, NEW ls, NEW todos, NEW decls, NEW g, NEW lvl, NEW heads, Nest(s, ls, todos, decls, g, lvl),
         HeadsOK(todos, g, heads), Len(g) >= 2, NEW b \in BOOLEAN, NEW c,
         Ends(c, IF b THEN Dead ELSE g[Len(g) - 1].base,
              Unpatched(Exits(g, lvl), Pending(ls, todos[Len(g)], g[Len(g)])), heads, Len(s.types))
  PROVE  Emitting(c, Popped(s, g[Len(g) - 1].h), SubSeq(ls, 1, g[Len(g) - 1].n), Outer(todos, b),
                  SubSeq(decls, 1, g[Len(g) - 1].d))
<1>1. PICK g2, lvl2 : Leaves(s, ls, todos, decls, g, lvl, heads, b, g2, lvl2)
  BY NestLeave
<1>2. Now(Outer(todos, b), g2) = IF b THEN Dead ELSE g[Len(g) - 1].base
  BY <1>1 DEF Leaves, Now
<1>3. Popped(s, g[Len(g) - 1].h).types = s.types
  BY DEF Popped, Nest, SlotsOK
<1> QED BY <1>1, <1>2, <1>3 DEF Leaves, Emits, Emitting

\* The state where a block's own scope has been dropped.
Dropped(a, s, t, b) ==
  /\ a \in State /\ a.h = 0
  /\ t.transfers => ~Live(a)
  /\ ~t.transfers => /\ Live(a) /\ a.env = b.env
                     /\ a.held = HeldBy(s.types, Owners(s.scopes, Len(s.scopes) - 1))

\* The innermost scope's slots are dropped, where control reaches its end.
LEMMA EndsDropped ==
  ASSUME NEW c, NEW s, NEW ls, NEW todos, NEW decls, NEW g, NEW lvl, NEW heads,
         Emits(c, s, ls, todos, decls, g, lvl, heads)
  PROVE  \E a : /\ Dropped(a, s, todos[Len(todos)], g[Len(g)].base)
                /\ Ends(EmitScopeDrops(c, PopScope(s), Last(s.scopes)), a, Exits(g, lvl), heads, Len(s.types))
<1>1. Nest(s, ls, todos, decls, g, lvl) /\ Ends(c, Now(todos, g), Exits(g, lvl), heads, Len(s.types))
  BY DEF Emits
<1>2. PICK n, m : n = Len(g) /\ m = Len(s.scopes)
  OBVIOUS
<1>3. /\ SlotsOK(s) /\ n = Len(todos) /\ n \in 1 .. n /\ g[n] \in Level /\ g[n].h = m
      /\ m \in Nat /\ g[n].h \in 1 .. Len(s.scopes) /\ m \in 1 .. m
  <2>1. n \in Nat \ {0} /\ n = Len(todos) /\ SlotsOK(s) /\ g[n].h = m
    BY <1>1, <1>2, NestTypes DEF Nest
  <2>2. n \in 1 .. n
    BY <2>1
  <2>3. g[n] \in Level /\ g[n].h \in 1 .. Len(s.scopes)
    BY <1>1, <1>2, <2>2, NestTypes
  <2>4. m \in Nat
    BY <1>2, <2>1 DEF SlotsOK
  <2> QED BY <1>2, <2>1, <2>2, <2>3, <2>4
<1>4. /\ Last(s.scopes) = s.scopes[m] /\ PopScope(s).types = s.types
      /\ EmitScopeDrops(c, PopScope(s), Last(s.scopes)) = DropSlots(c, PopScope(s), s.scopes[m])
  BY <1>2, <1>3 DEF Last, EmitScopeDrops, PopScope, SlotsOK
<1>5. PICK x, a : x = Now(todos, g) /\ a = Without(x, HeldBy(s.types, Range(s.scopes[m])))
  OBVIOUS
<1>6. Within(s.scopes, m, m) = Range(s.scopes[m])
  BY <1>3 DEF Within
<1>7. x \in State /\ x.h = 0
  <2>1. g[n].base \in State /\ LevelOK(s, decls, g[n])
    BY <1>1, <1>2, <1>3 DEF Nest, Level
  <2> QED BY <1>2, <1>5, <2>1, DeadState DEF Now, LevelOK
<1>8. a \in State /\ a.h = 0 /\ a.flow = x.flow /\ a.env = x.env
  BY <1>5, <1>7, WithoutState
<1>9. Holds(x, s.types, Range(s.scopes[m])) /\ Dropped(a, s, todos[n], g[n].base)
  <2>1. CASE todos[n].transfers
    <3>1. ~Live(x)
      BY <1>3, <1>5, <2>1, DeadState DEF Now
    <3> QED BY <1>8, <2>1, <3>1 DEF Holds, Dropped, Live
  <2>2. CASE ~todos[n].transfers
    <3>0. PICK b : b = g[Len(g)].base
      OBVIOUS
    <3>5. ~todos[Len(todos)].transfers
      BY <1>3, <2>2
    <3>6. Knows(s, decls, b) /\ Now(todos, g) = b
      BY <3>0, <3>5, EmitsAlive
    <3>1. x = g[n].base /\ Knows(s, decls, x)
      BY <1>2, <1>5, <3>0, <3>6
    <3>2. m - 1 \in 0 .. Len(s.scopes) /\ (m - 1) + 1 = m
      BY <1>2, <1>3
    <3>3. a = Without(x, HeldBy(s.types, Within(s.scopes, (m - 1) + 1, Len(s.scopes))))
      BY <1>2, <1>5, <1>6, <3>2
    <3>4. /\ Holds(x, s.types, Within(s.scopes, (m - 1) + 1, Len(s.scopes)))
          /\ Live(a) /\ a.env = x.env /\ a.held = HeldBy(s.types, Owners(s.scopes, m - 1))
      BY <3>1, <3>2, <3>3, HeldAfter
    <3> QED BY <1>2, <1>6, <1>8, <2>2, <3>1, <3>2, <3>4 DEF Dropped
  <2> QED BY <2>1, <2>2
<1>10. Droppable(x, s.types, s.scopes[m])
  <2>1. Apart(s.types, s.scopes) /\ m \in 1 .. Len(s.scopes)
    BY <1>2, <1>3 DEF SlotsOK
  <2> QED BY <1>9, <2>1, DroppableScope
<1>11. Ends(DropSlots(c, PopScope(s), s.scopes[m]), a, Exits(g, lvl), heads, Len(s.types))
  BY <1>1, <1>4, <1>5, <1>7, <1>10, EndsDropSlots
<1> QED BY <1>2, <1>3, <1>4, <1>9, <1>11

\* What the rest of a block's statement finds.
Closes(a, t, q, r) ==
  /\ a \in State /\ a.h = 0 /\ Leads(a, q.base)
  /\ t.transfers => ~Live(a)
  /\ t.k \in LoopKinds => Leads(a, r.head)
  /\ t.k \in Counting /\ Live(a) => a.env[t.counter] = "data" /\ a.held \cap ({t.counter} \X Nat) = {}

\* And what the block outside it knows is then true again.
LEMMA EndsClosed ==
  ASSUME NEW c, NEW s, NEW ls, NEW todos, NEW decls, NEW g, NEW lvl, NEW heads,
         Emits(c, s, ls, todos, decls, g, lvl, heads), Len(g) >= 2
  PROVE  \E a : /\ Closes(a, todos[Len(g)], g[Len(g) - 1], g[Len(g)])
                /\ Ends(EmitScopeDrops(c, PopScope(s), Last(s.scopes)), a, Exits(g, lvl), heads, Len(s.types))
<1>1. PICK n, t, q, r, b : n = Len(g) /\ t = todos[n] /\ q = g[n - 1] /\ r = g[n] /\ b = r.base
  OBVIOUS
<1>2. Nest(s, ls, todos, decls, g, lvl)
  BY DEF Emits
<1>3. n \in Nat /\ n >= 2 /\ n \in 2 .. n /\ n \in 1 .. n /\ n - 1 \in 1 .. n /\ n - 1 < n /\ n = Len(todos)
  BY <1>1, <1>2, NestTypes
<1>4. /\ Above(s, ls, t, r, q) /\ LevelOK(s, decls, q) /\ LevelOK(s, decls, r) /\ Inner(b, q.base)
      /\ q \in Level /\ r \in Level /\ r.h = Len(s.scopes) /\ SlotsOK(s)
  <2>1. Above(s, ls, t, r, q) /\ LevelOK(s, decls, q) /\ LevelOK(s, decls, r)
    BY <1>1, <1>2, <1>3 DEF Nest
  <2>2. Inner(b, q.base)
    BY <1>1, <1>2, <1>3 DEF Nest, Ordered
  <2>3. q \in Level /\ r \in Level
    BY <1>1, <1>2, <1>3, NestTypes
  <2> QED BY <1>1, <1>2, <2>1, <2>2, <2>3 DEF Nest
<1>5. PICK a : /\ Dropped(a, s, t, b)
               /\ Ends(EmitScopeDrops(c, PopScope(s), Last(s.scopes)), a, Exits(g, lvl), heads, Len(s.types))
  BY <1>1, <1>3, EndsDropped
<1>6. CASE t.transfers
  <2>1. a \in State /\ a.h = 0 /\ ~Live(a)
    BY <1>5, <1>6 DEF Dropped
  <2>2. Leads(a, q.base) /\ Leads(a, r.head)
    BY <2>1, DeadState
  <2> QED BY <1>1, <1>5, <2>1, <2>2 DEF Closes
<1>7. CASE ~t.transfers
  <2>1. /\ a \in State /\ a.h = 0 /\ Live(a) /\ a.env = b.env
        /\ a.held = HeldBy(s.types, Owners(s.scopes, Len(s.scopes) - 1))
    BY <1>5, <1>7 DEF Dropped
  <2>2. Owners(s.scopes, Len(s.scopes) - 1) = Owners(s.scopes, q.h)
    <3>1. q.h \in Nat /\ r.h \in Nat /\ r.h = q.h + ScopesOf(t.k) /\ ScopesOf(t.k) \in Nat \ {0}
      BY <1>4 DEF Level, Above, ScopesOf
    <3>2. PICK u, v, w : u = q.h /\ v = r.h /\ w = ScopesOf(t.k)
      OBVIOUS
    <3>3. u \in Nat /\ v - 1 \in Nat /\ u <= v - 1
      BY <3>1, <3>2
    <3>4. \A j \in u + 1 .. v - 1 : s.scopes[j] = << >>
      BY <1>4, <3>2 DEF Above
    <3>5. Owners(s.scopes, v - 1) = Owners(s.scopes, u)
      BY <3>3, <3>4, OwnersEmpty
    <3> QED BY <1>4, <3>2, <3>5
  <2>3. a.held = q.base.held /\ q.base \in State /\ Live(q.base) /\ q.base.h = 0
    BY <1>4, <2>1, <2>2 DEF LevelOK, Level
  <2>4. Inner(a, q.base)
    BY <1>4, <2>1 DEF Inner
  <2>5. Leads(a, q.base)
    BY <2>1, <2>3, <2>4, LeadsInner
  <2>6. t.k \in LoopKinds => Leads(a, r.head)
    <3> SUFFICES ASSUME t.k \in LoopKinds PROVE Leads(a, r.head)
      OBVIOUS
    <3>1. Live(r.head) /\ r.head.h = 0 /\ r.head.held = q.base.held /\ Inner(b, r.head) /\ r.head \in State
      BY <1>1, <1>4 DEF Above, Level
    <3>2. Inner(a, r.head)
      BY <2>1, <3>1 DEF Inner
    <3> QED BY <2>1, <2>3, <3>1, <3>2, LeadsInner
  <2>7. t.k \in Counting => a.env[t.counter] = "data" /\ a.held \cap ({t.counter} \X Nat) = {}
    <3> SUFFICES ASSUME t.k \in Counting PROVE a.env[t.counter] = "data" /\ a.held \cap ({t.counter} \X Nat) = {}
      OBVIOUS
    <3>1. s.types[t.counter] = "int" /\ b.env[t.counter] = "data"
      BY <1>1, <1>4 DEF Above
    <3>0. b = g[Len(g)].base /\ ~todos[Len(todos)].transfers
      BY <1>1, <1>3, <1>7
    <3>2. Knows(s, decls, b)
      BY <3>0, EmitsAlive
    <3>3. b.held \cap ({t.counter} \X Nat) \subseteq Places(t.counter, Kind(s.types[t.counter]))
      BY <3>2, HeldOf
    <3>4. Places(t.counter, Kind("int")) = {}
      BY DEF Places, Kind
    <3>5. a.held \subseteq b.held
      <4>1. q.base.held = HeldBy(s.types, Owners(s.scopes, q.h)) /\ b.held = HeldBy(s.types, Owners(s.scopes, r.h))
        BY <1>1, <1>4 DEF LevelOK
      <4>2. Owners(s.scopes, q.h) \subseteq Owners(s.scopes, r.h)
        <5>1. q.h \in Nat /\ r.h \in Nat /\ r.h = q.h + ScopesOf(t.k) /\ ScopesOf(t.k) \in Nat \ {0}
          BY <1>4 DEF Level, Above, ScopesOf
        <5>2. 1 .. q.h \subseteq 1 .. r.h
          BY <5>1
        <5> QED BY <5>2 DEF Owners, Within
      <4> QED BY <2>3, <4>1, <4>2 DEF HeldBy
    <3> QED BY <2>1, <3>1, <3>3, <3>4, <3>5
  <2> QED BY <1>1, <1>5, <1>7, <2>1, <2>5, <2>6, <2>7 DEF Closes
<1> QED BY <1>6, <1>7

\* What the end of a block pops.
LEMMA PopsAll ==
  ASSUME NEW s, NEW ls, NEW todos, NEW decls, NEW g, NEW lvl, Nest(s, ls, todos, decls, g, lvl),
         NEW t, t = Last(todos), t.k # "body"
  PROVE  /\ Len(g) >= 2 /\ t = todos[Len(g)] /\ Len(g) = Len(todos) /\ Len(g) \in Nat /\ t \in Todo /\ t.k \in BlockKinds
         /\ ScopesOf(t.k) = 1 => PopScope(s) = Popped(s, g[Len(g) - 1].h)
         /\ ScopesOf(t.k) = 2 => PopScope(PopScope(s)) = Popped(s, g[Len(g) - 1].h)
         /\ ScopesOf(t.k) = 3 => PopScope(PopScope(PopScope(s))) = Popped(s, g[Len(g) - 1].h)
         /\ g[Len(g) - 1].d = Len(decls) - DeclsOf(t.k)
         /\ t.k \notin LoopKinds => SubSeq(ls, 1, g[Len(g) - 1].n) = ls
         /\ t.k \in LoopKinds => /\ SubSeq(ls, 1, g[Len(g) - 1].n) = Front(ls)
                                 /\ Last(ls) = ls[g[Len(g)].n]
<1>1. PICK n, q, r : n = Len(g) /\ q = g[n - 1] /\ r = g[n]
  OBVIOUS
<1>2. n \in Nat \ {0} /\ n = Len(todos) /\ todos \in Seq(Todo) /\ todos[1].k = "body" /\ ls \in Seq(Loops)
  BY <1>1, NestTypes DEF Nest, Shaped
<1>3. t = todos[n] /\ n >= 2
  BY <1>2 DEF Last
<1>4. n \in 2 .. n /\ n \in 1 .. n /\ n - 1 \in 1 .. n
  BY <1>2, <1>3
<1>5. Above(s, ls, t, r, q) /\ SlotsOK(s) /\ r.h = Len(s.scopes) /\ r.d = Len(decls) /\ r.n = Len(ls)
  BY <1>1, <1>3, <1>4 DEF Nest
<1>6. q.h \in Nat /\ q.d \in Nat /\ q.n \in Nat /\ q.h \in 1 .. Len(s.scopes)
  <2>1. q.h \in 1 .. Len(s.scopes)
    BY <1>1, <1>4, NestTypes
  <2> QED BY <1>1, <1>4, <2>1, NestBounds
<1>7. PICK h, L, k, d : h = q.h /\ L = Len(s.scopes) /\ k = ScopesOf(t.k) /\ d = Len(decls)
  OBVIOUS
<1>8. h \in Nat /\ h >= 1 /\ L = h + k /\ k \in {1, 2, 3} /\ L \in Nat
  BY <1>5, <1>6, <1>7 DEF Above, ScopesOf
<1>9. t \in Todo /\ t.k \in BlockKinds
  BY <1>2, <1>3, <1>4, <1>5 DEF Above
<1>10. k = 1 => PopScope(s) = Popped(s, h)
  <2> SUFFICES ASSUME k = 1 PROVE PopScope(s) = Popped(s, h)
    OBVIOUS
  <2>1. L \in 1 .. Len(s.scopes) /\ L - 1 = h
    BY <1>7, <1>8
  <2>2. PopScope(s) = Popped(s, L - 1)
    BY <1>5, <1>7, <2>1, PopsOne
  <2> QED BY <2>1, <2>2
<1>11. k = 2 => PopScope(PopScope(s)) = Popped(s, h)
  <2> SUFFICES ASSUME k = 2 PROVE PopScope(PopScope(s)) = Popped(s, h)
    OBVIOUS
  <2>1. L \in 1 .. Len(s.scopes) /\ L - 1 \in 1 .. Len(s.scopes) /\ (L - 1) - 1 = h
    BY <1>7, <1>8
  <2>2. PopScope(s) = Popped(s, L - 1)
    BY <1>5, <1>7, <2>1, PopsOne
  <2>3. PopScope(Popped(s, L - 1)) = Popped(s, (L - 1) - 1)
    BY <1>5, <2>1, PopsOne
  <2> QED BY <2>1, <2>2, <2>3
<1>12. k = 3 => PopScope(PopScope(PopScope(s))) = Popped(s, h)
  <2> SUFFICES ASSUME k = 3 PROVE PopScope(PopScope(PopScope(s))) = Popped(s, h)
    OBVIOUS
  <2>1. L \in 1 .. Len(s.scopes) /\ L - 1 \in 1 .. Len(s.scopes) /\ L - 2 \in 1 .. Len(s.scopes)
        /\ (L - 1) - 1 = L - 2 /\ (L - 2) - 1 = h
    BY <1>7, <1>8
  <2>2. PopScope(s) = Popped(s, L - 1)
    BY <1>5, <1>7, <2>1, PopsOne
  <2>3. PopScope(Popped(s, L - 1)) = Popped(s, (L - 1) - 1)
    BY <1>5, <2>1, PopsOne
  <2>4. PopScope(Popped(s, L - 2)) = Popped(s, (L - 2) - 1)
    BY <1>5, <2>1, PopsOne
  <2> QED BY <2>1, <2>2, <2>3, <2>4
<1>13. q.d = d - DeclsOf(t.k)
  <2>1. PICK u, v : u = q.d /\ v = DeclsOf(t.k)
    OBVIOUS
  <2>2. d = u + v /\ u \in Nat /\ v \in Nat
    BY <1>5, <1>6, <1>7, <2>1 DEF Above, DeclsOf
  <2>3. d - v = u
    BY <2>2
  <2> QED BY <2>1, <2>3
<1>14. t.k \notin LoopKinds => SubSeq(ls, 1, q.n) = ls
  <2> SUFFICES ASSUME t.k \notin LoopKinds PROVE SubSeq(ls, 1, q.n) = ls
    OBVIOUS
  <2>1. q.n = Len(ls)
    BY <1>5, <1>6 DEF Above, LoopsOf
  <2>2. SubSeq(ls, 1, Len(ls)) = ls
    <3>1. PICK w : w = SubSeq(ls, 1, Len(ls))
      OBVIOUS
    <3>2. Len(ls) \in 0 .. Len(ls)
      BY <1>2
    <3>3. w \in Seq(Loops) /\ Len(w) = Len(ls) /\ \A i \in 1 .. Len(ls) : w[i] = ls[i]
      BY <1>2, <3>1, <3>2, Shortened
    <3>4. w = ls
      BY <1>2, <3>3, SeqEqual
    <3> QED BY <3>1, <3>4
  <2> QED BY <2>1, <2>2
<1>15. t.k \in LoopKinds => SubSeq(ls, 1, q.n) = Front(ls) /\ Last(ls) = ls[r.n]
  <2> SUFFICES ASSUME t.k \in LoopKinds PROVE SubSeq(ls, 1, q.n) = Front(ls) /\ Last(ls) = ls[r.n]
    OBVIOUS
  <2>1. Len(ls) = q.n + 1
    BY <1>5 DEF Above, LoopsOf
  <2>2. q.n = Len(ls) - 1
    BY <1>6, <2>1
  <2> QED BY <1>5, <2>2 DEF Front, Last
<1> QED BY <1>1, <1>2, <1>3, <1>7, <1>9, <1>10, <1>11, <1>12, <1>13, <1>14, <1>15

\* A block whose statement adds no instruction, and transfers as the block does.
LEMMA EmitsPlain ==
  ASSUME NEW c, NEW s, NEW ls, NEW todos, NEW decls, NEW g, NEW lvl, NEW heads,
         Emits(c, s, ls, todos, decls, g, lvl, heads), NEW t, t = Last(todos), t.k \in {"block", "default"}
  PROVE  Emitting(EmitScopeDrops(c, PopScope(s), Last(s.scopes)), PopScope(s), ls,
                  Outer(todos, t.transfers), SubSeq(decls, 1, Len(decls) - 1))
<1>1. Nest(s, ls, todos, decls, g, lvl) /\ HeadsOK(todos, g, heads)
  BY DEF Emits
<1>2. /\ Len(g) >= 2 /\ t = todos[Len(g)] /\ t \in Todo /\ ScopesOf(t.k) = 1 /\ DeclsOf(t.k) = 1 /\ t.k \notin LoopKinds
      /\ PopScope(s) = Popped(s, g[Len(g) - 1].h)
      /\ g[Len(g) - 1].d = Len(decls) - DeclsOf(t.k)
      /\ SubSeq(ls, 1, g[Len(g) - 1].n) = ls
  <2>1. ScopesOf(t.k) = 1 /\ DeclsOf(t.k) = 1 /\ t.k \notin LoopKinds /\ t.k # "body"
    BY DEF ScopesOf, DeclsOf, LoopKinds, Counting
  <2>2. Len(g) >= 2 /\ t = todos[Len(g)] /\ t \in Todo
    BY <1>1, <2>1, PopsAll
  <2>3. PopScope(s) = Popped(s, g[Len(g) - 1].h)
    BY <1>1, <2>1, PopsAll
  <2>4. g[Len(g) - 1].d = Len(decls) - DeclsOf(t.k)
    BY <1>1, <2>1, PopsAll
  <2>5. SubSeq(ls, 1, g[Len(g) - 1].n) = ls
    BY <1>1, <2>1, PopsAll
  <2> QED BY <2>1, <2>2, <2>3, <2>4, <2>5
<1>3. PICK d : d = EmitScopeDrops(c, PopScope(s), Last(s.scopes))
  OBVIOUS
<1>4. PICK a : Closes(a, t, g[Len(g) - 1], g[Len(g)]) /\ Ends(d, a, Exits(g, lvl), heads, Len(s.types))
  BY <1>2, <1>3, EndsClosed
<1>5. PICK to : to = IF t.transfers THEN Dead ELSE g[Len(g) - 1].base
  OBVIOUS
<1>6. to \in State /\ to.h = 0 /\ Leads(a, to)
  <2>1. Len(g) - 1 \in 1 .. Len(g)
    BY <1>2, <1>1, NestTypes
  <2>2. g[Len(g) - 1] \in Level /\ LevelOK(s, decls, g[Len(g) - 1])
    BY <1>1, <2>1, NestTypes DEF Nest
  <2>3. g[Len(g) - 1].base \in State /\ g[Len(g) - 1].base.h = 0
    BY <2>2 DEF LevelOK, Level
  <2> QED BY <1>4, <1>5, <2>3, DeadState DEF Closes
<1>7. Ends(d, to, Exits(g, lvl), heads, Len(s.types))
  BY <1>4, <1>6, EndsLess DEF Closes
<1>8. Unpatched(Exits(g, lvl), Pending(ls, t, g[Len(g)])) = Exits(g, lvl)
  <2>1. Pending(ls, t, g[Len(g)]) = {}
    BY DEF Pending, LoopKinds
  <2> QED BY <2>1 DEF Unpatched, Exits
<1>9. PICK b \in BOOLEAN : b = t.transfers
  BY <1>2 DEF Todo
<1>10. Emitting(d, Popped(s, g[Len(g) - 1].h), SubSeq(ls, 1, g[Len(g) - 1].n), Outer(todos, b),
                SubSeq(decls, 1, g[Len(g) - 1].d))
  BY <1>1, <1>2, <1>5, <1>7, <1>8, <1>9, EmitsLeave
<1> QED BY <1>2, <1>3, <1>9, <1>10

\* A block whose placeholders are patched to jump to its end.
LEMMA EmitsEnds ==
  ASSUME NEW s, NEW ls, NEW todos, NEW decls, NEW g, NEW lvl, NEW heads, Nest(s, ls, todos, decls, g, lvl),
         HeadsOK(todos, g, heads), Len(g) >= 2, NEW b \in BOOLEAN, NEW d, NEW a \in State,
         Ends(d, a, Exits(g, lvl), heads, Len(s.types)), a.h = 0,
         Leads(a, IF b THEN Dead ELSE g[Len(g) - 1].base),
         Leads(g[Len(g)].exit, IF b THEN Dead ELSE g[Len(g) - 1].base)
  PROVE  Emitting(PatchAllToHere(d, Pending(ls, todos[Len(g)], g[Len(g)])), Popped(s, g[Len(g) - 1].h),
                  SubSeq(ls, 1, g[Len(g) - 1].n), Outer(todos, b), SubSeq(decls, 1, g[Len(g) - 1].d))
<1>1. PICK n, to, ats : /\ n = Len(g) /\ to = IF b THEN Dead ELSE g[n - 1].base
                        /\ ats = Pending(ls, todos[n], g[n])
  OBVIOUS
<1>2. n \in Nat /\ n \in 2 .. n /\ n - 1 \in 1 .. n
  BY <1>1, NestTypes
<1>3. to \in State /\ to.h = 0
  <2>1. g[n - 1] \in Level /\ LevelOK(s, decls, g[n - 1])
    BY <1>1, <1>2, NestTypes DEF Nest
  <2>2. g[n - 1].base \in State /\ g[n - 1].base.h = 0
    BY <2>1 DEF LevelOK, Level
  <2> QED BY <1>1, <2>2, DeadState
<1>4. Ends(d, to, Exits(g, lvl), heads, Len(s.types))
  <2>1. Leads(a, to) /\ to.h = a.h
    BY <1>1, <1>3
  <2> QED BY <1>3, <2>1, EndsLess
<1>5. {p \in DOMAIN lvl : lvl[p] = n} = ats
  BY <1>1, <1>2 DEF Nest, Placed
<1>6. ats \in SUBSET DOMAIN Exits(g, lvl) /\ \A p \in ats : Exits(g, lvl)[p] = g[n].exit
  BY <1>5 DEF Exits
<1>7. \A p \in ats : Leads(Exits(g, lvl)[p], to)
  BY <1>1, <1>6
<1>8. Ends(PatchAllToHere(d, ats), to, Unpatched(Exits(g, lvl), ats), heads, Len(s.types))
  BY <1>4, <1>6, <1>7, EndsUnpatched
<1> QED BY <1>1, <1>8, EmitsLeave

\* A scope without slots to drop adds no instruction.
LEMMA DropsNone ==
  ASSUME NEW s, NEW ls, NEW todos, NEW decls, NEW g, NEW lvl, Nest(s, ls, todos, decls, g, lvl),
         NEW t, t = Last(todos), t.k # "body"
  PROVE  /\ ScopesOf(t.k) = 2 => \A c, s2 : EmitScopeDrops(c, s2, Last(PopScope(s).scopes)) = c
         /\ ScopesOf(t.k) = 3 => \A c, s2 : EmitScopeDrops(c, s2, Last(PopScope(PopScope(s)).scopes)) = c
<1>1. PICK n, q, r : n = Len(g) /\ q = g[n - 1] /\ r = g[n]
  OBVIOUS
<1>2. Len(g) >= 2 /\ t = todos[Len(g)] /\ n \in Nat
  BY <1>1, PopsAll
<1>3. n \in 2 .. n /\ n \in 1 .. n /\ n - 1 \in 1 .. n
  BY <1>1, <1>2
<1>4. Above(s, ls, t, r, q) /\ SlotsOK(s) /\ r.h = Len(s.scopes) /\ q.h \in Nat
  <2>1. q.h \in Nat
    BY <1>1, <1>3, NestBounds
  <2> QED BY <1>1, <1>2, <1>3, <2>1 DEF Nest
<1>5. PICK h, L, k : h = q.h /\ L = Len(s.scopes) /\ k = ScopesOf(t.k)
  OBVIOUS
<1>6. h \in Nat /\ L = h + k /\ k \in {1, 2, 3} /\ L \in Nat /\ \A i \in h + 1 .. L - 1 : s.scopes[i] = << >>
  BY <1>4, <1>5 DEF Above, ScopesOf
<1>7. \A c, s2 : EmitScopeDrops(c, s2, << >>) = c
  <2> TAKE c, s2
  <2> DEFINE dropped[m \in 0 .. 0] ==
        IF m = 0 THEN c ELSE DropSlot(dropped[m - 1], s2.types, << >>[Len(<< >>) + 1 - m])
  <2>1. dropped = [m \in 0 .. 0 |-> c]
    OBVIOUS
  <2> QED BY <2>1 DEF EmitScopeDrops, DropSlots
<1>8. ASSUME NEW j \in h + 1 .. L - 1, NEW p, p = Popped(s, j)
      PROVE  Last(p.scopes) = << >>
  <2>1. j \in 0 .. Len(s.scopes) /\ j \in 1 .. j
    BY <1>5, <1>6
  <2>2. p = [s EXCEPT !.scopes = SubSeq(s.scopes, 1, j)]
    BY <1>8 DEF Popped
  <2>3. Len(p.scopes) = j /\ \A i \in 1 .. j : p.scopes[i] = s.scopes[i]
    BY <1>4, <2>1, <2>2, SlotsKept
  <2> QED BY <1>6, <2>1, <2>3 DEF Last
<1>9. k = 2 => Last(PopScope(s).scopes) = << >>
  <2> SUFFICES ASSUME k = 2 PROVE Last(PopScope(s).scopes) = << >>
    OBVIOUS
  <2>1. L \in 1 .. Len(s.scopes) /\ L - 1 \in h + 1 .. L - 1
    BY <1>5, <1>6
  <2>2. PopScope(s) = Popped(s, L - 1)
    BY <1>4, <1>5, <2>1, PopsOne
  <2> QED BY <1>8, <2>1, <2>2
<1>10. k = 3 => Last(PopScope(PopScope(s)).scopes) = << >>
  <2> SUFFICES ASSUME k = 3 PROVE Last(PopScope(PopScope(s)).scopes) = << >>
    OBVIOUS
  <2>1. L \in 1 .. Len(s.scopes) /\ L - 1 \in 1 .. Len(s.scopes) /\ (L - 1) - 1 = L - 2 /\ L - 2 \in h + 1 .. L - 1
    BY <1>5, <1>6
  <2>2. PopScope(s) = Popped(s, L - 1) /\ PopScope(Popped(s, L - 1)) = Popped(s, (L - 1) - 1)
    BY <1>4, <1>5, <2>1, PopsOne
  <2> QED BY <1>8, <2>1, <2>2
<1> QED BY <1>5, <1>7, <1>9, <1>10

\* A step that ends a block leaves the compiler between two steps.
LEMMA Goes ==
  ASSUME Emitting(ctx', slots', loops', todo', declared'), phase = "emit",
         phase' = (IF ctx'.ok THEN phase ELSE "abort")
  PROVE  Compiling'
<1>1. PICK g, lvl, heads : Emits(ctx', slots', loops', todo', declared', g, lvl, heads)
  BY DEF Emitting
<1>2. PICK c2, a, o, tp : c2 = ctx' /\ Ends(c2, a, o, heads, tp)
  BY <1>1 DEF Emits
<1>3. ctx'.ok
  BY <1>2, EndsOk
<1>4. todo' # << >>
  BY <1>1 DEF Emits, Nest, Shaped
<1>5. phase' = "emit"
  BY <1>3
<1> QED BY <1>4, <1>5 DEF Compiling

\* A block's end drops its slots.
LEMMA EndBlockCompiles ==
  ASSUME Compiling, EndBlock \/ EndDefault
  PROVE  Compiling'
<1>1. PICK t : t = Last(todo)
  OBVIOUS
<1>2. /\ t.k \in {"block", "default"} /\ ctx' = Closed /\ phase' = (IF ctx'.ok THEN phase ELSE "abort") /\ phase = "emit"
      /\ slots' = PopScope(slots) /\ declared' = SubSeq(declared, 1, Len(declared) - 1)
      /\ todo' = Outer(todo, t.transfers) /\ loops' = loops
  BY <1>1 DEF EndBlock, EndDefault, Leave, Settle, Reveal, Outer
<1>3. PICK g, lvl, heads : Emits(ctx, slots, loops, todo, declared, g, lvl, heads)
  BY DEF Compiling, Emitting
<1>4. Emitting(EmitScopeDrops(ctx, PopScope(slots), Last(slots.scopes)), PopScope(slots), loops,
               Outer(todo, t.transfers), SubSeq(declared, 1, Len(declared) - 1))
  BY <1>1, <1>2, <1>3, EmitsPlain
<1>5. Emitting(ctx', slots', loops', todo', declared')
  BY <1>2, <1>4 DEF Closed
<1> QED BY <1>2, <1>5, Goes

\* The end of an if without an else patches its jump here.
LEMMA EndThenCompiles ==
  ASSUME Compiling, EndThen
  PROVE  Compiling'
<1>1. PICK t : t = Last(todo)
  OBVIOUS
<1>2. /\ t.k = "then" /\ ctx' = PatchAllToHere(Closed, {t.jump})
      /\ phase' = (IF ctx'.ok THEN phase ELSE "abort") /\ phase = "emit"
      /\ slots' = PopScope(slots) /\ declared' = SubSeq(declared, 1, Len(declared) - 1)
      /\ todo' = Outer(todo, FALSE) /\ loops' = loops
  BY <1>1 DEF EndThen, Leave, Settle, Reveal, Outer
<1>3. PICK g, lvl, heads : Emits(ctx, slots, loops, todo, declared, g, lvl, heads)
  BY DEF Compiling, Emitting
<1>4. Nest(slots, loops, todo, declared, g, lvl) /\ HeadsOK(todo, g, heads)
  BY <1>3 DEF Emits
<1>5. t.k # "body" /\ ScopesOf(t.k) = 1 /\ DeclsOf(t.k) = 1 /\ t.k \notin LoopKinds
  BY <1>2 DEF ScopesOf, DeclsOf, LoopKinds, Counting
<1>6. Len(g) >= 2 /\ t = todo[Len(g)] /\ t \in Todo /\ Len(g) \in Nat
  BY <1>1, <1>4, <1>5, PopsAll
<1>7. PopScope(slots) = Popped(slots, g[Len(g) - 1].h)
  BY <1>1, <1>4, <1>5, PopsAll
<1>8. g[Len(g) - 1].d = Len(declared) - DeclsOf(t.k)
  BY <1>1, <1>4, <1>5, PopsAll
<1>9. SubSeq(loops, 1, g[Len(g) - 1].n) = loops
  BY <1>1, <1>4, <1>5, PopsAll
<1>10. PICK a : Closes(a, t, g[Len(g) - 1], g[Len(g)]) /\ Ends(Closed, a, Exits(g, lvl), heads, Len(slots.types))
  BY <1>3, <1>6, EndsClosed DEF Closed
<1>11. Pending(loops, t, g[Len(g)]) = {t.jump}
  BY <1>2, <1>5, <1>6 DEF Pending, Todo
<1>12. g[Len(g)].exit = g[Len(g) - 1].base /\ g[Len(g) - 1].base \in State
  <2>1. Len(g) \in 2 .. Len(g) /\ Len(g) - 1 \in 1 .. Len(g)
    BY <1>6
  <2>2. Above(slots, loops, todo[Len(g)], g[Len(g)], g[Len(g) - 1])
    BY <1>4, <2>1 DEF Nest
  <2>3. g[Len(g) - 1] \in Level
    BY <1>4, <2>1, NestTypes
  <2> QED BY <1>2, <1>6, <2>2, <2>3 DEF Above, Level
<1>13. /\ a \in State /\ a.h = 0 /\ Leads(a, g[Len(g) - 1].base)
       /\ Leads(g[Len(g)].exit, g[Len(g) - 1].base)
  BY <1>10, <1>12, LeadsSelf DEF Closes
<1>14. Emitting(PatchAllToHere(Closed, Pending(loops, todo[Len(g)], g[Len(g)])), Popped(slots, g[Len(g) - 1].h),
                SubSeq(loops, 1, g[Len(g) - 1].n), Outer(todo, FALSE), SubSeq(declared, 1, g[Len(g) - 1].d))
  BY <1>4, <1>6, <1>10, <1>13, EmitsEnds
<1>15. Emitting(ctx', slots', loops', todo', declared')
  BY <1>2, <1>5, <1>6, <1>7, <1>8, <1>9, <1>11, <1>14
<1> QED BY <1>2, <1>15, Goes

\* The end of an else patches the jump over it here, where the then's end arrives.
LEMMA EndElseCompiles ==
  ASSUME Compiling, EndElse
  PROVE  Compiling'
<1>1. PICK t, b : t = Last(todo) /\ b = (t.then /\ t.transfers)
  OBVIOUS
<1>2. /\ t.k = "else" /\ ctx' = PatchAllToHere(Closed, {t.jump})
      /\ phase' = (IF ctx'.ok THEN phase ELSE "abort") /\ phase = "emit"
      /\ slots' = PopScope(slots) /\ declared' = SubSeq(declared, 1, Len(declared) - 1)
      /\ todo' = Outer(todo, b) /\ loops' = loops
  BY <1>1 DEF EndElse, Leave, Settle, Reveal, Outer
<1>3. PICK g, lvl, heads : Emits(ctx, slots, loops, todo, declared, g, lvl, heads)
  BY DEF Compiling, Emitting
<1>4. Nest(slots, loops, todo, declared, g, lvl) /\ HeadsOK(todo, g, heads)
  BY <1>3 DEF Emits
<1>5. t.k # "body" /\ ScopesOf(t.k) = 1 /\ DeclsOf(t.k) = 1 /\ t.k \notin LoopKinds
  BY <1>2 DEF ScopesOf, DeclsOf, LoopKinds, Counting
<1>6. Len(g) >= 2 /\ t = todo[Len(g)] /\ t \in Todo /\ Len(g) \in Nat
  BY <1>1, <1>4, <1>5, PopsAll
<1>7. PopScope(slots) = Popped(slots, g[Len(g) - 1].h)
  BY <1>1, <1>4, <1>5, PopsAll
<1>8. g[Len(g) - 1].d = Len(declared) - DeclsOf(t.k)
  BY <1>1, <1>4, <1>5, PopsAll
<1>9. SubSeq(loops, 1, g[Len(g) - 1].n) = loops
  BY <1>1, <1>4, <1>5, PopsAll
<1>10. PICK a : Closes(a, t, g[Len(g) - 1], g[Len(g)]) /\ Ends(Closed, a, Exits(g, lvl), heads, Len(slots.types))
  BY <1>3, <1>6, EndsClosed DEF Closed
<1>11. Pending(loops, t, g[Len(g)]) = {t.jump}
  BY <1>2, <1>5, <1>6 DEF Pending, Todo
<1>12. g[Len(g)].exit = (IF t.then THEN Dead ELSE g[Len(g) - 1].base) /\ g[Len(g) - 1].base \in State
  <2>1. Len(g) \in 2 .. Len(g) /\ Len(g) - 1 \in 1 .. Len(g)
    BY <1>6
  <2>2. Above(slots, loops, todo[Len(g)], g[Len(g)], g[Len(g) - 1])
    BY <1>4, <2>1 DEF Nest
  <2>3. g[Len(g) - 1] \in Level
    BY <1>4, <2>1, NestTypes
  <2> QED BY <1>2, <1>6, <2>2, <2>3 DEF Above, Level
<1>13. /\ a \in State /\ a.h = 0 /\ b \in BOOLEAN
  BY <1>1, <1>6, <1>10 DEF Closes, Todo
<1>16. PICK to : to = IF b THEN Dead ELSE g[Len(g) - 1].base
  OBVIOUS
<1>17. Leads(a, to)
  <2>1. b => ~Live(a)
    BY <1>1, <1>10 DEF Closes
  <2> QED BY <1>10, <1>16, <2>1, DeadState DEF Closes
<1>18. Leads(g[Len(g)].exit, to)
  <2>1. CASE t.then
    BY <1>12, <2>1, DeadState
  <2>2. CASE ~t.then
    BY <1>1, <1>12, <1>16, <2>2, LeadsSelf
  <2> QED BY <2>1, <2>2
<1>14. Emitting(PatchAllToHere(Closed, Pending(loops, todo[Len(g)], g[Len(g)])), Popped(slots, g[Len(g) - 1].h),
                SubSeq(loops, 1, g[Len(g) - 1].n), Outer(todo, b), SubSeq(declared, 1, g[Len(g) - 1].d))
  BY <1>4, <1>6, <1>10, <1>13, <1>16, <1>17, <1>18, EmitsEnds
<1>15. Emitting(ctx', slots', loops', todo', declared')
  BY <1>2, <1>5, <1>6, <1>7, <1>8, <1>9, <1>11, <1>14
<1> QED BY <1>2, <1>15, Goes

\* The end of a loop: d is the code once the loop's step has been emitted.
LEMMA EmitsLoop ==
  ASSUME NEW g, NEW lvl, NEW heads, Emits(ctx, slots, loops, todo, declared, g, lvl, heads),
         NEW t, t = Last(todo), t.k \in LoopKinds, NEW d, NEW a,
         Closes(a, t, g[Len(g) - 1], g[Len(g)]), Ends(d, a, Exits(g, lvl), heads, Len(slots.types))
  PROVE  Emitting(CloseLoop(d), Popped(slots, g[Len(g) - 1].h), Front(loops), Outer(todo, FALSE),
                  SubSeq(declared, 1, Len(declared) - DeclsOf(t.k)))
<1>1. Nest(slots, loops, todo, declared, g, lvl) /\ HeadsOK(todo, g, heads)
  BY DEF Emits
<1>2. t.k # "body"
  BY DEF LoopKinds
<1>3. Len(g) >= 2 /\ t = todo[Len(g)] /\ t \in Todo /\ Len(g) \in Nat
  BY <1>1, <1>2, PopsAll
<1>4. g[Len(g) - 1].d = Len(declared) - DeclsOf(t.k)
  BY <1>1, <1>2, PopsAll
<1>5. SubSeq(loops, 1, g[Len(g) - 1].n) = Front(loops)
  BY <1>1, <1>2, PopsAll
<1>6. Last(loops) = loops[g[Len(g)].n]
  BY <1>1, <1>2, PopsAll
<1>7. PICK q, r : q = g[Len(g) - 1] /\ r = g[Len(g)]
  OBVIOUS
<1>8. Len(g) \in 2 .. Len(g) /\ Len(g) - 1 \in 1 .. Len(g)
  BY <1>3
<1>9. r.exit = q.base /\ q.base \in State /\ q.base.h = 0
  <2>1. Above(slots, loops, t, r, q) /\ LevelOK(slots, declared, q)
    BY <1>1, <1>3, <1>7, <1>8 DEF Nest
  <2>2. q \in Level
    BY <1>1, <1>7, <1>8, NestTypes
  <2> QED BY <2>1, <2>2 DEF Above, Level, LevelOK, LoopKinds
<1>10. a \in State /\ a.h = 0 /\ Leads(a, r.head)
  BY <1>7 DEF Closes
<1>11. <<t.back, r.head>> \in heads
  BY <1>1, <1>3, <1>7, <1>8 DEF HeadsOK
<1>12. Ends(Emit(d, "Jump", t.back), q.base, Exits(g, lvl), heads, Len(slots.types))
  <2>1. PICK e : e = <<t.back, r.head>>
    OBVIOUS
  <2>2. e \in heads /\ Leads(a, e[2]) /\ e[1] = t.back
    BY <1>10, <1>11, <2>1
  <2>3. Ends(Noted(d, "Jump", e[1], 0, 0), q.base, Exits(g, lvl), heads, Len(slots.types))
    BY <1>9, <1>10, <2>2, EndsBack
  <2>4. Emit(d, "Jump", t.back) = Noted(d, "Jump", t.back, 0, 0)
    BY EmitNotes
  <2> QED BY <2>2, <2>3, <2>4
<1>13. Pending(loops, t, r) = {t.jump} \union Last(loops).breaks
  <2>1. r.n \in 1 .. Len(loops)
    BY <1>1, <1>3, <1>7, <1>8, NestBounds
  <2>2. loops[r.n] \in Loops
    BY <1>1, <2>1, NestTypes
  <2>3. loops[r.n].breaks \subseteq Nat /\ t.jump \in Nat
    BY <1>3, <2>2 DEF Loops, Todo
  <2> QED BY <1>6, <1>7, <2>3 DEF Pending
<1>14. CloseLoop(d) = PatchAllToHere(Emit(d, "Jump", t.back), Pending(loops, todo[Len(g)], g[Len(g)]))
  BY <1>3, <1>7, <1>13 DEF CloseLoop
<1>15. Leads(q.base, q.base) /\ Leads(r.exit, q.base)
  BY <1>9, LeadsSelf
<1>16. PICK c2 : c2 = Emit(d, "Jump", t.back)
  OBVIOUS
<1>17. Emitting(PatchAllToHere(c2, Pending(loops, todo[Len(g)], g[Len(g)])), Popped(slots, g[Len(g) - 1].h),
                SubSeq(loops, 1, g[Len(g) - 1].n), Outer(todo, FALSE), SubSeq(declared, 1, g[Len(g) - 1].d))
  BY <1>1, <1>3, <1>7, <1>9, <1>12, <1>15, <1>16, EmitsEnds
<1> QED BY <1>4, <1>5, <1>14, <1>16, <1>17

\* The end of a while jumps back, and patches its condition's jump and its breaks.
LEMMA EndWhileCompiles ==
  ASSUME Compiling, EndWhile
  PROVE  Compiling'
<1>1. PICK t : t = Last(todo)
  OBVIOUS
<1>2. /\ t.k = "while" /\ ctx' = CloseLoop(Closed)
      /\ phase' = (IF ctx'.ok THEN phase ELSE "abort") /\ phase = "emit"
      /\ slots' = PopScope(slots) /\ declared' = SubSeq(declared, 1, Len(declared) - 1)
      /\ todo' = Outer(todo, FALSE) /\ loops' = Front(loops)
  BY <1>1 DEF EndWhile, Leave, Settle, Reveal, Outer
<1>3. PICK g, lvl, heads : Emits(ctx, slots, loops, todo, declared, g, lvl, heads)
  BY DEF Compiling, Emitting
<1>4. Nest(slots, loops, todo, declared, g, lvl)
  BY <1>3 DEF Emits
<1>5. t.k # "body" /\ ScopesOf(t.k) = 1 /\ DeclsOf(t.k) = 1 /\ t.k \in LoopKinds
  BY <1>2 DEF ScopesOf, DeclsOf, LoopKinds, Counting
<1>6. Len(g) >= 2 /\ t = todo[Len(g)]
  BY <1>1, <1>4, <1>5, PopsAll
<1>7. PopScope(slots) = Popped(slots, g[Len(g) - 1].h)
  BY <1>1, <1>4, <1>5, PopsAll
<1>8. PICK a : Closes(a, t, g[Len(g) - 1], g[Len(g)]) /\ Ends(Closed, a, Exits(g, lvl), heads, Len(slots.types))
  BY <1>3, <1>6, EndsClosed DEF Closed
<1>9. PICK d : d = Closed
  OBVIOUS
<1>10. Emitting(CloseLoop(d), Popped(slots, g[Len(g) - 1].h), Front(loops), Outer(todo, FALSE),
                SubSeq(declared, 1, Len(declared) - DeclsOf(t.k)))
  BY <1>1, <1>3, <1>5, <1>8, <1>9, EmitsLoop
<1>11. Emitting(ctx', slots', loops', todo', declared')
  BY <1>2, <1>5, <1>7, <1>9, <1>10
<1> QED BY <1>2, <1>11, Goes

\* The step of a counting loop.
LEMMA ClosesStep ==
  ASSUME NEW g, NEW lvl, NEW heads, Emits(ctx, slots, loops, todo, declared, g, lvl, heads),
         NEW t, t = Last(todo), t.k \in Counting, NEW a, Closes(a, t, g[Len(g) - 1], g[Len(g)]),
         Ends(Closed, a, Exits(g, lvl), heads, Len(slots.types))
  PROVE  Ends(EmitCounterStep(Closed, t.counter), a, Exits(g, lvl), heads, Len(slots.types))
<1>1. Nest(slots, loops, todo, declared, g, lvl)
  BY DEF Emits
<1>2. t.k # "body"
  BY DEF Counting
<1>3. Len(g) >= 2 /\ t = todo[Len(g)] /\ Len(g) \in Nat
  BY <1>1, <1>2, PopsAll
<1>4. Len(g) \in 2 .. Len(g)
  BY <1>3
<1>5. t.counter \in 1 .. Len(slots.types)
  BY <1>1, <1>3, <1>4 DEF Nest, Above
<1>6. /\ a \in State /\ a.h = 0
      /\ Live(a) => a.env[t.counter] = "data" /\ a.held \cap ({t.counter} \X Nat) = {}
  BY DEF Closes
<1>7. Len(slots.types) \in Nat
  BY <1>1, NestTypes
<1>8. PICK c, s, o, tp : c = Closed /\ s = t.counter /\ o = Exits(g, lvl) /\ tp = Len(slots.types)
  OBVIOUS
<1>9. Ends(EmitCounterStep(c, s), a, o, heads, tp)
  BY <1>5, <1>6, <1>7, <1>8, EndsCounterStep
<1> QED BY <1>8, <1>9

\* The end of a for steps the counter and jumps back.
LEMMA EndForCompiles ==
  ASSUME Compiling, EndFor
  PROVE  Compiling'
<1>1. PICK t, d : t = Last(todo) /\ d = EmitCounterStep(Closed, t.counter)
  OBVIOUS
<1>2. /\ t.k = "for"
      /\ ctx' = EmitScopeDrops(CloseLoop(d), PopScope(PopScope(slots)), Last(PopScope(slots).scopes))
      /\ phase' = (IF ctx'.ok THEN phase ELSE "abort") /\ phase = "emit"
      /\ slots' = PopScope(PopScope(slots)) /\ declared' = SubSeq(declared, 1, Len(declared) - 2)
      /\ todo' = Outer(todo, FALSE) /\ loops' = Front(loops)
  BY <1>1 DEF EndFor, Leave, Settle, Reveal, Outer
<1>3. PICK g, lvl, heads : Emits(ctx, slots, loops, todo, declared, g, lvl, heads)
  BY DEF Compiling, Emitting
<1>4. Nest(slots, loops, todo, declared, g, lvl)
  BY <1>3 DEF Emits
<1>5. t.k # "body" /\ ScopesOf(t.k) = 2 /\ DeclsOf(t.k) = 2 /\ t.k \in LoopKinds /\ t.k \in Counting
  BY <1>2 DEF ScopesOf, DeclsOf, LoopKinds, Counting
<1>6. Len(g) >= 2 /\ t = todo[Len(g)]
  BY <1>1, <1>4, <1>5, PopsAll
<1>7. PopScope(PopScope(slots)) = Popped(slots, g[Len(g) - 1].h)
  BY <1>1, <1>4, <1>5, PopsAll
<1>8. PICK a : Closes(a, t, g[Len(g) - 1], g[Len(g)]) /\ Ends(Closed, a, Exits(g, lvl), heads, Len(slots.types))
  BY <1>3, <1>6, EndsClosed DEF Closed
<1>9. Ends(d, a, Exits(g, lvl), heads, Len(slots.types))
  BY <1>1, <1>3, <1>5, <1>8, ClosesStep
<1>10. Emitting(CloseLoop(d), Popped(slots, g[Len(g) - 1].h), Front(loops), Outer(todo, FALSE),
                SubSeq(declared, 1, Len(declared) - DeclsOf(t.k)))
  BY <1>1, <1>3, <1>5, <1>8, <1>9, EmitsLoop
<1>11. ctx' = CloseLoop(d)
  <2>1. ScopesOf(t.k) = 2 => \A c, s2 : EmitScopeDrops(c, s2, Last(PopScope(slots).scopes)) = c
    BY <1>1, <1>4, <1>5, DropsNone
  <2> QED BY <1>2, <1>5, <2>1
<1>12. Emitting(ctx', slots', loops', todo', declared')
  BY <1>2, <1>5, <1>7, <1>10, <1>11
<1> QED BY <1>2, <1>12, Goes

\* The end of a for over rows steps the index and jumps back.
LEMMA EndRowsCompiles ==
  ASSUME Compiling, EndRows
  PROVE  Compiling'
<1>1. PICK t, d : t = Last(todo) /\ d = EmitCounterStep(Closed, t.counter)
  OBVIOUS
<1>2. /\ t.k = "rows"
      /\ ctx' = EmitScopeDrops(CloseLoop(d), PopScope(PopScope(PopScope(slots))),
                               Last(PopScope(PopScope(slots)).scopes))
      /\ phase' = (IF ctx'.ok THEN phase ELSE "abort") /\ phase = "emit"
      /\ slots' = PopScope(PopScope(PopScope(slots))) /\ declared' = SubSeq(declared, 1, Len(declared) - 2)
      /\ todo' = Outer(todo, FALSE) /\ loops' = Front(loops)
  BY <1>1 DEF EndRows, Leave, Settle, Reveal, Outer
<1>3. PICK g, lvl, heads : Emits(ctx, slots, loops, todo, declared, g, lvl, heads)
  BY DEF Compiling, Emitting
<1>4. Nest(slots, loops, todo, declared, g, lvl)
  BY <1>3 DEF Emits
<1>5. t.k # "body" /\ ScopesOf(t.k) = 3 /\ DeclsOf(t.k) = 2 /\ t.k \in LoopKinds /\ t.k \in Counting
  BY <1>2 DEF ScopesOf, DeclsOf, LoopKinds, Counting
<1>6. Len(g) >= 2 /\ t = todo[Len(g)]
  BY <1>1, <1>4, <1>5, PopsAll
<1>7. PopScope(PopScope(PopScope(slots))) = Popped(slots, g[Len(g) - 1].h)
  BY <1>1, <1>4, <1>5, PopsAll
<1>8. PICK a : Closes(a, t, g[Len(g) - 1], g[Len(g)]) /\ Ends(Closed, a, Exits(g, lvl), heads, Len(slots.types))
  BY <1>3, <1>6, EndsClosed DEF Closed
<1>9. Ends(d, a, Exits(g, lvl), heads, Len(slots.types))
  BY <1>1, <1>3, <1>5, <1>8, ClosesStep
<1>10. Emitting(CloseLoop(d), Popped(slots, g[Len(g) - 1].h), Front(loops), Outer(todo, FALSE),
                SubSeq(declared, 1, Len(declared) - DeclsOf(t.k)))
  BY <1>1, <1>3, <1>5, <1>8, <1>9, EmitsLoop
<1>11. ctx' = CloseLoop(d)
  <2>1. ScopesOf(t.k) = 3 => \A c, s2 : EmitScopeDrops(c, s2, Last(PopScope(PopScope(slots)).scopes)) = c
    BY <1>1, <1>4, <1>5, DropsNone
  <2> QED BY <1>2, <1>5, <2>1
<1>12. Emitting(ctx', slots', loops', todo', declared')
  BY <1>2, <1>5, <1>7, <1>10, <1>11
<1> QED BY <1>2, <1>12, Goes

\* A placeholder is patched while another waits.
LEMMA OpenedOther ==
  ASSUME NEW open, NEW at, NEW to, at \notin DOMAIN open, NEW j \in DOMAIN open
  PROVE  /\ Unpatched(Opened(open, at, to), {j}) = Opened(Unpatched(open, {j}), at, to)
         /\ Opened(open, at, to)[j] = open[j] /\ j \in DOMAIN Opened(open, at, to)
         /\ at \notin DOMAIN Unpatched(open, {j})
<1>1. j # at /\ DOMAIN Opened(open, at, to) = DOMAIN open \union {at}
  BY DEF Opened
<1>2. \A p \in DOMAIN open \union {at} : Opened(open, at, to)[p] = IF p = at THEN to ELSE open[p]
  BY DEF Opened
<1>3. DOMAIN Unpatched(open, {j}) = DOMAIN open \ {j} /\ \A p \in DOMAIN open \ {j} : Unpatched(open, {j})[p] = open[p]
  BY DEF Unpatched
<1>4. Unpatched(Opened(open, at, to), {j}) = [p \in (DOMAIN open \union {at}) \ {j} |-> IF p = at THEN to ELSE open[p]]
  BY <1>1, <1>2 DEF Unpatched
<1>5. Opened(Unpatched(open, {j}), at, to) = [p \in (DOMAIN open \ {j}) \union {at} |-> IF p = at THEN to ELSE open[p]]
  BY <1>3 DEF Opened
<1>6. (DOMAIN open \union {at}) \ {j} = (DOMAIN open \ {j}) \union {at}
  BY <1>1
<1> QED BY <1>1, <1>2, <1>3, <1>4, <1>5, <1>6

\* An else begins where the then ends with a jump over it.
LEMMA BeginElseCompiles ==
  ASSUME Compiling, BeginElse
  PROVE  Compiling'
<1>1. PICK t, d, c, u :
        /\ t = Last(todo) /\ d = Closed /\ c = Emit(d, "Jump", 0)
        /\ u = [Block("else") EXCEPT !.jump = Len(c.code), !.then = t.transfers]
  OBVIOUS
<1>2. /\ t.k = "then" /\ ctx' = PatchAllToHere(c, {t.jump})
      /\ phase' = (IF ctx'.ok THEN phase ELSE "abort") /\ phase = "emit"
      /\ slots' = PushScope(PopScope(slots)) /\ declared' = Append(Front(declared), NoDecls)
      /\ todo' = Append(Front(todo), u) /\ loops' = loops
  BY <1>1 DEF BeginElse, Settle
<1>3. PICK g, lvl, heads : Emits(ctx, slots, loops, todo, declared, g, lvl, heads)
  BY DEF Compiling, Emitting
<1>4. Nest(slots, loops, todo, declared, g, lvl) /\ HeadsOK(todo, g, heads)
  BY <1>3 DEF Emits
<1>5. t.k # "body" /\ ScopesOf(t.k) = 1 /\ DeclsOf(t.k) = 1 /\ t.k \notin LoopKinds
  BY <1>2 DEF ScopesOf, DeclsOf, LoopKinds, Counting
<1>6. Len(g) >= 2 /\ t = todo[Len(g)] /\ t \in Todo /\ Len(g) \in Nat
  BY <1>1, <1>4, <1>5, PopsAll
<1>7. PopScope(slots) = Popped(slots, g[Len(g) - 1].h)
  BY <1>1, <1>4, <1>5, PopsAll
<1>8. g[Len(g) - 1].d = Len(declared) - DeclsOf(t.k)
  BY <1>1, <1>4, <1>5, PopsAll
<1>9. SubSeq(loops, 1, g[Len(g) - 1].n) = loops
  BY <1>1, <1>4, <1>5, PopsAll
<1>10. PICK a : Closes(a, t, g[Len(g) - 1], g[Len(g)]) /\ Ends(d, a, Exits(g, lvl), heads, Len(slots.types))
  BY <1>1, <1>3, <1>6, EndsClosed DEF Closed
<1>11. Pending(loops, t, g[Len(g)]) = {t.jump}
  BY <1>2, <1>5, <1>6 DEF Pending, Todo
<1>12. PICK n, b, o : n = Len(g) /\ b = g[n - 1].base /\ o = Exits(g, lvl)
  OBVIOUS
<1>13. n \in 2 .. n /\ n - 1 \in 1 .. n /\ n \in Nat /\ n >= 2
  BY <1>6, <1>12
<1>14. g[n].exit = b /\ b \in State /\ b.h = 0 /\ Leads(a, b)
  <2>1. Above(slots, loops, t, g[n], g[n - 1]) /\ LevelOK(slots, declared, g[n - 1])
    BY <1>4, <1>6, <1>12, <1>13 DEF Nest
  <2>2. g[n - 1] \in Level
    BY <1>4, <1>12, <1>13, NestTypes
  <2> QED BY <1>2, <1>10, <1>12, <2>1, <2>2 DEF Above, Level, LevelOK, Closes
<1>15. t.jump \in DOMAIN o /\ o[t.jump] = b
  <2>1. {p \in DOMAIN lvl : lvl[p] = n} = {t.jump}
    BY <1>4, <1>6, <1>11, <1>12, <1>13 DEF Nest, Placed
  <2> QED BY <1>12, <1>14, <2>1 DEF Exits
<1>16. PICK to : to = ExitOf(u, b)
  OBVIOUS
<1>17. /\ u \in Todo /\ u.k = "else" /\ ~u.transfers /\ u.jump = Len(c.code) /\ u.then = t.transfers
       /\ Jumping(u.k) /\ u.k \in {"block", "then", "else", "default"} /\ u.k \notin LoopKinds
  <2>1. t.transfers \in BOOLEAN /\ Len(c.code) \in Nat
    <3>2. a \in State /\ Leads(a, b) /\ a.h = 0
      BY <1>10, <1>14 DEF Closes
    <3>3. Ends(c, a, Opened(o, Here(d), b), heads, Len(slots.types))
      BY <1>1, <1>10, <1>12, <1>14, <3>2, EndsJump
    <3>4. c \in Ctx
      BY <3>3, EndsOk
    <3> QED BY <1>6, <3>4 DEF Todo, Ctx
  <2> QED BY <1>1, <2>1 DEF Block, Todo, Jumping, BlockKinds, LoopKinds
<1>18. to \in State /\ Leads(a, to) /\ a \in State /\ a.h = 0
  <2>1. to = IF t.transfers THEN Dead ELSE b
    BY <1>16, <1>17 DEF ExitOf
  <2> QED BY <1>10, <1>14, <2>1, DeadState DEF Closes
<1>19. /\ Ends(c, b, Opened(o, Here(d), to), heads, Len(slots.types))
       /\ u.jump = Here(d) /\ u.jump \notin DOMAIN o
  <2>1. Ends(c, b, Opened(o, Here(d), to), heads, Len(slots.types))
    BY <1>1, <1>10, <1>12, <1>14, <1>18, EndsJump
  <2>2. Len(Emit(d, "Jump", 0).code) = Here(d)
    BY <1>10, <1>12, <1>14, <1>18, EndsJump
  <2>3. Here(d) \notin DOMAIN o
    BY <1>10, <1>12, NotedCode
  <2> QED BY <1>1, <1>17, <2>1, <2>2, <2>3
<1>20. Ends(PatchAllToHere(c, {t.jump}), b, Opened(Unpatched(o, {t.jump}), u.jump, to), heads, Len(slots.types))
  <2>1. PICK o2 : o2 = Opened(o, Here(d), to)
    OBVIOUS
  <2>2. o2[t.jump] = b /\ t.jump \in DOMAIN o2 /\ Unpatched(o2, {t.jump}) = Opened(Unpatched(o, {t.jump}), u.jump, to)
    <3>1. PICK at, j : at = Here(d) /\ j = t.jump
      OBVIOUS
    <3>2. at \notin DOMAIN o /\ j \in DOMAIN o
      BY <1>15, <1>19, <3>1
    <3>3. Unpatched(Opened(o, at, to), {j}) = Opened(Unpatched(o, {j}), at, to)
      BY <3>2, OpenedOther
    <3>4. Opened(o, at, to)[j] = o[j] /\ j \in DOMAIN Opened(o, at, to)
      BY <3>2 DEF Opened
    <3> QED BY <1>15, <1>19, <2>1, <3>1, <3>3, <3>4
  <2>3. {t.jump} \in SUBSET DOMAIN o2 /\ \A p \in {t.jump} : Leads(o2[p], b)
    BY <1>14, <2>2, LeadsSelf
  <2>4. Ends(PatchAllToHere(c, {t.jump}), b, Unpatched(o2, {t.jump}), heads, Len(slots.types))
    BY <1>19, <2>1, <2>3, EndsUnpatched
  <2> QED BY <2>2, <2>4
<1>21. PICK g2, lvl2 : Leaves(slots, loops, todo, declared, g, lvl, heads, FALSE, g2, lvl2)
  BY <1>4, <1>6, NestLeave
<1>22. PICK s2, d2, t2 : s2 = PopScope(slots) /\ d2 = Front(declared) /\ t2 = Front(todo)
  OBVIOUS
<1>23. /\ Nest(s2, loops, t2, d2, g2, lvl2) /\ HeadsOK(t2, g2, heads) /\ Len(g2) = n - 1 /\ Len(t2) = n - 1
       /\ g2[n - 1] = g[n - 1] /\ ~t2[Len(t2)].transfers /\ Exits(g2, lvl2) = Unpatched(o, {t.jump})
  <2>1. Outer(todo, FALSE) = t2
    <3>1. todo \in Seq(Todo) /\ Len(todo) = n /\ Len(todo) >= 2
      BY <1>4, <1>12, <1>13, NestTypes DEF Nest, Shaped
    <3>2. ~todo[Len(todo) - 1].transfers
      BY <1>4, <1>12, <1>13, <3>1 DEF Nest, Ordered
    <3>3. Outer(todo, FALSE) = Front(todo)
      BY <3>1, <3>2, OuterBlocks
    <3> QED BY <1>22, <3>3
  <2>2. SubSeq(declared, 1, g[Len(g) - 1].d) = d2
    BY <1>5, <1>8, <1>22 DEF Front
  <2> QED BY <1>6, <1>7, <1>9, <1>11, <1>12, <1>21, <1>22, <2>1, <2>2 DEF Leaves
<1>24. Knows(s2, d2, b) /\ loops \in Seq(Loops) /\ b = g2[Len(g2)].base /\ s2.types = slots.types
  <2>1. n - 1 \in 1 .. Len(g2)
    BY <1>13, <1>23
  <2>2. g2[n - 1] \in Level /\ LevelOK(s2, d2, g2[n - 1]) /\ g2[n - 1].h = Len(s2.scopes) /\ g2[n - 1].d = Len(d2)
    BY <1>23, <2>1, NestTypes DEF Nest
  <2>3. SlotsOK(s2) /\ DeclaredOK(s2, d2) /\ loops \in Seq(Loops)
    BY <1>23 DEF Nest, Shaped
  <2>4. Knows(s2, d2, g2[n - 1].base)
    BY <2>2, <2>3, LevelKnows
  <2> QED BY <1>4, <1>12, <1>22, <1>23, <2>3, <2>4 DEF PopScope, Nest, SlotsOK
<1>25. Enters(s2, d2, loops, b, s2, d2, loops, u, b, b)
  BY <1>17, <1>24, EntersPlain
<1>26. OpenIn(u, b, Exits(g2, lvl2)) = Opened(Unpatched(o, {t.jump}), u.jump, to)
  BY <1>16, <1>17, <1>23 DEF OpenIn
<1>27. u.jump \notin DOMAIN Exits(g2, lvl2)
  <2>1. u.jump \notin DOMAIN Unpatched(o, {t.jump})
    BY <1>19 DEF Unpatched
  <2> QED BY <1>23, <2>1
<1>28. PICK c2 : c2 = PatchAllToHere(c, {t.jump})
  OBVIOUS
<1>29. Ends(c2, b, OpenIn(u, b, Exits(g2, lvl2)), heads, Len(s2.types)) /\ heads \subseteq heads
  BY <1>20, <1>24, <1>26, <1>28
<1>30. Emitting(c2, PushScope(s2), loops, Append(t2, u), Append(d2, NoDecls))
  BY <1>17, <1>23, <1>24, <1>25, <1>27, <1>29, EmitsEnter
<1>31. Emitting(ctx', slots', loops', todo', declared')
  BY <1>2, <1>22, <1>28, <1>30
<1> QED BY <1>2, <1>31, Goes

\* A function's code: control stays in it, and every return finds the stack and the
\* objects as it should.
Compiled(c, top) ==
  \E open, heads : /\ DOMAIN open = {} /\ <<1, Start>> \in heads
                   /\ Ends(c, Dead, open, heads, top)

\* The body's own level.
LEMMA BodyLevel ==
  ASSUME NEW s, NEW ls, NEW todos, NEW decls, NEW g, NEW lvl, Nest(s, ls, todos, decls, g, lvl),
         Last(todos).k = "body"
  PROVE  /\ Len(g) = 1 /\ Len(todos) = 1 /\ Len(s.scopes) = 1 /\ Len(decls) = 1 /\ Len(ls) = 0
         /\ DOMAIN Exits(g, lvl) = {} /\ LevelOK(s, decls, g[1]) /\ g[1] \in Level
<1>1. Len(g) \in Nat \ {0} /\ Len(todos) = Len(g)
  BY NestTypes
<1>2. Len(g) = 1
  <2> SUFFICES ASSUME Len(g) # 1 PROVE FALSE
    OBVIOUS
  <2>1. Len(g) \in 2 .. Len(g)
    BY <1>1
  <2>2. todos[Len(g)].k \in BlockKinds
    BY <2>1, NestTypes
  <2> QED BY <1>1, <2>2 DEF Last, BlockKinds, LoopKinds
<1>3. g[1].h = 1 /\ g[1].d = 1 /\ g[1].n = 0
  BY DEF Nest, Shaped
<1>4. Len(s.scopes) = 1 /\ Len(decls) = 1 /\ Len(ls) = 0
  BY <1>2, <1>3 DEF Nest
<1>5. DOMAIN Exits(g, lvl) = {}
  <2>1. \A p \in DOMAIN lvl : lvl[p] \in 2 .. 1
    BY <1>2 DEF Nest, Placed
  <2>2. 2 .. 1 = {}
    OBVIOUS
  <2>3. DOMAIN lvl = {}
    BY <2>1, <2>2
  <2> QED BY <2>3 DEF Exits
<1>6. 1 \in 1 .. Len(g)
  BY <1>2
<1>7. LevelOK(s, decls, g[1]) /\ g[1] \in Level
  BY <1>6, NestTypes DEF Nest
<1> QED BY <1>1, <1>2, <1>4, <1>5, <1>7

\* Once its scope is popped, only the parameter is left.
LEMMA BodyPopped ==
  ASSUME NEW s, SlotsOK(s), Len(s.scopes) = 1
  PROVE  /\ SlotsOK(PopScope(s)) /\ PopScope(s).types = s.types /\ PopScope(s).scopes = << >>
         /\ Owners(s.scopes, 0) = {1} /\ Owners(PopScope(s).scopes, 0) = {1}
         /\ 1 \notin Within(PopScope(s).scopes, 1, 0)
<1>1. s.scopes \in Seq(Seq(Nat \ {0})) /\ s.scopes # << >>
  BY DEF SlotsOK
<1>2. Front(s.scopes) = << >>
  <2>1. Front(s.scopes) = SubSeq(s.scopes, 1, 0)
    BY <1>1 DEF Front
  <2> QED BY <1>1, <2>1
<1>3. PICK u : u = PopScope(s)
  OBVIOUS
<1>4. u = [s EXCEPT !.scopes = << >>]
  BY <1>2, <1>3 DEF PopScope
<1>5. u.types = s.types /\ u.of = s.of /\ u.params = s.params /\ u.scopes = << >>
      /\ u \in [types : Seq(SlotTypes), of : [Names -> Nat], scopes : Seq(Seq(Nat \ {0})), params : {<<1>>}]
  <2>1. << >> \in Seq(Seq(Nat \ {0}))
    OBVIOUS
  <2>2. s \in [types : Seq(SlotTypes), of : [Names -> Nat], scopes : Seq(Seq(Nat \ {0})), params : {<<1>>}]
    BY DEF SlotsOK
  <2> HIDE DEF SlotsOK
  <2>3. PICK T, O, Q, P : T = Seq(SlotTypes) /\ O = [Names -> Nat] /\ Q = Seq(Seq(Nat \ {0})) /\ P = {<<1>>}
    OBVIOUS
  <2>4. s \in [types : T, of : O, scopes : Q, params : P] /\ << >> \in Q
    BY <2>1, <2>2, <2>3
  <2>5. /\ u.types = s.types /\ u.of = s.of /\ u.params = s.params /\ u.scopes = << >>
        /\ u \in [types : T, of : O, scopes : Q, params : P]
    BY <1>4, <2>4
  <2> QED BY <2>3, <2>5
<1>6. Apart(u.types, u.scopes)
  BY <1>5 DEF Apart
<1>7. SlotsOK(u)
  BY <1>5, <1>6 DEF SlotsOK
<1>8. \A sc : Within(sc, 1, 0) = {}
  BY DEF Within
<1> QED BY <1>3, <1>5, <1>7, <1>8 DEF Owners

\* The end of the function.
LEMMA EndBodyCompiles ==
  ASSUME Compiling, EndBody
  PROVE  /\ phase' = "run" /\ todo' = << >> /\ declared' = << >>
         /\ SlotsOK(slots') /\ Compiled(ctx', Len(slots'.types))
<1>1. PICK t : t = Last(todo)
  OBVIOUS
<1>2. /\ t.k = "body"
      /\ ctx' = IF t.transfers THEN Closed ELSE Emit(EmitReturnDrops(Closed, PopScope(slots)), "ReturnVoid", 0)
      /\ phase' = IF ctx'.ok /\ ctx'.depth = 0 /\ ctx'.owned = << >> THEN "run" ELSE "abort"
      /\ todo' = << >> /\ slots' = PopScope(slots)
      /\ declared' = SubSeq(declared, 1, Len(declared) - 1)
  BY <1>1 DEF EndBody, Reveal
<1>3. PICK g, lvl, heads : Emits(ctx, slots, loops, todo, declared, g, lvl, heads)
  BY DEF Compiling, Emitting
<1>4. Nest(slots, loops, todo, declared, g, lvl) /\ HeadsOK(todo, g, heads)
  BY <1>3 DEF Emits
<1>5. /\ Len(g) = 1 /\ Len(todo) = 1 /\ Len(slots.scopes) = 1 /\ Len(declared) = 1
      /\ DOMAIN Exits(g, lvl) = {} /\ LevelOK(slots, declared, g[1]) /\ g[1] \in Level
  BY <1>1, <1>2, <1>4, BodyLevel
<1>6. SlotsOK(slots) /\ declared \in Seq([Names -> Nat])
  BY <1>4 DEF Nest, DeclaredOK
<1>7. declared' = << >>
  BY <1>2, <1>5, <1>6
<1>8. PICK u : u = PopScope(slots)
  OBVIOUS
<1>9. /\ SlotsOK(u) /\ u.types = slots.types /\ u.scopes = << >>
      /\ Owners(slots.scopes, 0) = {1} /\ Owners(u.scopes, 0) = {1} /\ 1 \notin Within(u.scopes, 1, 0)
  BY <1>5, <1>6, <1>8, BodyPopped
<1>10. PICK a : /\ Dropped(a, slots, t, g[1].base)
                /\ Ends(Closed, a, Exits(g, lvl), heads, Len(slots.types))
  BY <1>1, <1>3, <1>5, EndsDropped DEF Closed, Last
<1>11. a \in State /\ a.h = 0
  BY <1>10 DEF Dropped
<1>12. Ends(ctx', Dead, Exits(g, lvl), heads, Len(slots.types))
  <2>1. CASE t.transfers
    <3>1. Leads(a, Dead)
      BY <1>10, <2>1, DeadState DEF Dropped
    <3> QED BY <1>2, <1>10, <1>11, <2>1, <3>1, DeadState, EndsLess
  <2>2. CASE ~t.transfers
    <3>1. Live(a) /\ a.env = g[1].base.env /\ a.held = HeldBy(slots.types, Owners(slots.scopes, Len(slots.scopes) - 1))
      BY <1>10, <2>2 DEF Dropped
    <3>2. a.held = HeldBy(u.types, {1})
      <4>1. Len(slots.scopes) - 1 = 0
        BY <1>5
      <4>2. a.held = HeldBy(u.types, Owners(slots.scopes, 0))
        BY <1>9, <3>1, <4>1
      <4> QED BY <1>9, <4>2
    <3>3. 1 \in Owners(slots.scopes, g[1].h)
      BY DEF Owners
    <3>4. a.env[1] = Kind(u.types[1])
      BY <1>5, <1>9, <3>1, <3>3 DEF LevelOK
    <3>5. Places(1, Kind(u.types[1])) \subseteq a.held
      BY <3>2 DEF HeldBy
    <3>6. Holds(a, u.types, {1})
      BY <3>4, <3>5 DEF Holds
    <3>7. /\ Apart(u.types, u.scopes) /\ u.params = <<1>> /\ u.types[1] = "string" /\ Len(u.scopes) = 0
      BY <1>9 DEF SlotsOK
    <3>8. Holds(a, u.types, Owners(u.scopes, Len(u.scopes))) /\ 1 \notin Within(u.scopes, 1, Len(u.scopes))
      BY <1>9, <3>6, <3>7
    <3>9. Ends(EmitReturnDrops(Closed, u), Without(a, HeldBy(u.types, Owners(u.scopes, Len(u.scopes)))),
               Exits(g, lvl), heads, Len(slots.types))
      BY <1>10, <1>11, <3>7, <3>8, EndsReturnDrops
    <3>10. PICK d : d = Without(a, HeldBy(u.types, {1}))
      OBVIOUS
    <3>11. Ends(EmitReturnDrops(Closed, u), d, Exits(g, lvl), heads, Len(slots.types))
      BY <1>9, <3>7, <3>9, <3>10
    <3>12. d \in State /\ d.h = 0 /\ d.held = {}
      BY <1>11, <3>2, <3>10, WithoutState
    <3>13. Ends(Emit(EmitReturnDrops(Closed, u), "ReturnVoid", 0), Dead, Exits(g, lvl), heads, Len(slots.types))
      BY <3>11, <3>12, DeadState, EndsReturnVoid
    <3> QED BY <1>2, <1>8, <2>2, <3>13
  <2> QED BY <2>1, <2>2
<1>13. ctx'.ok /\ ctx'.depth = 0 /\ Len(ctx'.owned) = 0 /\ ctx' \in Ctx
  BY <1>12, DeadState, EndsOk
<1>14. ctx'.owned = << >>
  BY <1>13 DEF Ctx
<1>15. <<1, Start>> \in heads
  BY <1>4 DEF HeadsOK
<1>16. Compiled(ctx', Len(slots.types))
  BY <1>5, <1>12, <1>15 DEF Compiled
<1> QED BY <1>2, <1>7, <1>8, <1>9, <1>13, <1>14, <1>16

\* The first level, of a function's body.
BodyFirst == [h |-> 1, d |-> 1, n |-> 0, base |-> Start, exit |-> Dead, head |-> Start]

\* What nests before the first statement.
LEMMA NestInit ==
  /\ Nest(InitialSlots, << >>, <<Block("body")>>, <<NoDecls>>, <<BodyFirst>>, [p \in {} |-> 1])
  /\ ~Block("body").transfers
<1>1. PICK s, t, d, r : s = InitialSlots /\ t = Block("body") /\ d = NoDecls /\ r = BodyFirst
  OBVIOUS
<1>2. /\ s.types = <<"string">> /\ s.of = NoDecls /\ s.scopes = << << >> >> /\ s.params = <<1>>
  BY <1>1 DEF InitialSlots
<1>3. d \in [Names -> Nat] /\ \A nm \in Names : d[nm] = 0
  BY <1>1 DEF NoDecls, NoSlot
<1>4. SlotsOK(s)
  <2>1. s \in [types : Seq(SlotTypes), of : [Names -> Nat], scopes : Seq(Seq(Nat \ {0})), params : {<<1>>}]
    <3>1. <<"string">> \in Seq(SlotTypes)
      BY DEF SlotTypes
    <3>2. << << >> >> \in Seq(Seq(Nat \ {0}))
      OBVIOUS
    <3>3. NoDecls \in [Names -> Nat]
      BY <1>1, <1>3
    <3> QED BY <1>1, <3>1, <3>2, <3>3 DEF InitialSlots
  <2>2. Len(s.types) = 1 /\ s.types[1] = "string" /\ Len(s.scopes) = 1 /\ s.scopes[1] = << >> /\ Len(<< >>) = 0
    BY <1>2
  <2>3. Apart(s.types, s.scopes)
    <3>1. s.scopes \in Seq(Seq(Nat \ {0}))
      BY <2>1
    <3>2. \A i \in 1 .. Len(s.scopes) : Len(s.scopes[i]) = 0
      BY <2>2
    <3> QED BY <3>1, <3>2 DEF Apart
  <2>4. \A nm \in Names : s.of[nm] = 0
    BY <1>1, <1>2, <1>3
  <2>5. \A i \in 1 .. Len(s.scopes) : \A m \in 1 .. Len(s.scopes[i]) : s.scopes[i][m] \in 2 .. Len(s.types)
    BY <2>2
  <2> QED BY <2>1, <2>2, <2>3, <2>4, <2>5 DEF SlotsOK
<1>5. DeclaredOK(s, <<d>>)
  BY <1>3 DEF DeclaredOK
<1>6. /\ r \in Level /\ r.h = 1 /\ r.d = 1 /\ r.n = 0 /\ r.base = Start
  BY <1>1, DeadState DEF BodyFirst, Level
<1>7. t \in Todo /\ t.k = "body" /\ ~t.transfers
  BY <1>1 DEF Block, Todo
<1>8. Owners(s.scopes, 1) = {1}
  <2>1. Within(s.scopes, 1, 1) = {}
    <3>1. \A l \in 1 .. 1 : s.scopes[l] = << >> /\ Range(<< >>) = {}
      BY <1>2 DEF Range
    <3> QED BY <3>1 DEF Within
  <2> QED BY <2>1 DEF Owners
<1>9. LevelOK(s, <<d>>, r)
  <2>1. Start.held = {<<1, 0>>} /\ Start.env[1] = "string" /\ \A x \in Nat : Start.env[x] # "unset" => x = 1
    BY DEF Start
  <2>2. HeldBy(s.types, {1}) = {<<1, 0>>}
    BY <1>2 DEF HeldBy, Places, Kind
  <2>3. Kind(s.types[1]) = "string"
    BY <1>2 DEF Kind
  <2>4. PICK e : e = <<d>>
    OBVIOUS
  <2>5. Len(e) = 1 /\ e[1] = d /\ Len(s.scopes) = 1
    BY <1>2, <2>4
  <2>6. \A i \in 1 .. r.d, nm \in Names : e[i][nm] = 0
    <3>1. \A i \in 1 .. r.d : i = 1
      BY <1>6
    <3> QED BY <1>3, <2>5, <3>1
  <2>7. \A x \in Nat : r.base.env[x] # "unset" => x \in 1 .. Len(s.types)
    BY <1>2, <1>6, <2>1
  <2>8. r.base.held = HeldBy(s.types, Owners(s.scopes, r.h)) /\ \A x \in Owners(s.scopes, r.h) : r.base.env[x] = Kind(s.types[x])
    BY <1>6, <1>8, <2>1, <2>2, <2>3
  <2>9. r.h \in 1 .. Len(s.scopes) /\ r.d \in 1 .. Len(e)
    BY <1>6, <2>5
  <2>10. Live(r.base) /\ r.base.h = 0
    BY <1>6, DeadState
  <2>11. LevelOK(s, e, r)
    BY <2>6, <2>7, <2>8, <2>9, <2>10 DEF LevelOK
  <2> QED BY <2>4, <2>11
<1>10. Shaped(<< >>, <<t>>, <<r>>)
  BY <1>6, <1>7 DEF Shaped
<1>11. 2 .. 1 = {} /\ Len(<<r>>) = 1 /\ Len(<<t>>) = 1
  OBVIOUS
<1>12. Ordered(<<t>>, <<r>>)
  <2>1. \A j, k \in 1 .. 1 : ~(j < k)
    OBVIOUS
  <2> QED BY <1>11, <2>1 DEF Ordered
<1>13. Placed(<< >>, <<t>>, <<r>>, [p \in {} |-> 1])
  BY <1>11 DEF Placed
<1>14. Nest(s, << >>, <<t>>, <<d>>, <<r>>, [p \in {} |-> 1])
  <2>1. PICK ls, ts, ds, g, lvl : ls = << >> /\ ts = <<t>> /\ ds = <<d>> /\ g = <<r>> /\ lvl = [p \in {} |-> 1]
    OBVIOUS
  <2>2. /\ Len(g) = 1 /\ g[1] = r /\ Len(ls) = 0 /\ Len(ds) = 1 /\ Len(s.scopes) = 1 /\ Len(ts) = 1
        /\ \A k \in 1 .. Len(g) : k = 1
        /\ 2 .. Len(g) = {} /\ 1 .. Len(ls) = {}
    BY <1>2, <1>11, <2>1
  <2>3. SlotsOK(s) /\ DeclaredOK(s, ds) /\ Shaped(ls, ts, g)
    BY <1>4, <1>5, <1>10, <2>1
  <2>4. Ordered(ts, g) /\ Placed(ls, ts, g, lvl) /\ LevelOK(s, ds, r)
    BY <1>9, <1>12, <1>13, <2>1
  <2>5. g[Len(g)].h = Len(s.scopes) /\ g[Len(g)].d = Len(ds) /\ g[Len(g)].n = Len(ls)
    BY <1>6, <2>2
  <2>6. Nest(s, ls, ts, ds, g, lvl)
    BY <2>2, <2>3, <2>4, <2>5 DEF Nest
  <2> QED BY <2>1, <2>6
<1> QED BY <1>1, <1>7, <1>14

\* The compiler starts between two of its steps.
LEMMA StartCompiles ==
  ASSUME Init
  PROVE  Compiling
<1>1. /\ slots = InitialSlots /\ loops = << >> /\ todo = <<Block("body")>> /\ declared = <<NoDecls>> /\ phase = "emit"
  BY DEF Init
<1>2. PICK g, lvl : g = <<BodyFirst>> /\ lvl = [p \in {} |-> 1]
  OBVIOUS
<1>3. Nest(slots, loops, todo, declared, g, lvl) /\ ~Block("body").transfers
  BY <1>1, <1>2, NestInit
<1>4. PICK heads : heads = {<<1, Start>>}
  OBVIOUS
<1>5. Len(g) = 1 /\ g[1].base = Start /\ Now(todo, g) = Start
  BY <1>1, <1>2, <1>3 DEF BodyFirst, Now
<1>6. HeadsOK(todo, g, heads)
  BY <1>4, <1>5 DEF HeadsOK
<1>7. PICK open : open = Exits(g, lvl)
  OBVIOUS
<1>8. DOMAIN open = {}
  BY <1>2, <1>7 DEF Exits
<1>9. PICK notes : notes = [i \in Nat |-> Start]
  OBVIOUS
<1>10. PICK c : c = ctx
  OBVIOUS
<1>11. c = [code |-> << >>, at |-> << >>, depth |-> 0, max |-> 0, owned |-> << >>, ok |-> TRUE]
  BY <1>10 DEF Init
<1>12. Here(c) = 1 /\ Len(c.code) = 0 /\ c.depth = 0
  BY <1>11 DEF Here
<1>13. Balanced(c)
  BY <1>11 DEF Balanced, Ctx
<1>14. notes \in [Nat -> State] /\ notes[1] = Start
  BY <1>9, DeadState
<1>15. \A e \in heads : e \in (1 .. Here(c)) \X State /\ Leads(e[2], notes[e[1]])
  BY <1>4, <1>12, <1>14, DeadState, LeadsSelf
<1>16. Len(slots.types) = 1
  BY <1>1 DEF InitialSlots
<1>17. Sound(c, notes, open, heads, 1)
  <2>1. 1 .. 0 = {}
    OBVIOUS
  <2> QED BY <1>8, <1>12, <1>13, <1>14, <1>15, <2>1, DeadState DEF Sound
<1>18. Ends(ctx, Now(todo, g), Exits(g, lvl), heads, Len(slots.types))
  BY <1>5, <1>7, <1>10, <1>12, <1>14, <1>16, <1>17 DEF Ends
<1>19. Emitting(ctx, slots, loops, todo, declared)
  BY <1>3, <1>6, <1>18 DEF Emits, Emitting
<1> QED BY <1>1, <1>19 DEF Compiling

\* The steps of the compiler that stay in the body.
LEMMA NextCompiles ==
  ASSUME Gaps = {}, Compiling, Next, ~EndBody
  PROVE  Compiling'
<1>1. ASSUME NEW name \in Names, NEW type \in LocalTypes, NEW e \in Expressions("let", type), VarDecl(name, type, e)
      PROVE  Compiling'
  BY <1>1, VarDeclCompiles
<1>2. ASSUME NEW name \in Names, Resolve(name) # NoSlot,
             NEW e \in Expressions("assign", slots.types[Resolve(name)]), Assign(name, e)
      PROVE  Compiling'
  BY <1>2, AssignCompiles
<1>3. ASSUME NEW type \in {"void", "bool", "string"}, NEW e \in Expressions("expr", type), ExprStmt(type, e)
      PROVE  Compiling'
  BY <1>3, ExprStmtCompiles
<1>4. ASSUME NEW e \in Expressions("return", "string"), ReturnValue(e) PROVE Compiling'
  BY <1>4, ReturnValueCompiles
<1>5. CASE ReturnVoid
  BY <1>5, ReturnVoidCompiles
<1>6. ASSUME NEW l \in DOMAIN loops, Break(l) \/ Continue(l) PROVE Compiling'
  <2>1. CASE Break(l)
    BY <2>1, BreakCompiles
  <2>2. CASE Continue(l)
    BY <2>2, ContinueCompiles
  <2> QED BY <1>6, <2>1, <2>2
<1>7. CASE BeginBlock
  BY <1>7, BeginBlockCompiles
<1>8. CASE EndBlock \/ EndDefault
  BY <1>8, EndBlockCompiles
<1>9. ASSUME NEW e \in Expressions("test", "bool"), BeginIf(e) \/ BeginWhile(e) PROVE Compiling'
  <2>1. CASE BeginIf(e)
    BY <2>1, BeginIfCompiles
  <2>2. CASE BeginWhile(e)
    BY <2>2, BeginWhileCompiles
  <2> QED BY <1>9, <2>1, <2>2
<1>10. CASE EndThen
  BY <1>10, EndThenCompiles
<1>11. CASE BeginElse
  BY <1>11, BeginElseCompiles
<1>12. CASE EndElse
  BY <1>12, EndElseCompiles
<1>13. CASE EndWhile
  BY <1>13, EndWhileCompiles
<1>14. ASSUME NEW name \in Names, BeginFor(name) PROVE Compiling'
  BY <1>14, BeginForCompiles
<1>15. CASE EndFor
  BY <1>15, EndForCompiles
<1>16. ASSUME NEW name \in Names, NEW column \in BOOLEAN, BeginRows(name, column) PROVE Compiling'
  BY <1>16, BeginRowsCompiles
<1>17. CASE EndRows
  BY <1>17, EndRowsCompiles
<1>18. ASSUME NEW cases \in 0 .. 1, BeginSwitch(cases) PROVE Compiling'
  BY <1>18, BeginSwitchCompiles
<1> QED
  BY <1>1, <1>2, <1>3, <1>4, <1>5, <1>6, <1>7, <1>8, <1>9, <1>10, <1>11, <1>12, <1>13, <1>14,
     <1>15, <1>16, <1>17, <1>18 DEF Next

\* Every step of the compiler is one of a body that is being emitted, and counts its statements.
LEMMA NextCounts ==
  ASSUME Next
  PROVE  /\ phase = "emit" /\ returns' = returns
         /\ stmts' = stmts \/ (stmts < MaxStmts /\ stmts' = stmts + 1)
<1> USE DEF Statement, MayEmit, Settle, Leave
<1>1. ASSUME NEW name \in Names, NEW type \in LocalTypes, NEW e \in Expressions("let", type), VarDecl(name, type, e)
      PROVE  phase = "emit" /\ returns' = returns /\ stmts < MaxStmts /\ stmts' = stmts + 1
  BY <1>1 DEF VarDecl
<1>2. ASSUME NEW name \in Names, NEW e, Assign(name, e)
      PROVE  phase = "emit" /\ returns' = returns /\ stmts < MaxStmts /\ stmts' = stmts + 1
  BY <1>2 DEF Assign
<1>3. ASSUME NEW type, NEW e, ExprStmt(type, e)
      PROVE  phase = "emit" /\ returns' = returns /\ stmts < MaxStmts /\ stmts' = stmts + 1
  BY <1>3 DEF ExprStmt
<1>4. ASSUME NEW e, ReturnValue(e)
      PROVE  phase = "emit" /\ returns' = returns /\ stmts' = stmts
  BY <1>4 DEF ReturnValue
<1>5. ReturnVoid => phase = "emit" /\ returns' = returns /\ stmts' = stmts
  BY DEF ReturnVoid
<1>6. ASSUME NEW l, Break(l) \/ Continue(l)
      PROVE  phase = "emit" /\ returns' = returns /\ stmts < MaxStmts /\ stmts' = stmts + 1
  BY <1>6 DEF Break, Continue
<1>7. BeginBlock => phase = "emit" /\ returns' = returns /\ stmts < MaxStmts /\ stmts' = stmts + 1
  BY DEF BeginBlock
<1>8. ASSUME NEW e, BeginIf(e) \/ BeginWhile(e)
      PROVE  phase = "emit" /\ returns' = returns /\ stmts < MaxStmts /\ stmts' = stmts + 1
  BY <1>8 DEF BeginIf, BeginWhile
<1>9. EndBlock \/ EndDefault => phase = "emit" /\ returns' = returns /\ stmts' = stmts
  BY DEF EndBlock, EndDefault
<1>10. EndThen \/ EndElse => phase = "emit" /\ returns' = returns /\ stmts' = stmts
  BY DEF EndThen, EndElse
<1>11. BeginElse => phase = "emit" /\ returns' = returns /\ stmts' = stmts
  BY DEF BeginElse
<1>12. EndWhile \/ EndFor \/ EndRows => phase = "emit" /\ returns' = returns /\ stmts' = stmts
  BY DEF EndWhile, EndFor, EndRows
<1>13. ASSUME NEW name, BeginFor(name)
       PROVE  phase = "emit" /\ returns' = returns /\ stmts < MaxStmts /\ stmts' = stmts + 1
  BY <1>13 DEF BeginFor
<1>14. ASSUME NEW name, NEW column, BeginRows(name, column)
       PROVE  phase = "emit" /\ returns' = returns /\ stmts < MaxStmts /\ stmts' = stmts + 1
  BY <1>14 DEF BeginRows
<1>15. ASSUME NEW cases, BeginSwitch(cases)
       PROVE  phase = "emit" /\ returns' = returns /\ stmts < MaxStmts /\ stmts' = stmts + 1
  BY <1>15 DEF BeginSwitch
<1>16. EndBody => phase = "emit" /\ returns' = returns /\ stmts' = stmts
  BY DEF EndBody
<1> HIDE DEF Statement, MayEmit, Settle, Leave
<1> QED
  BY <1>1, <1>2, <1>3, <1>4, <1>5, <1>6, <1>7, <1>8, <1>9, <1>10, <1>11, <1>12, <1>13, <1>14, <1>15, <1>16 DEF Next

-----------------------------------------------------------------------------
(* What the frame holds, where the state a says what is known of it.       *)

Plain == [t : {"string", "int", "bool", "row", "nil"}, v : Nat \union SUBSET BOOLEAN]
Values == Plain \union [t : {"strs"}, v : Seq(Plain)]

\* A value of a kind that a slot may have.
HasKind(v, kind) ==
  /\ kind = "data" => v.t \in {"int", "bool", "row"}
  /\ kind = "string" => v.t = "string"
  /\ kind = "strs" => /\ v.t = "strs" /\ Len(v.v) = ArrayLength
                      /\ \A i \in 1 .. ArrayLength : v.v[i].t = "string"

\* Entry j of the operand stack is as t says.
Shows(st, loc, t, j) ==
  /\ HasKind(st[j], t.k)
  /\ t.k = "maybe" => st[j].t \in {"string", "nil"}
  /\ t.k = "nil" => st[j].t = "nil"
  /\ t.k = "slot" => t.s \in DOMAIN loc /\ t.i = 0 /\ st[j] = loc[t.s]
  /\ t.k = "element" => t.s \in DOMAIN loc /\ st[j] = loc[t.s].v[t.i]
  /\ t.k = "copy" => j >= 2 /\ st[j] = st[j - 1]
  /\ t.k = "isnil" => j >= 2 /\ st[j].v = {st[j - 1].t = "nil"}

\* What the slots and the entries hold has the kinds that a knows.
Typed(st, loc, a) ==
  /\ a \in State /\ Live(a)
  /\ st \in Seq(Values) /\ Len(st) = a.h
  /\ loc \in [DOMAIN loc -> Values] /\ DOMAIN loc \subseteq Nat
  /\ \A s \in Nat : a.env[s] # "unset" => s \in DOMAIN loc /\ HasKind(loc[s], a.env[s])
  /\ \A j \in 1 .. a.h : Shows(st, loc, a.tag[j], j)
  /\ \A p \in a.held : p[1] \in DOMAIN loc

\* The kind of what an entry t owns, where the value is v.
Owns(t, v) ==
  IF t.k = "string" \/ (t.k = "maybe" /\ v.t = "string") THEN "string"
  ELSE IF t.k = "strs" THEN "strs" ELSE "data"

\* The places, of slots and of entries, whose objects are allocated.
Own(st, a) ==
  {o \in {"slot", "stack"} \X Nat \X Nat :
     \/ o[1] = "slot" /\ <<o[2], o[3]>> \in a.held
     \/ /\ o[1] = "stack" /\ o[2] \in 1 .. a.h
        /\ <<o[2], o[3]>> \in Places(o[2], Owns(a.tag[o[2]], st[o[2]]))}

\* The object of a place.
Obj(st, loc, o) ==
  LET v == IF o[1] = "slot" THEN loc[o[2]] ELSE st[o[2]]
  IN  IF o[3] = 0 THEN v.v ELSE v.v[o[3]].v

\* Each object that is allocated is that of exactly one place.
Exact(st, loc, hp, T) ==
  /\ \A o \in T : Obj(st, loc, o) \in hp
  /\ \A x \in hp : \E o \in T : Obj(st, loc, o) = x
  /\ \A o, p \in T : Obj(st, loc, o) = Obj(st, loc, p) => o = p

\* Only finitely many objects are known.
Bounded(st, loc, hp, m) ==
  /\ m \in Nat /\ hp \subseteq 1 .. m
  /\ \A j \in 1 .. Len(st) : RefsOf(st[j]) \subseteq 1 .. m
  /\ \A s \in DOMAIN loc : RefsOf(loc[s]) \subseteq 1 .. m

Matches(st, loc, hp, a) ==
  /\ Typed(st, loc, a) /\ Exact(st, loc, hp, Own(st, a))
  /\ \E m : Bounded(st, loc, hp, m)

\* The objects stay, and each place's is that of another.
LEMMA ExactMoved ==
  ASSUME NEW st, NEW loc, NEW hp, NEW T, Exact(st, loc, hp, T), NEW st2, NEW loc2, NEW T2,
         NEW m \in [T -> T2], \A q \in T2 : \E o \in T : m[o] = q,
         \A o \in T : Obj(st2, loc2, m[o]) = Obj(st, loc, o)
  PROVE  Exact(st2, loc2, hp, T2)
<1> USE DEF Exact
<1>1. \A q \in T2 : \E o \in T : m[o] = q /\ Obj(st2, loc2, q) = Obj(st, loc, o)
  OBVIOUS
<1>2. \A q \in T2 : Obj(st2, loc2, q) \in hp
  BY <1>1
<1>3. ASSUME NEW x \in hp PROVE \E q \in T2 : Obj(st2, loc2, q) = x
  <2>1. PICK o \in T : Obj(st, loc, o) = x
    OBVIOUS
  <2>2. m[o] \in T2 /\ Obj(st2, loc2, m[o]) = x
    BY <2>1
  <2> QED BY <2>2
<1>4. ASSUME NEW q \in T2, NEW r \in T2, Obj(st2, loc2, q) = Obj(st2, loc2, r) PROVE q = r
  <2>1. PICK o \in T : m[o] = q /\ Obj(st2, loc2, q) = Obj(st, loc, o)
    BY <1>1
  <2>2. PICK p \in T : m[p] = r /\ Obj(st2, loc2, r) = Obj(st, loc, p)
    BY <1>1
  <2> QED BY <1>4, <2>1, <2>2
<1> QED BY <1>2, <1>3, <1>4

\* The places stay, and their objects.
LEMMA ExactKept ==
  ASSUME NEW st, NEW loc, NEW hp, NEW T, Exact(st, loc, hp, T), NEW st2, NEW loc2,
         \A o \in T : Obj(st2, loc2, o) = Obj(st, loc, o)
  PROVE  Exact(st2, loc2, hp, T)
BY DEF Exact

\* A place more, of an object that was not allocated.
LEMMA ExactMore ==
  ASSUME NEW st, NEW loc, NEW hp, NEW T, Exact(st, loc, hp, T), NEW st2, NEW loc2, NEW o, NEW x,
         \A p \in T : Obj(st2, loc2, p) = Obj(st, loc, p), Obj(st2, loc2, o) = x, x \notin hp
  PROVE  Exact(st2, loc2, hp \union {x}, T \union {o})
BY DEF Exact

\* A place less, and its object.
LEMMA ExactLess ==
  ASSUME NEW st, NEW loc, NEW hp, NEW T, Exact(st, loc, hp, T), NEW st2, NEW loc2, NEW o \in T,
         \A p \in T : p # o => Obj(st2, loc2, p) = Obj(st, loc, p)
  PROVE  Exact(st2, loc2, hp \ {Obj(st, loc, o)}, T \ {o})
BY DEF Exact

\* An address that is free.
LEMMA FreshFree ==
  ASSUME NEW m, Bounded(stack, locals, heap, m), stack \in Seq(Values)
  PROVE  Fresh \in Nat \ {0} /\ Fresh \notin heap
<1> DEFINE S == heap \union Referenced
<1>1. S \subseteq 1 .. m
  <2>1. \A j \in DOMAIN stack : RefsOf(stack[j]) \subseteq 1 .. m
    BY DEF Bounded
  <2> QED BY <2>1 DEF Bounded, Referenced
<1>2. IsFiniteSet(S) /\ Cardinality(S) \in Nat
  <2>1. IsFiniteSet(1 .. m)
    BY FS_Interval DEF Bounded
  <2> HIDE DEF S
  <2> QED BY <1>1, <2>1, FS_Subset, FS_CardinalityType
<1> HIDE DEF S
<1>3. PICK k : k = Cardinality(S) + 1
  OBVIOUS
<1>4. \E i \in 1 .. k : i \notin S
  <2> SUFFICES ASSUME 1 .. k \subseteq S PROVE FALSE
    OBVIOUS
  <2>1. Cardinality(1 .. k) <= Cardinality(S)
    BY <1>2, FS_Subset
  <2>2. Cardinality(1 .. k) = k
    <3>1. k \in Int /\ 1 \in Int /\ ~(1 > k) /\ k - 1 + 1 = k
      BY <1>2, <1>3
    <3> QED BY <3>1, FS_Interval
  <2> QED BY <1>2, <1>3, <2>1, <2>2
<1>5. Fresh = CHOOSE i \in 1 .. k : i \notin S
  BY <1>3 DEF Fresh, S
<1>6. Fresh \in 1 .. k /\ Fresh \notin S
  BY <1>4, <1>5
<1> QED BY <1>6 DEF S

\* The places of entry j that the objects of a value of a kind have.
Tokens(j, kind) == {o \in {"stack"} \X Nat \X Nat : o[2] = j /\ <<j, o[3]>> \in Places(j, kind)}

\* The stack with one value more, and without its last n.
LEMMA Stacks ==
  ASSUME NEW st \in Seq(Values), NEW v \in Values, NEW n \in 0 .. Len(st)
  PROVE  /\ Append(st, v) \in Seq(Values) /\ Len(Append(st, v)) = Len(st) + 1 /\ Len(st) \in Nat
         /\ Append(st, v)[Len(st) + 1] = v /\ \A j \in 1 .. Len(st) : Append(st, v)[j] = st[j]
         /\ SubSeq(st, 1, Len(st) - n) \in Seq(Values) /\ Len(SubSeq(st, 1, Len(st) - n)) = Len(st) - n
         /\ \A j \in 1 .. Len(st) - n : SubSeq(st, 1, Len(st) - n)[j] = st[j]
         /\ n = 0 => SubSeq(st, 1, Len(st) - n) = st
         /\ n = 1 => Last(st) = st[Len(st)]
<1> USE DEF Last
<1>1. Len(st) \in Nat /\ n \in Nat /\ n <= Len(st)
  OBVIOUS
<1>2. /\ Append(st, v) \in Seq(Values) /\ Len(Append(st, v)) = Len(st) + 1
      /\ Append(st, v)[Len(st) + 1] = v /\ \A j \in 1 .. Len(st) : Append(st, v)[j] = st[j]
  OBVIOUS
<1>3. PICK k : k = Len(st) - n
  OBVIOUS
<1>4. k \in 0 .. Len(st)
  BY <1>1, <1>3
<1>5. SubSeq(st, 1, k) \in Seq(Values) /\ Len(SubSeq(st, 1, k)) = k /\ \A j \in 1 .. k : SubSeq(st, 1, k)[j] = st[j]
  BY <1>1, <1>4
<1>6. n = 0 => SubSeq(st, 1, k) = st
  BY <1>1, <1>3
<1> QED BY <1>1, <1>2, <1>3, <1>5, <1>6

\* What is known may be forgotten.
LEMMA MatchesLeads ==
  ASSUME NEW st, NEW loc, NEW hp, NEW a, Matches(st, loc, hp, a), NEW b \in State, Leads(a, b)
  PROVE  Matches(st, loc, hp, b)
<1>1. Typed(st, loc, a) /\ Live(a)
  BY DEF Matches, Typed
<1>2. /\ Live(b) /\ b.h = a.h /\ b.held = a.held
      /\ \A j \in 1 .. a.h : b.tag[j] = a.tag[j]
      /\ \A s \in Nat : b.env[s] # "unset" => b.env[s] = a.env[s]
  BY <1>1 DEF Leads
<1>3. Typed(st, loc, b)
  BY <1>1, <1>2 DEF Typed
<1>4. Own(st, b) = Own(st, a)
  BY <1>2 DEF Own
<1> QED BY <1>3, <1>4 DEF Matches

\* The places once a value is pushed, and popped.
LEMMA OwnPush ==
  ASSUME NEW st, NEW loc, NEW a, Typed(st, loc, a), NEW t \in Entry, NEW v \in Values
  PROVE  Own(Append(st, v), Push(a, t)) = Own(st, a) \union Tokens(a.h + 1, Owns(t, v))
<1>1. PICK b, u : b = Push(a, t) /\ u = Append(st, v)
  OBVIOUS
<1>2. /\ st \in Seq(Values) /\ Len(st) = a.h /\ a \in State
  BY DEF Typed
<1>3. /\ b.h = a.h + 1 /\ b.held = a.held /\ a.h \in Nat /\ b.tag[a.h + 1] = t
      /\ \A j \in 1 .. a.h : b.tag[j] = a.tag[j]
  <2>1. /\ b.h = a.h + 1 /\ b.held = a.held /\ a.h \in Nat /\ TopOf(b) = t
        /\ \A j \in 1 .. a.h : b.tag[j] = a.tag[j]
    BY <1>1, <1>2, PushState
  <2> QED BY <2>1 DEF TopOf
<1>4. u[a.h + 1] = v /\ \A j \in 1 .. a.h : u[j] = st[j]
  BY <1>1, <1>2, Stacks
<1>5. \A j \in 1 .. b.h : j \in 1 .. a.h \/ j = a.h + 1
  BY <1>3
<1>6. \A j \in 1 .. a.h : j \in 1 .. b.h
  BY <1>3
<1>7. b.h \in 1 .. b.h
  BY <1>3
<1>8. ASSUME NEW o \in Own(u, b) PROVE o \in Own(st, a) \union Tokens(a.h + 1, Owns(t, v))
  BY <1>3, <1>4, <1>5 DEF Own, Tokens
<1>9. ASSUME NEW o \in Own(st, a) PROVE o \in Own(u, b)
  BY <1>3, <1>4, <1>6 DEF Own
<1>10. ASSUME NEW o \in Tokens(a.h + 1, Owns(t, v)) PROVE o \in Own(u, b)
  BY <1>3, <1>4, <1>7 DEF Own, Tokens
<1> QED BY <1>1, <1>8, <1>9, <1>10

\* The places once a value is popped.
LEMMA OwnPop ==
  ASSUME NEW st, NEW loc, NEW a, Typed(st, loc, a), a.h >= 1
  PROVE  /\ Own(SubSeq(st, 1, Len(st) - 1), Pop(a, 1)) = Own(st, a) \ Tokens(a.h, Owns(TopOf(a), st[a.h]))
         /\ Tokens(a.h, Owns(TopOf(a), st[a.h])) \subseteq Own(st, a)
<1>1. PICK b, u : b = Pop(a, 1) /\ u = SubSeq(st, 1, Len(st) - 1)
  OBVIOUS
<1>2. /\ st \in Seq(Values) /\ Len(st) = a.h /\ a \in State /\ a.h \in Nat
  BY DEF Typed, State
<1>3. b.h = a.h - 1 /\ b.held = a.held /\ b.tag = a.tag
  BY <1>1, <1>2 DEF Pop, State
<1>4. \A j \in 1 .. b.h : u[j] = st[j]
  <2>1. 1 \in 0 .. Len(st) /\ st[1] \in Values
    BY <1>2
  <2> QED BY <1>1, <1>2, <1>3, <2>1, Stacks
<1>5. \A j \in 1 .. a.h : j \in 1 .. b.h \/ j = a.h
  BY <1>2, <1>3
<1>6. \A j \in 1 .. b.h : j \in 1 .. a.h /\ j # a.h
  BY <1>2, <1>3
<1>7. a.h \in 1 .. a.h
  BY <1>2
<1>8. ASSUME NEW o \in Own(u, b) PROVE o \in Own(st, a) /\ o \notin Tokens(a.h, Owns(TopOf(a), st[a.h]))
  BY <1>3, <1>4, <1>6 DEF Own, Tokens
<1>9. ASSUME NEW o \in Own(st, a), o \notin Own(u, b) PROVE o \in Tokens(a.h, Owns(TopOf(a), st[a.h]))
  BY <1>3, <1>4, <1>5, <1>9 DEF Own, Tokens, TopOf
<1>10. ASSUME NEW o \in Tokens(a.h, Owns(TopOf(a), st[a.h])) PROVE o \in Own(st, a)
  BY <1>2, <1>7 DEF Own, Tokens, TopOf
<1> QED BY <1>1, <1>8, <1>9, <1>10

\* A place's object is the same while its entry and its slot are.
LEMMA ObjSame ==
  ASSUME NEW st, NEW loc, NEW st2, NEW loc2, NEW o,
         IF o[1] = "slot" THEN loc2[o[2]] = loc[o[2]] ELSE st2[o[2]] = st[o[2]]
  PROVE  Obj(st2, loc2, o) = Obj(st, loc, o)
BY DEF Obj

\* The objects of entries below the top.
LEMMA ObjBelow ==
  ASSUME NEW st, NEW loc, NEW a, Typed(st, loc, a), NEW st2,
         NEW n \in 0 .. a.h, \A j \in 1 .. n : st2[j] = st[j], NEW o \in Own(st, a),
         o[1] = "stack" => o[2] <= n
  PROVE  Obj(st2, loc, o) = Obj(st, loc, o)
<1>1. o[1] = "slot" \/ (o[1] = "stack" /\ o[2] \in 1 .. a.h)
  BY DEF Own
<1>2. n \in Nat /\ a.h \in Nat
  BY DEF Typed, State
<1>3. o[1] = "stack" => o[2] \in 1 .. n
  BY <1>1, <1>2
<1> QED BY <1>1, <1>3, ObjSame

\* An entry stays what it is while it and the one below it do.
LEMMA ShowsSame ==
  ASSUME NEW st, NEW st2, NEW loc, NEW n \in Nat, \A j \in 1 .. n : st2[j] = st[j],
         NEW t, NEW j \in 1 .. n, Shows(st, loc, t, j)
  PROVE  Shows(st2, loc, t, j)
<1>1. st2[j] = st[j] /\ (j >= 2 => j - 1 \in 1 .. n)
  OBVIOUS
<1>2. j >= 2 => st2[j - 1] = st[j - 1]
  BY <1>1
<1> QED BY <1>1, <1>2 DEF Shows

\* A value is pushed, and popped.
LEMMA TypedPush ==
  ASSUME NEW st, NEW loc, NEW a, Typed(st, loc, a), NEW t \in Entry, NEW v \in Values,
         Shows(Append(st, v), loc, t, a.h + 1)
  PROVE  Typed(Append(st, v), loc, Push(a, t))
<1>1. PICK b, u : b = Push(a, t) /\ u = Append(st, v)
  OBVIOUS
<1>2. /\ st \in Seq(Values) /\ Len(st) = a.h /\ a \in State /\ Live(a)
      /\ loc \in [DOMAIN loc -> Values] /\ DOMAIN loc \subseteq Nat
      /\ \A s \in Nat : a.env[s] # "unset" => s \in DOMAIN loc /\ HasKind(loc[s], a.env[s])
      /\ (\A j \in 1 .. a.h : Shows(st, loc, a.tag[j], j)) /\ \A p \in a.held : p[1] \in DOMAIN loc
  BY DEF Typed
<1>3. /\ b \in State /\ b.h = a.h + 1 /\ b.flow = a.flow /\ b.held = a.held /\ b.env = a.env /\ a.h \in Nat /\ b.tag[a.h + 1] = t
      /\ \A j \in 1 .. a.h : b.tag[j] = a.tag[j]
  BY <1>1, <1>2, PushState DEF TopOf
<1>4. u \in Seq(Values) /\ Len(u) = b.h /\ \A j \in 1 .. a.h : u[j] = st[j]
  BY <1>1, <1>2, <1>3, Stacks
<1>5. Shows(u, loc, t, a.h + 1)
  BY <1>1
<1>6. ASSUME NEW j \in 1 .. b.h PROVE Shows(u, loc, b.tag[j], j)
  <2>1. CASE j = a.h + 1
    BY <1>3, <1>5, <2>1
  <2>2. CASE j # a.h + 1
    <3>1. j \in 1 .. a.h
      BY <1>3, <2>2
    <3>2. Shows(st, loc, b.tag[j], j)
      BY <1>2, <1>3, <3>1
    <3> QED BY <1>3, <1>4, <3>1, <3>2, ShowsSame
  <2> QED BY <2>1, <2>2
<1>7. Live(b)
  BY <1>2, <1>3 DEF Live
<1>8. Typed(u, loc, b)
  BY <1>2, <1>3, <1>4, <1>6, <1>7 DEF Typed
<1> QED BY <1>1, <1>8

\* What is known of the frame once a value is popped.
LEMMA TypedPop ==
  ASSUME NEW st, NEW loc, NEW a, Typed(st, loc, a), a.h >= 1
  PROVE  Typed(SubSeq(st, 1, Len(st) - 1), loc, Pop(a, 1))
<1>1. PICK b, u : b = Pop(a, 1) /\ u = SubSeq(st, 1, Len(st) - 1)
  OBVIOUS
<1>2. /\ st \in Seq(Values) /\ Len(st) = a.h /\ a \in State /\ Live(a) /\ a.h \in Nat
      /\ loc \in [DOMAIN loc -> Values] /\ DOMAIN loc \subseteq Nat
      /\ \A s \in Nat : a.env[s] # "unset" => s \in DOMAIN loc /\ HasKind(loc[s], a.env[s])
      /\ (\A j \in 1 .. a.h : Shows(st, loc, a.tag[j], j)) /\ \A p \in a.held : p[1] \in DOMAIN loc
  BY DEF Typed, State
<1>3. b \in State /\ b.h = a.h - 1 /\ b.flow = a.flow /\ b.held = a.held /\ b.env = a.env /\ b.tag = a.tag /\ b.h \in Nat
  BY <1>1, <1>2, PopState
<1>4. u \in Seq(Values) /\ Len(u) = b.h /\ \A j \in 1 .. b.h : u[j] = st[j]
  <2>1. 1 \in 0 .. Len(st) /\ st[1] \in Values
    BY <1>2
  <2> QED BY <1>1, <1>2, <1>3, <2>1, Stacks
<1>5. \A j \in 1 .. b.h : j \in 1 .. a.h
  BY <1>2, <1>3
<1>6. ASSUME NEW j \in 1 .. b.h PROVE Shows(u, loc, b.tag[j], j)
  <2>1. Shows(st, loc, b.tag[j], j)
    BY <1>2, <1>3, <1>5
  <2> QED BY <1>3, <1>4, <2>1, ShowsSame
<1>7. Live(b)
  BY <1>2, <1>3 DEF Live
<1>8. Typed(u, loc, b)
  BY <1>2, <1>3, <1>4, <1>6, <1>7 DEF Typed
<1> QED BY <1>1, <1>8

\* A larger bound is a bound.
LEMMA BoundedMore ==
  ASSUME NEW st, NEW loc, NEW hp, NEW m, Bounded(st, loc, hp, m), NEW n \in Nat, m <= n
  PROVE  Bounded(st, loc, hp, n)
<1>1. 1 .. m \subseteq 1 .. n
  BY DEF Bounded
<1> HIDE DEF RefsOf
<1> QED BY <1>1 DEF Bounded

\* What is known of the objects once a value is pushed, and popped.
LEMMA BoundedPush ==
  ASSUME NEW st \in Seq(Values), NEW loc, NEW hp, NEW m, Bounded(st, loc, hp, m), NEW v \in Values,
         NEW hp2, hp2 \subseteq 1 .. m, RefsOf(v) \subseteq 1 .. m
  PROVE  Bounded(Append(st, v), loc, hp2, m)
<1>1. PICK u, R : u = Append(st, v) /\ R = 1 .. m
  OBVIOUS
<1>2. Len(u) = Len(st) + 1 /\ Len(st) \in Nat /\ u[Len(st) + 1] = v /\ \A j \in 1 .. Len(st) : u[j] = st[j]
  BY <1>1, Stacks
<1>3. \A j \in 1 .. Len(u) : j \in 1 .. Len(st) \/ j = Len(st) + 1
  BY <1>2
<1>4. RefsOf(v) \subseteq R /\ hp2 \subseteq R /\ \A j \in 1 .. Len(st) : RefsOf(st[j]) \subseteq R
  BY <1>1 DEF Bounded
<1>5. \A j \in 1 .. Len(u) : RefsOf(u[j]) \subseteq R
  BY <1>2, <1>3, <1>4
<1> QED BY <1>1, <1>4, <1>5 DEF Bounded

\* What is known of the objects once values are popped.
LEMMA BoundedPop ==
  ASSUME NEW st \in Seq(Values), NEW loc, NEW hp, NEW m, Bounded(st, loc, hp, m), NEW n \in 0 .. Len(st),
         NEW hp2, hp2 \subseteq hp
  PROVE  Bounded(SubSeq(st, 1, Len(st) - n), loc, hp2, m)
<1>1. PICK u, R, k : u = SubSeq(st, 1, Len(st) - n) /\ R = 1 .. m /\ k = Len(st) - n
  OBVIOUS
<1>2. k \in Nat /\ k <= Len(st) /\ Len(st) \in Nat
  BY <1>1
<1>3. Len(u) = k /\ \A j \in 1 .. k : u[j] = st[j]
  <2>1. u = SubSeq(st, 1, k)
    BY <1>1
  <2> QED BY <1>2, <2>1
<1>4. hp2 \subseteq R /\ \A j \in 1 .. Len(st) : RefsOf(st[j]) \subseteq R
  BY <1>1 DEF Bounded
<1>5. \A j \in 1 .. Len(u) : j \in 1 .. Len(st) /\ u[j] = st[j]
  BY <1>2, <1>3
<1> QED BY <1>1, <1>4, <1>5 DEF Bounded

\* The places that an entry which owns no array has.
LEMMA TokensOf ==
  ASSUME NEW j \in Nat
  PROVE  Tokens(j, "data") = {} /\ Tokens(j, "string") = {<<"stack", j, 0>>}
BY DEF Tokens, Places

\* A value that owns nothing is pushed.
LEMMA MatchesPush ==
  ASSUME NEW st, NEW loc, NEW hp, NEW a, Matches(st, loc, hp, a), NEW t \in Entry, NEW v \in Values,
         Owns(t, v) = "data", Shows(Append(st, v), loc, t, a.h + 1),
         \A m : Bounded(st, loc, hp, m) => RefsOf(v) \subseteq 1 .. m
  PROVE  Matches(Append(st, v), loc, hp, Push(a, t))
<1>1. Typed(st, loc, a) /\ Exact(st, loc, hp, Own(st, a)) /\ st \in Seq(Values) /\ a.h \in Nat /\ Len(st) = a.h
  BY DEF Matches, Typed, State
<1>2. PICK m : Bounded(st, loc, hp, m)
  BY DEF Matches
<1>3. Typed(Append(st, v), loc, Push(a, t))
  BY <1>1, TypedPush
<1>4. hp \subseteq 1 .. m
  BY <1>2 DEF Bounded
<1>5. Bounded(Append(st, v), loc, hp, m)
  BY <1>1, <1>2, <1>4, BoundedPush
<1>6. Own(Append(st, v), Push(a, t)) = Own(st, a)
  <2>1. Tokens(a.h + 1, "data") = {}
    BY <1>1, TokensOf
  <2>2. Own(Append(st, v), Push(a, t)) = Own(st, a) \union Tokens(a.h + 1, Owns(t, v))
    BY <1>1, OwnPush
  <2> QED BY <2>1, <2>2
<1>7. \A o \in Own(st, a) : Obj(Append(st, v), loc, o) = Obj(st, loc, o)
  <2>1. a.h \in 0 .. a.h /\ \A j \in 1 .. a.h : Append(st, v)[j] = st[j]
    BY <1>1, Stacks
  <2>2. \A o \in Own(st, a) : o[1] = "stack" => o[2] <= a.h
    BY <1>1 DEF Own
  <2>3. PICK u : u = Append(st, v)
    OBVIOUS
  <2>4. \A o \in Own(st, a) : Obj(u, loc, o) = Obj(st, loc, o)
    <3>1. \A j \in 1 .. a.h : u[j] = st[j]
      BY <2>1, <2>3
    <3>2. \A o \in Own(st, a) : o[1] = "stack" => o[2] \in 1 .. a.h
      BY <1>1 DEF Own
    <3>3. \A o \in Own(st, a) : o[1] # "slot" => o[1] = "stack"
      BY DEF Own
    <3> QED BY <3>1, <3>2, <3>3, ObjSame
  <2> QED BY <2>3, <2>4
<1>8. Exact(Append(st, v), loc, hp, Own(st, a))
  BY <1>1, <1>7, ExactKept
<1> QED BY <1>3, <1>5, <1>6, <1>8 DEF Matches

\* A string that is new is pushed.
LEMMA MatchesPushNew ==
  ASSUME NEW st, NEW loc, NEW hp, NEW a, Matches(st, loc, hp, a), NEW t \in {A("string"), A("maybe")},
         NEW x \in Nat \ {0}, x \notin hp
  PROVE  Matches(Append(st, Value("string", x)), loc, hp \union {x}, Push(a, t))
<1>1. Typed(st, loc, a) /\ Exact(st, loc, hp, Own(st, a)) /\ st \in Seq(Values) /\ a.h \in Nat /\ Len(st) = a.h
  BY DEF Matches, Typed, State
<1>2. PICK v : v = Value("string", x)
  OBVIOUS
<1>3. v \in Values /\ v.t = "string" /\ v.v = x /\ RefsOf(v) = {x}
  BY <1>2 DEF Value, Values, Plain, RefsOf, Objects
<1>4. t \in Entry /\ Owns(t, v) = "string" /\ (t.k = "string" \/ t.k = "maybe")
  BY <1>3, Entries DEF Owns
<1>5. PICK u : u = Append(st, v)
  OBVIOUS
<1>6. u[a.h + 1] = v /\ \A j \in 1 .. a.h : u[j] = st[j]
  BY <1>1, <1>3, <1>5, Stacks
<1>7. Shows(u, loc, t, a.h + 1)
  BY <1>3, <1>4, <1>6 DEF Shows, HasKind
<1>8. Typed(u, loc, Push(a, t))
  BY <1>1, <1>3, <1>4, <1>5, <1>7, TypedPush
<1>9. PICK m : Bounded(st, loc, hp, m)
  BY DEF Matches
<1>10. \E n : Bounded(u, loc, hp \union {x}, n)
  <2>1. PICK n \in Nat : m <= n /\ x <= n
    <3>1. m \in Nat
      BY <1>9 DEF Bounded
    <3> QED BY <3>1
  <2>2. Bounded(st, loc, hp, n)
    BY <1>9, <2>1, BoundedMore
  <2>3. x \in 1 .. n
    BY <2>1
  <2>4. hp \union {x} \subseteq 1 .. n
    BY <2>2, <2>3 DEF Bounded
  <2>5. RefsOf(v) \subseteq 1 .. n
    BY <1>3, <2>3
  <2>6. Bounded(u, loc, hp \union {x}, n)
    BY <1>1, <1>3, <1>5, <2>2, <2>4, <2>5, BoundedPush
  <2> QED BY <2>6
<1>11. PICK o : o = <<"stack", a.h + 1, 0>>
  OBVIOUS
<1>12. Own(u, Push(a, t)) = Own(st, a) \union {o}
  <2>1. Tokens(a.h + 1, "string") = {o}
    BY <1>1, <1>11, TokensOf
  <2> QED BY <1>1, <1>3, <1>4, <1>5, <2>1, OwnPush
<1>13. \A p \in Own(st, a) : Obj(u, loc, p) = Obj(st, loc, p)
  <2>1. a.h \in 0 .. a.h
    BY <1>1
  <2>2. \A p \in Own(st, a) : p[1] = "stack" => p[2] <= a.h
    BY <1>1 DEF Own
  <2> QED BY <1>1, <1>6, <2>1, <2>2, ObjBelow
<1>14. Obj(u, loc, o) = x
  BY <1>3, <1>6, <1>11 DEF Obj
<1>15. Exact(u, loc, hp \union {x}, Own(st, a) \union {o})
  BY <1>1, <1>13, <1>14, ExactMore
<1>16. Matches(u, loc, hp \union {x}, Push(a, t))
  BY <1>8, <1>10, <1>12, <1>15 DEF Matches
<1> QED BY <1>2, <1>5, <1>16

\* A value that owns nothing is popped.
LEMMA MatchesPop ==
  ASSUME NEW st, NEW loc, NEW hp, NEW a, Matches(st, loc, hp, a), a.h >= 1,
         Owns(TopOf(a), Last(st)) = "data"
  PROVE  Matches(SubSeq(st, 1, Len(st) - 1), loc, hp, Pop(a, 1))
<1>1. Typed(st, loc, a) /\ Exact(st, loc, hp, Own(st, a)) /\ st \in Seq(Values) /\ a.h \in Nat /\ Len(st) = a.h
  BY DEF Matches, Typed, State
<1>2. PICK m : Bounded(st, loc, hp, m)
  BY DEF Matches
<1>3. PICK u : u = SubSeq(st, 1, Len(st) - 1)
  OBVIOUS
<1>4. Typed(u, loc, Pop(a, 1))
  BY <1>1, <1>3, TypedPop
<1>5. 1 \in 0 .. Len(st) /\ st[1] \in Values /\ a.h - 1 \in 0 .. a.h /\ a.h \in Nat
  BY <1>1
<1>6. Bounded(u, loc, hp, m)
  BY <1>1, <1>2, <1>3, <1>5, BoundedPop
<1>7. \A j \in 1 .. a.h - 1 : u[j] = st[j]
  BY <1>1, <1>3, <1>5, Stacks
<1>8. Own(u, Pop(a, 1)) = Own(st, a)
  <2>1. Tokens(a.h, "data") = {} /\ Last(st) = st[a.h]
    BY <1>1, TokensOf DEF Last
  <2> QED BY <1>1, <1>3, <2>1, OwnPop
<1>9. \A o \in Own(st, a) : o[1] = "stack" => o[2] <= a.h - 1
  <2>1. \A j \in 1 .. a.h : j = a.h \/ j <= a.h - 1
    BY <1>1
  <2>2. Places(a.h, "data") = {} /\ Last(st) = st[a.h]
    BY <1>1 DEF Places, Last
  <2> QED BY <2>1, <2>2 DEF Own, TopOf
<1>10. \A o \in Own(st, a) : Obj(u, loc, o) = Obj(st, loc, o)
  <2>1. PICK k : k = a.h - 1
    OBVIOUS
  <2>2. k \in 0 .. a.h /\ (\A j \in 1 .. k : u[j] = st[j]) /\ \A o \in Own(st, a) : o[1] = "stack" => o[2] <= k
    BY <1>5, <1>7, <1>9, <2>1
  <2> QED BY <1>1, <2>2, ObjBelow
<1>11. Exact(u, loc, hp, Own(st, a))
  BY <1>1, <1>10, ExactKept
<1> QED BY <1>3, <1>4, <1>6, <1>8, <1>11 DEF Matches

\* A string that the stack owns is popped, and its object goes.
LEMMA MatchesPopOwned ==
  ASSUME NEW st, NEW loc, NEW hp, NEW a, Matches(st, loc, hp, a), a.h >= 1, TopOf(a).k = "string"
  PROVE  /\ Matches(SubSeq(st, 1, Len(st) - 1), loc, hp \ {Last(st).v}, Pop(a, 1))
         /\ Last(st).t = "string" /\ Last(st).v \in hp
<1>1. Typed(st, loc, a) /\ Exact(st, loc, hp, Own(st, a)) /\ st \in Seq(Values) /\ a.h \in Nat /\ Len(st) = a.h
  BY DEF Matches, Typed, State
<1>2. PICK m : Bounded(st, loc, hp, m)
  BY DEF Matches
<1>3. PICK u, o : u = SubSeq(st, 1, Len(st) - 1) /\ o = <<"stack", a.h, 0>>
  OBVIOUS
<1>4. Typed(u, loc, Pop(a, 1))
  BY <1>1, <1>3, TypedPop
<1>5. 1 \in 0 .. Len(st) /\ st[1] \in Values /\ a.h - 1 \in 0 .. a.h /\ a.h \in 1 .. a.h /\ Last(st) = st[a.h]
  BY <1>1 DEF Last
<1>6. Bounded(u, loc, hp \ {Last(st).v}, m)
  BY <1>1, <1>2, <1>3, <1>5, BoundedPop
<1>7. \A j \in 1 .. a.h - 1 : u[j] = st[j]
  BY <1>1, <1>3, <1>5, Stacks
<1>8. Owns(TopOf(a), st[a.h]) = "string"
  BY DEF Owns
<1>9. Tokens(a.h, "string") = {o}
  BY <1>1, <1>3, TokensOf
<1>10. Own(u, Pop(a, 1)) = Own(st, a) \ {o} /\ o \in Own(st, a)
  BY <1>1, <1>3, <1>8, <1>9, OwnPop
<1>11. ASSUME NEW p \in Own(st, a), p # o PROVE Obj(u, loc, p) = Obj(st, loc, p)
  <2>1. p[1] = "stack" => p[2] <= a.h - 1
    <3>1. \A j \in 1 .. a.h : j = a.h \/ j <= a.h - 1
      BY <1>1
    <3>2. p[1] = "stack" /\ p[2] = a.h => p \in Tokens(a.h, "string")
      BY <1>8 DEF Own, Tokens, TopOf
    <3> QED BY <1>9, <1>11, <3>1, <3>2 DEF Own
  <2>2. PICK k : k = a.h - 1
    OBVIOUS
  <2>3. k \in 0 .. a.h /\ (\A j \in 1 .. k : u[j] = st[j]) /\ (p[1] = "stack" => p[2] <= k)
    BY <1>5, <1>7, <2>1, <2>2
  <2>4. Typed(st, loc, a) /\ p \in Own(st, a)
    BY <1>1
  <2> QED BY <2>3, <2>4, ObjBelow
<1>12. Obj(st, loc, o) = Last(st).v
  BY <1>3, <1>5 DEF Obj
<1>13. Exact(u, loc, hp \ {Last(st).v}, Own(st, a) \ {o})
  <2>1. Exact(u, loc, hp \ {Obj(st, loc, o)}, Own(st, a) \ {o})
    BY <1>1, <1>10, <1>11, ExactLess
  <2> QED BY <1>12, <2>1
<1>14. Matches(u, loc, hp \ {Last(st).v}, Pop(a, 1))
  BY <1>4, <1>6, <1>10, <1>13 DEF Matches
<1>15. Last(st).t = "string"
  BY <1>1, <1>5 DEF Typed, Shows, HasKind, TopOf
<1>16. Last(st).v \in hp
  BY <1>1, <1>10, <1>12 DEF Exact
<1> QED BY <1>3, <1>14, <1>15, <1>16

\* The object of a place that a slot holds goes.
LEMMA MatchesFreed ==
  ASSUME NEW st, NEW loc, NEW hp, NEW a, Matches(st, loc, hp, a), NEW s \in Nat, NEW i \in Nat,
         <<s, i>> \in a.held
  PROVE  /\ Matches(st, loc, hp \ {Obj(st, loc, <<"slot", s, i>>)}, Without(a, {<<s, i>>}))
         /\ Obj(st, loc, <<"slot", s, i>>) \in hp
<1>1. Typed(st, loc, a) /\ Exact(st, loc, hp, Own(st, a)) /\ st \in Seq(Values) /\ a.h \in Nat /\ Len(st) = a.h /\ a \in State
  BY DEF Matches, Typed, State
<1>2. PICK m : Bounded(st, loc, hp, m)
  BY DEF Matches
<1>3. PICK b, o, x : b = Without(a, {<<s, i>>}) /\ o = <<"slot", s, i>> /\ x = Obj(st, loc, o)
  OBVIOUS
<1>4. b \in State /\ b.h = a.h /\ b.flow = a.flow /\ b.tag = a.tag /\ b.env = a.env /\ b.held = a.held \ {<<s, i>>}
  BY <1>1, <1>3, WithoutState
<1>5. Typed(st, loc, b)
  <2>1. Live(b)
    BY <1>1, <1>4 DEF Typed, Live
  <2> QED BY <1>1, <1>4, <2>1 DEF Typed
<1>6. o \in Own(st, a)
  <2>1. o[1] = "slot" /\ o[2] = s /\ o[3] = i /\ o \in {"slot", "stack"} \X Nat \X Nat
    BY <1>3
  <2> QED BY <2>1 DEF Own
<1>7. Own(st, b) = Own(st, a) \ {o}
  <2>1. ASSUME NEW p \in Own(st, b) PROVE p \in Own(st, a) /\ p # o
    <3>1. p \in Own(st, a)
      BY <1>4 DEF Own
    <3>2. p[1] = "slot" => <<p[2], p[3]>> \in b.held
      BY DEF Own
    <3>3. o[1] = "slot" /\ <<o[2], o[3]>> = <<s, i>>
      BY <1>3
    <3>4. <<s, i>> \notin b.held
      BY <1>4
    <3> QED BY <3>1, <3>2, <3>3, <3>4
  <2>2. ASSUME NEW p \in Own(st, a), p # o PROVE p \in Own(st, b)
    <3>1. p = <<p[1], p[2], p[3]>>
      BY DEF Own
    <3>2. p[1] = "slot" => <<p[2], p[3]>> # <<s, i>>
      BY <1>3, <2>2, <3>1
    <3> QED BY <1>4, <3>2 DEF Own
  <2> QED BY <2>1, <2>2
<1>8. Exact(st, loc, hp \ {x}, Own(st, a) \ {o})
  BY <1>1, <1>3, <1>6, ExactLess
<1>9. Bounded(st, loc, hp \ {x}, m)
  BY <1>2 DEF Bounded
<1>10. x \in hp
  BY <1>1, <1>3, <1>6 DEF Exact
<1> QED BY <1>3, <1>5, <1>7, <1>8, <1>9, <1>10 DEF Matches

\* The top entry is known better.
LEMMA MatchesName ==
  ASSUME NEW st, NEW loc, NEW hp, NEW a, Matches(st, loc, hp, a), a.h >= 1, NEW t \in Entry,
         Shows(st, loc, t, a.h), Owns(t, Last(st)) = Owns(TopOf(a), Last(st))
  PROVE  Matches(st, loc, hp, Named(a, t))
<1>1. Typed(st, loc, a) /\ st \in Seq(Values) /\ a.h \in Nat /\ Len(st) = a.h /\ a \in State
  BY DEF Matches, Typed, State
<1>2. PICK b : b = Named(a, t)
  OBVIOUS
<1>3. /\ b \in State /\ b.h = a.h /\ b.flow = a.flow /\ b.env = a.env /\ b.held = a.held
      /\ \A j \in 1 .. a.h : b.tag[j] = IF j = a.h THEN t ELSE a.tag[j]
  <2>1. PICK f : f = [a.tag EXCEPT ![a.h] = t]
    OBVIOUS
  <2>2. f \in [Nat -> Entry] /\ \A j \in Nat : f[j] = IF j = a.h THEN t ELSE a.tag[j]
    BY <1>1, <2>1 DEF State
  <2>3. b = [a EXCEPT !.tag = f]
    BY <1>2, <2>1 DEF Named
  <2>4. b \in State /\ b.h = a.h /\ b.flow = a.flow /\ b.env = a.env /\ b.held = a.held /\ b.tag = f
    BY <1>1, <2>2, <2>3 DEF State
  <2>5. \A j \in 1 .. a.h : j \in Nat
    BY <1>1
  <2> QED BY <2>2, <2>4, <2>5
<1>4. Typed(st, loc, b)
  <2>1. Live(b)
    BY <1>1, <1>3 DEF Typed, Live
  <2>2. \A j \in 1 .. b.h : Shows(st, loc, b.tag[j], j)
    BY <1>1, <1>3 DEF Typed
  <2> QED BY <1>1, <1>3, <2>1, <2>2 DEF Typed
<1>5. Last(st) = st[a.h]
  BY <1>1 DEF Last
<1>6. \A j \in 1 .. a.h : Owns(b.tag[j], st[j]) = Owns(a.tag[j], st[j])
  BY <1>3, <1>5 DEF TopOf
<1>7. Own(st, b) = Own(st, a)
  <2> HIDE DEF Owns
  <2> QED BY <1>3, <1>6 DEF Own
<1> QED BY <1>2, <1>4, <1>7 DEF Matches

\* The slots once v has been stored to slot s.
StoredTo(loc, s, v) == [r \in DOMAIN loc \union {s} |-> IF r = s THEN v ELSE loc[r]]

\* A value is stored to a slot, which owns nothing.
LEMMA MatchesStore ==
  ASSUME NEW st, NEW loc, NEW hp, NEW a, Matches(st, loc, hp, a), a.h = 1,
         NEW s \in Nat, NEW kind, kind = TopOf(a).k, kind \in {"data", "string", "strs"},
         a.held \cap ({s} \X Nat) = {}, NEW loc2,
         loc2 = StoredTo(loc, s, Last(st))
  PROVE  /\ Matches(SubSeq(st, 1, Len(st) - 1), loc2, hp, Stored(Pop(a, 1), s, kind))
         /\ DOMAIN loc2 = DOMAIN loc \union {s}
<1>1. Typed(st, loc, a) /\ Exact(st, loc, hp, Own(st, a)) /\ st \in Seq(Values) /\ Len(st) = 1 /\ a \in State
  BY DEF Matches, Typed, State
<1>2. PICK m : Bounded(st, loc, hp, m)
  BY DEF Matches
<1>3. PICK u, v : u = SubSeq(st, 1, Len(st) - 1) /\ v = st[1]
  OBVIOUS
<1>4. u = << >> /\ v \in Values /\ Last(st) = v /\ TopOf(a) = a.tag[1]
  <2>1. Len(st) - 1 = 0
    BY <1>1
  <2>2. u = SubSeq(st, 1, 0)
    BY <1>3, <2>1
  <2>3. Last(st) = v
    BY <1>1, <1>3 DEF Last
  <2>4. 1 \in 1 .. Len(st) /\ TopOf(a) = a.tag[1]
    BY <1>1 DEF TopOf
  <2>5. v \in Values
    <3>1. \A i \in 1 .. Len(st) : st[i] \in Values
      BY <1>1, ElementOfSeq
    <3> QED BY <1>3, <2>4, <3>1
  <2> QED BY <2>2, <2>3, <2>4, <2>5
<1>5. HasKind(v, kind)
  BY <1>1, <1>3, <1>4 DEF Typed, Shows
<1>6. /\ DOMAIN loc2 = DOMAIN loc \union {s} /\ loc2[s] = v
      /\ \A r \in DOMAIN loc : r # s => loc2[r] = loc[r]
  BY <1>4 DEF StoredTo
<1>7. PICK b : b = Stored(Pop(a, 1), s, kind)
  OBVIOUS
<1>8. /\ b \in State /\ b.h = 0 /\ b.flow = a.flow
      /\ \A r \in Nat : b.env[r] = IF r = s THEN kind ELSE a.env[r]
      /\ b.held = a.held \union Places(s, kind)
  <2>1. Pop(a, 1) \in State /\ Pop(a, 1).h = 0 /\ Pop(a, 1).flow = a.flow /\ Pop(a, 1).env = a.env
        /\ Pop(a, 1).held = a.held
    BY <1>1, PopState
  <2>2. kind \in Kinds /\ a.env \in [Nat -> Kinds]
    BY <1>1 DEF Kinds, State
  <2>3. b \in State /\ b.h = 0 /\ b.flow = a.flow /\ b.env = [a.env EXCEPT ![s] = kind]
        /\ b.held = a.held \union Places(s, kind)
    BY <1>7, <2>1, <2>2, StoredState
  <2> QED BY <2>2, <2>3
<1>9. Typed(u, loc2, b)
  <2>1. Live(b)
    BY <1>1, <1>8 DEF Typed, Live
  <2>2. u \in Seq(Values) /\ Len(u) = b.h /\ 1 .. b.h = {}
    BY <1>4, <1>8
  <2>3. loc2 \in [DOMAIN loc2 -> Values] /\ DOMAIN loc2 \subseteq Nat
    <3>1. loc2 = [r \in DOMAIN loc2 |-> loc2[r]]
      BY DEF StoredTo
    <3>2. \A r \in DOMAIN loc2 : loc2[r] \in Values
      BY <1>1, <1>4, <1>6 DEF Typed
    <3> QED BY <1>1, <1>6, <3>1, <3>2 DEF Typed
  <2>5. \A p \in b.held : p[1] \in DOMAIN loc2
    BY <1>1, <1>6, <1>8, PlacesApart DEF Typed
  <2>4. \A r \in Nat : b.env[r] # "unset" => r \in DOMAIN loc2 /\ HasKind(loc2[r], b.env[r])
    BY <1>1, <1>5, <1>6, <1>8 DEF Typed
  <2> QED BY <1>8, <2>1, <2>2, <2>3, <2>4, <2>5 DEF Typed
<1>10. Bounded(u, loc2, hp, m)
  <2>1. RefsOf(v) \subseteq 1 .. m /\ \A r \in DOMAIN loc : RefsOf(loc[r]) \subseteq 1 .. m
    BY <1>1, <1>2, <1>3 DEF Bounded
  <2>2. \A r \in DOMAIN loc2 : RefsOf(loc2[r]) \subseteq 1 .. m
    BY <1>6, <2>1
  <2>3. 1 .. Len(u) = {}
    BY <1>4
  <2> QED BY <1>2, <2>2, <2>3 DEF Bounded
<1>11. PICK f : f = [o \in Own(st, a) |-> IF o[1] = "slot" THEN o ELSE <<"slot", s, o[3]>>]
  OBVIOUS
<1>12. ASSUME NEW o \in Own(st, a)
       PROVE  /\ f[o] \in Own(u, b) /\ Obj(u, loc2, f[o]) = Obj(st, loc, o)
  <2>1. CASE o[1] = "slot"
    <3>1. o[2] \in Nat /\ o[3] \in Nat /\ <<o[2], o[3]>> \in a.held /\ f[o] = o
      BY <1>11, <2>1 DEF Own
    <3>2. o[2] # s
      BY <3>1
    <3>3. f[o] \in Own(u, b)
      BY <1>8, <2>1, <3>1 DEF Own
    <3>4. loc2[o[2]] = loc[o[2]]
      BY <1>1, <1>6, <3>1, <3>2 DEF Typed
    <3> QED BY <2>1, <3>1, <3>3, <3>4, ObjSame
  <2>2. CASE o[1] # "slot"
    <3>1. o[1] = "stack" /\ o[2] = 1 /\ o[3] \in Nat /\ <<1, o[3]>> \in Places(1, Owns(a.tag[1], st[1]))
      BY <2>2 DEF Own
    <3>2. Owns(a.tag[1], st[1]) = kind
      BY <1>4 DEF Owns
    <3>3. <<1, o[3]>> \in Places(1, kind)
      BY <3>1, <3>2
    <3>4. <<s, o[3]>> \in Places(s, kind)
      BY <3>3 DEF Places
    <3>5. f[o] = <<"slot", s, o[3]>>
      BY <1>11, <2>2
    <3>6. f[o] \in Own(u, b)
      BY <1>8, <3>1, <3>4, <3>5 DEF Own
    <3>7. Obj(u, loc2, <<"slot", s, o[3]>>) = Obj(st, loc, o)
      BY <1>3, <1>6, <3>1 DEF Obj
    <3> QED BY <3>5, <3>6, <3>7
  <2> QED BY <2>1, <2>2
<1>13. ASSUME NEW q \in Own(u, b) PROVE \E o \in Own(st, a) : f[o] = q
  <2>1. q \in {"slot"} \X Nat \X Nat /\ <<q[2], q[3]>> \in b.held /\ q = <<"slot", q[2], q[3]>>
    BY <1>8 DEF Own
  <2>2. CASE <<q[2], q[3]>> \in a.held
    <3>1. q \in Own(st, a) /\ f[q] = q
      BY <1>11, <2>1, <2>2 DEF Own
    <3> QED BY <3>1
  <2>3. CASE <<q[2], q[3]>> \in Places(s, kind)
    <3>1. q[2] = s
      BY <2>3, PlacesApart
    <3>2. <<1, q[3]>> \in Places(1, kind)
      BY <2>3, <3>1 DEF Places
    <3>3. Owns(a.tag[1], st[1]) = kind
      BY <1>4 DEF Owns
    <3>4. PICK o : o = <<"stack", 1, q[3]>>
      OBVIOUS
    <3>5. o \in Own(st, a)
      BY <2>1, <3>2, <3>3, <3>4 DEF Own
    <3>6. f[o] = <<"slot", s, q[3]>>
      BY <1>11, <3>4, <3>5
    <3> QED BY <2>1, <3>1, <3>5, <3>6
  <2> QED BY <1>8, <2>1, <2>2, <2>3
<1>14. f \in [Own(st, a) -> Own(u, b)]
  BY <1>11, <1>12
<1>15. Exact(u, loc2, hp, Own(u, b))
  <2>1. \A q \in Own(u, b) : \E o \in Own(st, a) : f[o] = q
    BY <1>13
  <2>2. \A o \in Own(st, a) : Obj(u, loc2, f[o]) = Obj(st, loc, o)
    BY <1>12
  <2>3. PICK T, T2 : T = Own(st, a) /\ T2 = Own(u, b)
    OBVIOUS
  <2>4. /\ Exact(st, loc, hp, T) /\ f \in [T -> T2] /\ (\A q \in T2 : \E o \in T : f[o] = q)
        /\ \A o \in T : Obj(u, loc2, f[o]) = Obj(st, loc, o)
    BY <1>1, <1>14, <2>1, <2>2, <2>3
  <2>5. Exact(u, loc2, hp, T2)
    BY <2>4, ExactMoved
  <2> QED BY <2>3, <2>5
<1>16. Matches(u, loc2, hp, b)
  BY <1>9, <1>10, <1>15 DEF Matches
<1> QED BY <1>3, <1>6, <1>7, <1>16

\* Two values are popped, one after the other.
LEMMA PopTwice ==
  ASSUME NEW st \in Seq(Values), NEW a \in State, a.h >= 2, Len(st) = a.h,
         NEW u, u = SubSeq(st, 1, Len(st) - 1)
  PROVE  /\ u \in Seq(Values) /\ Len(u) = a.h - 1
         /\ SubSeq(u, 1, Len(u) - 1) = SubSeq(st, 1, Len(st) - 2)
         /\ Pop(Pop(a, 1), 1) = Pop(a, 2)
         /\ Last(u) = st[a.h - 1] /\ Last(st) = st[a.h]
         /\ TopOf(Pop(a, 1)) = a.tag[a.h - 1]
<1>1. PICK n : n = a.h
  OBVIOUS
<1>2. n \in Nat /\ n >= 2 /\ n = Len(st)
  BY <1>1 DEF State
<1>3. PICK k, l : k = n - 1 /\ l = n - 2
  OBVIOUS
<1>4. k \in Nat /\ l \in Nat /\ k >= 1 /\ l < k /\ k < n /\ k - 1 = l
  BY <1>2, <1>3
<1>5. u = SubSeq(st, 1, k)
  BY <1>2, <1>3
<1>6. u \in Seq(Values) /\ Len(u) = k /\ \A j \in 1 .. k : u[j] = st[j]
  BY <1>2, <1>4, <1>5
<1>7. PICK x, y : x = SubSeq(u, 1, l) /\ y = SubSeq(st, 1, l)
  OBVIOUS
<1>8. x \in Seq(Values) /\ y \in Seq(Values) /\ Len(x) = l /\ Len(y) = l /\ \A j \in 1 .. l : x[j] = u[j] /\ y[j] = st[j]
  BY <1>2, <1>4, <1>6, <1>7
<1>9. \A j \in 1 .. l : j \in 1 .. k
  BY <1>4
<1>10. x = y
  BY <1>6, <1>8, <1>9, SeqEqual
<1>11. SubSeq(u, 1, Len(u) - 1) = SubSeq(st, 1, Len(st) - 2)
  BY <1>2, <1>3, <1>4, <1>6, <1>7, <1>10
<1>12. Last(u) = st[a.h - 1] /\ Last(st) = st[a.h]
  BY <1>1, <1>2, <1>3, <1>4, <1>6 DEF Last
<1>13. Pop(Pop(a, 1), 1) = Pop(a, 2) /\ TopOf(Pop(a, 1)) = a.tag[a.h - 1]
  <2>1. Pop(a, 1).h = k /\ Pop(a, 1).tag = a.tag
    BY <1>1, <1>2, <1>3, PopState
  <2>2. PICK b : b = Pop(a, 1)
    OBVIOUS
  <2>3. b = [a EXCEPT !.h = k] /\ b.h = k
    BY <1>1, <1>3, <2>1, <2>2 DEF Pop
  <2>4. Pop(b, 1) = [b EXCEPT !.h = l]
    BY <1>4, <2>3 DEF Pop
  <2>5. Pop(a, 2) = [a EXCEPT !.h = l]
    BY <1>1, <1>3 DEF Pop
  <2>6. Pop(b, 1) = Pop(a, 2)
    BY <2>3, <2>4, <2>5 DEF State
  <2>7. TopOf(b) = a.tag[k]
    BY <2>1, <2>2 DEF TopOf
  <2> QED BY <1>1, <1>3, <2>2, <2>6, <2>7
<1> QED BY <1>1, <1>3, <1>6, <1>11, <1>12, <1>13

\* The last values of the stack become an array, which owns what they do.
LEMMA MatchesArray ==
  ASSUME NEW st, NEW loc, NEW hp, NEW a, Matches(st, loc, hp, a), a.h >= 2,
         a.tag[a.h].k = "string", a.tag[a.h - 1].k = "string",
         NEW v, v = Value("strs", SubSeq(st, Len(st) - 1, Len(st)))
  PROVE  Matches(Append(SubSeq(st, 1, Len(st) - 2), v), loc, hp, Push(Pop(a, 2), A("strs"))) /\ v \in Values
<1>1. Typed(st, loc, a) /\ Exact(st, loc, hp, Own(st, a)) /\ st \in Seq(Values) /\ a.h \in Nat /\ Len(st) = a.h /\ a \in State
  BY DEF Matches, Typed, State
<1>2. PICK m : Bounded(st, loc, hp, m)
  BY DEF Matches
<1>3. PICK n, k, l : n = a.h /\ k = a.h - 1 /\ l = a.h - 2
  OBVIOUS
<1>4. /\ n \in Nat /\ k \in Nat /\ l \in Nat /\ l < k /\ k < n /\ k = l + 1 /\ n = l + 2 /\ Len(st) = n
      /\ n \in 1 .. n /\ k \in 1 .. n
  BY <1>1, <1>3
<1>5. PICK r, b : r = SubSeq(st, 1, l) /\ b = Pop(a, 2)
  OBVIOUS
<1>6. Typed(r, loc, b)
  <2>1. PICK u : u = SubSeq(st, 1, Len(st) - 1)
    OBVIOUS
  <2>2. Typed(u, loc, Pop(a, 1))
    BY <1>1, <2>1, TypedPop
  <2>3. Pop(a, 1).h >= 1
    BY <1>1, PopState
  <2>4. Typed(SubSeq(u, 1, Len(u) - 1), loc, Pop(Pop(a, 1), 1))
    BY <2>2, <2>3, TypedPop
  <2>5. SubSeq(u, 1, Len(u) - 1) = SubSeq(st, 1, Len(st) - 2) /\ Pop(Pop(a, 1), 1) = Pop(a, 2)
    BY <1>1, <2>1, PopTwice
  <2>6. SubSeq(st, 1, Len(st) - 2) = r
    BY <1>1, <1>3, <1>5
  <2> QED BY <1>5, <2>4, <2>5, <2>6
<1>7. b \in State /\ b.h = l /\ b.tag = a.tag /\ b.held = a.held
  BY <1>1, <1>3, <1>5, PopState
<1>8. r \in Seq(Values) /\ Len(r) = l /\ \A j \in 1 .. l : r[j] = st[j]
  BY <1>1, <1>4, <1>5
<1>9. /\ st[n] \in Values /\ st[k] \in Values /\ st[n].t = "string" /\ st[k].t = "string"
  <2>1. Shows(st, loc, a.tag[n], n) /\ Shows(st, loc, a.tag[k], k)
    BY <1>1, <1>3, <1>4 DEF Typed
  <2>2. st[n] \in Values /\ st[k] \in Values
    BY <1>1, <1>4
  <2>3. a.tag[n].k = "string" /\ a.tag[k].k = "string"
    BY <1>3
  <2>4. HasKind(st[n], "string") /\ HasKind(st[k], "string")
    BY <2>1, <2>3 DEF Shows
  <2> QED BY <2>2, <2>4 DEF HasKind
<1>10. st[n] \in Plain /\ st[k] \in Plain
  BY <1>9 DEF Values
<1>11. PICK w : w = SubSeq(st, k, n)
  OBVIOUS
<1>12. Len(w) = 2 /\ w[1] = st[k] /\ w[2] = st[n] /\ w \in Seq(Plain) /\ DOMAIN w = 1 .. 2
  <2>1. /\ Len(w) = n - k + 1 /\ w \in Seq(Values) /\ \A i \in 1 .. n - k + 1 : w[i] = st[k + i - 1]
    BY <1>1, <1>4, <1>11, SubSeqProperties
  <2>2. n - k + 1 = 2 /\ k + 1 - 1 = k /\ k + 2 - 1 = n
    BY <1>4
  <2>3. Len(w) = 2 /\ w[1] = st[k] /\ w[2] = st[n]
    BY <2>1, <2>2
  <2>4. \A i \in 1 .. 2 : i = 1 \/ i = 2
    OBVIOUS
  <2>5. \A i \in 1 .. Len(w) : w[i] \in Plain
    BY <1>10, <2>3, <2>4
  <2>6. w \in Seq(Plain)
    BY <2>1, <2>5
  <2> QED BY <2>3, <2>6
<1>13. v.t = "strs" /\ v.v = w /\ v \in Values
  <2>1. w = SubSeq(st, Len(st) - 1, Len(st))
    BY <1>3, <1>4, <1>11
  <2> QED BY <1>12, <2>1 DEF Value, Values
<1>14. RefsOf(v) \subseteq 1 .. m
  <2>1. RefsOf(st[n]) \subseteq 1 .. m /\ RefsOf(st[k]) \subseteq 1 .. m
    BY <1>2, <1>4 DEF Bounded
  <2>2. st[n].v \in 1 .. m /\ st[k].v \in 1 .. m
    BY <1>9, <2>1 DEF RefsOf, Objects
  <2>3. RefsOf(v) = {w[i].v : i \in DOMAIN w}
    BY <1>13 DEF RefsOf, Objects
  <2>4. \A i \in DOMAIN w : i = 1 \/ i = 2
    BY <1>12
  <2> QED BY <1>12, <2>2, <2>3, <2>4
<1>15. PICK u, c : u = Append(r, v) /\ c = Push(b, A("strs"))
  OBVIOUS
<1>16. A("strs") \in Entry /\ A("strs").k = "strs" /\ Owns(A("strs"), v) = "strs"
  BY Entries DEF Owns
<1>17. u[k] = v /\ \A j \in 1 .. l : u[j] = st[j]
  BY <1>4, <1>8, <1>13, <1>15, Stacks
<1>18. Shows(u, loc, A("strs"), k)
  <2>1. \A i \in 1 .. ArrayLength : v.v[i].t = "string"
    BY <1>9, <1>12, <1>13 DEF ArrayLength
  <2>2. HasKind(u[k], "strs")
    BY <1>12, <1>13, <1>17, <2>1 DEF HasKind, ArrayLength
  <2> QED BY <1>16, <2>2 DEF Shows
<1>19. Typed(u, loc, c)
  BY <1>4, <1>6, <1>7, <1>13, <1>15, <1>16, <1>18, TypedPush
<1>20. Bounded(u, loc, hp, m)
  <2>1. 2 \in 0 .. Len(st) /\ hp \subseteq hp
    BY <1>1
  <2>2. Bounded(SubSeq(st, 1, Len(st) - 2), loc, hp, m)
    BY <1>1, <1>2, <2>1, BoundedPop
  <2>3. Bounded(r, loc, hp, m)
    BY <1>1, <1>3, <1>5, <2>2
  <2>4. hp \subseteq 1 .. m
    BY <1>2 DEF Bounded
  <2> QED BY <1>8, <1>13, <1>14, <1>15, <2>3, <2>4, BoundedPush
<1>21. Own(u, c) = Own(r, b) \union Tokens(k, "strs")
  BY <1>4, <1>6, <1>7, <1>13, <1>15, <1>16, OwnPush
<1>22. PICK T, T2 : T = Own(st, a) /\ T2 = Own(u, c)
  OBVIOUS
<1>23. PICK f : f = [o \in T |-> IF o[1] = "stack" /\ o[2] = n THEN <<"stack", k, 2>>
                                 ELSE IF o[1] = "stack" /\ o[2] = k THEN <<"stack", k, 1>> ELSE o]
  OBVIOUS
<1>24. Tokens(k, "strs") = {<<"stack", k, 1>>, <<"stack", k, 2>>}
  <2>1. Places(k, "strs") = {<<k, 1>>, <<k, 2>>}
    BY <1>4 DEF Places, ArrayLength
  <2> QED BY <1>4, <2>1 DEF Tokens
<1>25. <<"stack", n, 0>> \in T /\ <<"stack", k, 0>> \in T
  <2>1. Owns(a.tag[n], st[n]) = "string" /\ Owns(a.tag[k], st[k]) = "string"
    BY <1>3 DEF Owns
  <2> QED BY <1>3, <1>4, <1>22, <2>1 DEF Own, Places
<1>26. \A o \in Own(r, b) : o \in T /\ (o[1] = "stack" => o[2] \in 1 .. l)
  <2>1. \A j \in 1 .. l : j \in 1 .. n
    BY <1>4
  <2> QED BY <1>3, <1>7, <1>8, <1>22, <2>1 DEF Own
<1>27. ASSUME NEW o \in T
       PROVE  f[o] \in T2 /\ Obj(u, loc, f[o]) = Obj(st, loc, o)
  <2>1. CASE o[1] = "slot"
    <3>1. f[o] = o
      BY <1>23, <2>1
    <3>2. o \in Own(r, b)
      BY <1>7, <1>22, <2>1 DEF Own
    <3> QED BY <1>21, <1>22, <2>1, <3>1, <3>2, ObjSame
  <2>2. CASE o[1] = "stack" /\ o[2] = n
    <3>1. f[o] = <<"stack", k, 2>>
      BY <1>23, <2>2
    <3>2. o[3] = 0
      BY <1>3, <1>22, <2>2 DEF Own, Owns, Places
    <3>3. Obj(u, loc, <<"stack", k, 2>>) = st[n].v
      BY <1>12, <1>13, <1>17 DEF Obj
    <3>4. Obj(st, loc, o) = st[n].v
      BY <2>2, <3>2 DEF Obj
    <3> QED BY <1>21, <1>22, <1>24, <3>1, <3>3, <3>4
  <2>3. CASE o[1] = "stack" /\ o[2] = k
    <3>1. f[o] = <<"stack", k, 1>>
      BY <1>4, <1>23, <2>3
    <3>2. o[3] = 0
      BY <1>3, <1>22, <2>3 DEF Own, Owns, Places
    <3>3. Obj(u, loc, <<"stack", k, 1>>) = st[k].v
      BY <1>12, <1>13, <1>17 DEF Obj
    <3>4. Obj(st, loc, o) = st[k].v
      BY <2>3, <3>2 DEF Obj
    <3> QED BY <1>21, <1>22, <1>24, <3>1, <3>3, <3>4
  <2>4. CASE o[1] = "stack" /\ o[2] # n /\ o[2] # k
    <3>1. f[o] = o
      BY <1>23, <2>4
    <3>2. \A j \in 1 .. n : j # n /\ j # k => j \in 1 .. l
      BY <1>4
    <3>3. o[2] \in 1 .. l
      BY <1>3, <1>22, <2>4, <3>2 DEF Own
    <3>4. o \in Own(r, b)
      BY <1>7, <1>8, <1>22, <2>4, <3>3 DEF Own
    <3>5. u[o[2]] = st[o[2]]
      BY <1>17, <3>3
    <3> QED BY <1>21, <1>22, <2>4, <3>1, <3>4, <3>5, ObjSame
  <2>5. o[1] = "slot" \/ o[1] = "stack"
    BY <1>22 DEF Own
  <2> QED BY <2>1, <2>2, <2>3, <2>4, <2>5
<1>28. ASSUME NEW q \in T2 PROVE \E o \in T : f[o] = q
  <2>1. CASE q \in Own(r, b)
    <3>1. q \in T /\ (q[1] = "stack" => q[2] \in 1 .. l)
      BY <1>26, <2>1
    <3>2. \A j \in 1 .. l : j # n /\ j # k
      BY <1>4
    <3>3. f[q] = q
      BY <1>23, <3>1, <3>2
    <3> QED BY <3>1, <3>3
  <2>2. CASE q = <<"stack", k, 1>>
    <3>1. f[<<"stack", k, 0>>] = q
      BY <1>4, <1>23, <1>25, <2>2
    <3> QED BY <1>25, <3>1
  <2>3. CASE q = <<"stack", k, 2>>
    <3>1. f[<<"stack", n, 0>>] = q
      BY <1>23, <1>25, <2>3
    <3> QED BY <1>25, <3>1
  <2> QED BY <1>21, <1>22, <1>24, <2>1, <2>2, <2>3
<1>29. f \in [T -> T2]
  BY <1>23, <1>27
<1>30. Exact(u, loc, hp, T2)
  <2>1. \A q \in T2 : \E o \in T : f[o] = q
    BY <1>28
  <2>2. \A o \in T : Obj(u, loc, f[o]) = Obj(st, loc, o)
    BY <1>27
  <2>3. Exact(st, loc, hp, T)
    BY <1>1, <1>22
  <2> QED BY <1>29, <2>1, <2>2, <2>3, ExactMoved
<1>31. Matches(u, loc, hp, c)
  BY <1>19, <1>20, <1>22, <1>30 DEF Matches
<1>32. r = SubSeq(st, 1, Len(st) - 2)
  BY <1>1, <1>3, <1>5
<1> QED BY <1>5, <1>13, <1>15, <1>31, <1>32

\* The top value, which owns nothing, is replaced by another.
LEMMA MatchesReplace ==
  ASSUME NEW st, NEW loc, NEW hp, NEW a, Matches(st, loc, hp, a), a.h >= 1,
         Owns(TopOf(a), Last(st)) = "data", NEW t \in Entry, NEW v \in Values, Owns(t, v) = "data",
         NEW u, u = Append(SubSeq(st, 1, Len(st) - 1), v), Shows(u, loc, t, a.h),
         \A m : Bounded(st, loc, hp, m) => RefsOf(v) \subseteq 1 .. m
  PROVE  Matches(u, loc, hp, Named(a, t))
<1>1. Typed(st, loc, a) /\ st \in Seq(Values) /\ a.h \in Nat /\ Len(st) = a.h /\ a \in State /\ Live(a)
  BY DEF Matches, Typed, State
<1>2. PICK r, b, k : r = SubSeq(st, 1, Len(st) - 1) /\ b = Pop(a, 1) /\ k = a.h - 1
  OBVIOUS
<1>3. Matches(r, loc, hp, b)
  BY <1>2, MatchesPop
<1>4. b \in State /\ b.h = k /\ k + 1 = a.h /\ b.flow = a.flow /\ b.env = a.env /\ b.held = a.held /\ b.tag = a.tag
  BY <1>1, <1>2, PopState
<1>5. PICK m0 : Bounded(st, loc, hp, m0)
  BY DEF Matches
<1>6. PICK w : w = Append(r, v)
  OBVIOUS
<1>7. w = u
  BY <1>2, <1>6
<1>8. RefsOf(v) \subseteq 1 .. m0
  BY <1>5
<1>9. Matches(w, loc, hp, Push(b, t))
  <2>1. Typed(r, loc, b) /\ Exact(r, loc, hp, Own(r, b)) /\ r \in Seq(Values) /\ Len(r) = k /\ k \in Nat
    BY <1>3, <1>4 DEF Matches, Typed, State
  <2>2. Typed(w, loc, Push(b, t))
    BY <1>4, <1>6, <1>7, <2>1, TypedPush
  <2>3. 1 \in 0 .. Len(st) /\ hp \subseteq hp
    BY <1>1
  <2>4. Bounded(r, loc, hp, m0)
    BY <1>1, <1>2, <1>5, <2>3, BoundedPop
  <2>5. hp \subseteq 1 .. m0
    BY <1>5 DEF Bounded
  <2>6. Bounded(w, loc, hp, m0)
    BY <1>6, <1>8, <2>1, <2>4, <2>5, BoundedPush
  <2>7. Own(w, Push(b, t)) = Own(r, b)
    <3>1. Tokens(k + 1, "data") = {}
      BY <2>1, TokensOf
    <3>2. Own(w, Push(b, t)) = Own(r, b) \union Tokens(k + 1, Owns(t, v))
      BY <1>4, <1>6, <2>1, OwnPush
    <3> QED BY <3>1, <3>2
  <2>8. ASSUME NEW o \in Own(r, b) PROVE Obj(w, loc, o) = Obj(r, loc, o)
    <3>1. \A j \in 1 .. k : w[j] = r[j]
      BY <1>6, <2>1, Stacks
    <3>2. o[1] = "slot" \/ (o[1] = "stack" /\ o[2] \in 1 .. k)
      BY <1>4 DEF Own
    <3> QED BY <3>1, <3>2, ObjSame
  <2>9. Exact(w, loc, hp, Own(r, b))
    BY <2>1, <2>8, ExactKept
  <2> QED BY <2>2, <2>6, <2>7, <2>9 DEF Matches
<1>10. PICK c, d : c = Push(b, t) /\ d = Named(a, t)
  OBVIOUS
<1>11. /\ c \in State /\ c.h = a.h /\ c.flow = a.flow /\ c.env = a.env /\ c.held = a.held /\ c.tag[a.h] = t
       /\ \A j \in 1 .. k : c.tag[j] = a.tag[j]
  BY <1>4, <1>10, PushState DEF TopOf
<1>12. /\ d \in State /\ d.h = a.h /\ d.flow = a.flow /\ d.env = a.env /\ d.held = a.held
       /\ \A j \in Nat : d.tag[j] = IF j = a.h THEN t ELSE a.tag[j]
  BY <1>1, <1>10, NamedState
<1>13. \A j \in 1 .. a.h : j \in Nat /\ (j = a.h \/ j \in 1 .. k)
  <2>1. PICK n : n = a.h
    OBVIOUS
  <2>2. n \in Nat /\ k = n - 1
    BY <1>1, <1>2, <2>1
  <2>3. \A j \in 1 .. n : j \in Nat /\ (j = n \/ j \in 1 .. k)
    BY <2>2
  <2> QED BY <2>1, <2>3
<1>14. \A j \in 1 .. a.h : d.tag[j] = c.tag[j]
  BY <1>11, <1>12, <1>13
<1>15. Leads(c, d)
  BY <1>1, <1>11, <1>12, <1>14 DEF Leads, Live
<1> QED BY <1>7, <1>9, <1>10, <1>12, <1>15, MatchesLeads

\* The sequences that the machine makes.
LEMMA Stacked ==
  ASSUME NEW st \in Seq(Values), NEW v \in Values, NEW n \in 0 .. Len(st)
  PROVE  /\ SubSeq(st, 1, Len(st) - n) \o <<v>> = Append(SubSeq(st, 1, Len(st) - n), v)
         /\ SubSeq(st, 1, Len(st) - n) \o << >> = SubSeq(st, 1, Len(st) - n)
         /\ SubSeq(st, 1, Len(st) - 0) = st
<1>1. PICK r : r = SubSeq(st, 1, Len(st) - n)
  OBVIOUS
<1>2. r \in Seq(Values)
  BY <1>1, Stacks
<1>3. r \o << >> = r
  BY <1>2
<1>4. r \o <<v>> = Append(r, v)
  BY <1>2
<1>5. Len(st) - 0 = Len(st)
  OBVIOUS
<1>6. SubSeq(st, 1, Len(st)) = st
  OBVIOUS
<1> QED BY <1>1, <1>3, <1>4, <1>5, <1>6

\* A new value that owns nothing.
LEMMA NewPlain ==
  ASSUME NEW type \in {"int", "bool", "row"}
  PROVE  /\ New(type) \in Values /\ New(type).t = type /\ RefsOf(New(type)) = {}
<1>1. type \notin Objects /\ type # "strs" /\ type # "string" /\ type # "nil"
  BY DEF Objects
<1>2. PICK x \in Nat \union SUBSET BOOLEAN : New(type) = Value(type, x)
  <2>1. CASE type = "bool"
    BY <1>1, <2>1 DEF New
  <2>2. CASE type # "bool"
    <3>1. New(type) = Value(type, 0)
      BY <1>1, <2>2 DEF New
    <3>2. 0 \in Nat \union SUBSET BOOLEAN
      OBVIOUS
    <3> QED BY <3>1, <3>2
  <2> QED BY <2>1, <2>2
<1>3. Value(type, x) \in Plain /\ Value(type, x).t = type
  BY DEF Value, Plain
<1>4. RefsOf(Value(type, x)) = {}
  BY <1>1, <1>3 DEF RefsOf
<1> QED BY <1>2, <1>3, <1>4 DEF Values

(* The instructions, one by one: what is known before one fits it, and the *)
(* frame is then as what is known after it.                                *)
Fitting(a) == Matches(stack, locals, heap, a) /\ Fits(Instruction.op, Arg, a)
Moving(a) == pc' = pc + 1 /\ Matches(stack', locals', heap', After(Instruction.op, Arg, a))

\* What a frame that matches has.
LEMMA FrameOf ==
  ASSUME NEW a, Fitting(a)
  PROVE  /\ Typed(stack, locals, a) /\ stack \in Seq(Values) /\ a.h \in Nat /\ Len(stack) = a.h /\ a \in State /\ Live(a)
         /\ locals \in [DOMAIN locals -> Values] /\ DOMAIN locals \subseteq Nat
         /\ Below(0) = stack
         /\ a.h >= 1 => /\ Top = stack[a.h] /\ Top \in Values /\ TopOf(a) = a.tag[a.h] /\ TopOf(a) \in Entry
                        /\ Shows(stack, locals, TopOf(a), a.h)
<1>1. Typed(stack, locals, a) /\ stack \in Seq(Values) /\ a.h \in Nat /\ Len(stack) = a.h /\ a \in State /\ Live(a)
  BY DEF Fitting, Matches, Typed, State
<1>2. locals \in [DOMAIN locals -> Values] /\ DOMAIN locals \subseteq Nat
  BY <1>1 DEF Typed
<1>3. Below(0) = stack
  BY <1>1 DEF Below
<1>4. ASSUME a.h >= 1
      PROVE  /\ Top = stack[a.h] /\ Top \in Values /\ TopOf(a) = a.tag[a.h] /\ TopOf(a) \in Entry
             /\ Shows(stack, locals, TopOf(a), a.h)
  <2>1. a.h \in 1 .. a.h
    BY <1>1, <1>4
  <2>2. Top = stack[a.h] /\ Top \in Values
    BY <1>1, <2>1 DEF Top, Last
  <2>3. TopOf(a) = a.tag[a.h] /\ TopOf(a) \in Entry
    BY <1>1 DEF TopOf, State
  <2>4. Shows(stack, locals, TopOf(a), a.h)
    BY <1>1, <2>1, <2>3 DEF Typed
  <2> QED BY <2>2, <2>3, <2>4
<1> QED BY <1>1, <1>2, <1>3, <1>4

\* A value that owns nothing is pushed.
LEMMA PushesValue ==
  ASSUME NEW a, Fitting(a), NEW t \in Entry, NEW v \in Values, Owns(t, v) = "data",
         NEW u, u = Append(stack, v), Shows(u, locals, t, a.h + 1),
         \A m : Bounded(stack, locals, heap, m) => RefsOf(v) \subseteq 1 .. m
  PROVE  Matches(u, locals, heap, Push(a, t))
BY MatchesPush DEF Fitting

\* LoadLocal copies what the slot holds: the slot stays the owner.
LEMMA LoadLocalMoves ==
  ASSUME NEW a, Fitting(a), LoadLocal
  PROVE  Moving(a)
<1>1. PICK s, v : s = Arg /\ v = locals[s]
  OBVIOUS
<1>2. Instruction.op = "LoadLocal" /\ pc' = pc + 1 /\ locals' = locals /\ heap' = heap /\ stack' = Below(0) \o <<v>>
  BY <1>1 DEF LoadLocal, Is, Replace, Proceed, OnlyStack
<1>3. s \in Nat \ {0} /\ a.env[s] # "unset"
  BY <1>1, <1>2 DEF Fitting, Fits
<1>4. s \in DOMAIN locals /\ HasKind(v, a.env[s]) /\ v \in Values
  BY <1>1, <1>3, FrameOf DEF Typed
<1>5. PICK t : t = IF a.env[s] = "data" THEN A("data") ELSE SlotOf(s)
  OBVIOUS
<1>6. t \in Entry /\ Owns(t, v) = "data" /\ ((t.k = "data" /\ a.env[s] = "data") \/ (t = SlotOf(s) /\ t.k = "slot" /\ t.s = s /\ t.i = 0))
  BY <1>3, <1>5, Entries DEF Owns
<1>7. PICK u : u = Append(stack, v)
  OBVIOUS
<1>8. u[a.h + 1] = v
  BY <1>4, <1>7, FrameOf, Stacks
<1>9. Shows(u, locals, t, a.h + 1)
  BY <1>1, <1>4, <1>6, <1>8 DEF Shows, HasKind
<1>10. ASSUME NEW m, Bounded(stack, locals, heap, m) PROVE RefsOf(v) \subseteq 1 .. m
  BY <1>1, <1>4, <1>10 DEF Bounded
<1>11. Matches(u, locals, heap, Push(a, t))
  BY <1>4, <1>6, <1>7, <1>9, <1>10, PushesValue
<1>12. stack' = u
  <2>1. 0 \in 0 .. Len(stack) /\ stack \in Seq(Values) /\ Below(0) = stack
    BY FrameOf
  <2>2. SubSeq(stack, 1, Len(stack) - 0) \o <<v>> = Append(SubSeq(stack, 1, Len(stack) - 0), v)
        /\ SubSeq(stack, 1, Len(stack) - 0) = stack
    BY <1>4, <2>1, Stacked
  <2> QED BY <1>2, <1>7, <2>1, <2>2
<1>13. After(Instruction.op, Arg, a) = Push(a, t)
  BY <1>1, <1>2, <1>5 DEF After
<1> QED BY <1>2, <1>11, <1>12, <1>13 DEF Moving

\* StoreLocal moves what the stack owns to the slot.
LEMMA StoreLocalMoves ==
  ASSUME NEW a, Fitting(a), StoreLocal
  PROVE  Moving(a)
<1>1. PICK s, l : s = Arg /\ l = locals'
  OBVIOUS
<1>2. /\ Instruction.op = "StoreLocal" /\ pc' = pc + 1 /\ heap' = heap /\ stack' = Below(1)
      /\ l = [r \in DOMAIN locals \union {s} |-> IF r = s THEN Top ELSE locals[r]]
  BY <1>1 DEF StoreLocal, Is, Proceed
<1>3. /\ s \in Nat \ {0} /\ a.h = 1 /\ TopOf(a).k \in {"data", "string", "strs"}
      /\ a.held \cap ({s} \X Nat) = {}
  BY <1>1, <1>2 DEF Fitting, Fits
<1>4. Matches(SubSeq(stack, 1, Len(stack) - 1), l, heap, Stored(Pop(a, 1), s, TopOf(a).k))
  <2>1. PICK kind : kind = TopOf(a).k
    OBVIOUS
  <2>2. l = StoredTo(locals, s, Last(stack))
    BY <1>2 DEF Top, StoredTo
  <2>3. Matches(stack, locals, heap, a)
    BY DEF Fitting
  <2>4. Matches(SubSeq(stack, 1, Len(stack) - 1), l, heap, Stored(Pop(a, 1), s, kind))
    BY <1>3, <2>1, <2>2, <2>3, MatchesStore
  <2> QED BY <2>1, <2>4
<1>5. After(Instruction.op, Arg, a) = Stored(Pop(a, 1), s, TopOf(a).k)
  BY <1>1, <1>2 DEF After, Stored
<1> QED BY <1>1, <1>2, <1>4, <1>5 DEF Moving, Below

\* LoadConst brings a new string, or a value that owns nothing.
LEMMA LoadConstMoves ==
  ASSUME NEW a, Fitting(a), LoadConst
  PROVE  Moving(a)
<1>1. PICK v : v = New(Arg)
  OBVIOUS
<1>2. /\ Instruction.op = "LoadConst" /\ pc' = pc + 1 /\ locals' = locals
      /\ stack' = Append(stack, v) /\ heap' = heap \union RefsOf(v)
  BY <1>1, FrameOf DEF LoadConst, Is, Produce, Proceed
<1>3. Arg \in {"string", "int", "bool"}
  BY <1>2 DEF Fitting, Fits
<1>4. CASE Arg = "string"
  <2>1. PICK x : x = Fresh
    OBVIOUS
  <2>2. PICK m : Bounded(stack, locals, heap, m)
    BY DEF Fitting, Matches
  <2>3. x \in Nat \ {0} /\ x \notin heap
    BY <2>1, <2>2, FrameOf, FreshFree
  <2>4. v = Value("string", x) /\ RefsOf(v) = {x}
    BY <1>1, <1>4, <2>1 DEF New, Value, RefsOf, Objects
  <2>5. Matches(Append(stack, Value("string", x)), locals, heap \union {x}, Push(a, A("string")))
    BY <2>3, MatchesPushNew DEF Fitting
  <2>6. After(Instruction.op, Arg, a) = Push(a, A("string"))
    BY <1>2, <1>4 DEF After
  <2> QED BY <1>2, <2>4, <2>5, <2>6 DEF Moving
<1>5. CASE Arg # "string"
  <2>1. v \in Values /\ v.t = Arg /\ RefsOf(v) = {} /\ v.t \in {"int", "bool", "row"}
    BY <1>1, <1>3, <1>5, NewPlain
  <2>2. A("data") \in Entry /\ A("data").k = "data" /\ Owns(A("data"), v) = "data"
    BY Entries DEF Owns
  <2>3. PICK u : u = Append(stack, v)
    OBVIOUS
  <2>4. u[a.h + 1] = v
    BY <2>1, <2>3, FrameOf, Stacks
  <2>5. Shows(u, locals, A("data"), a.h + 1)
    BY <2>1, <2>2, <2>4 DEF Shows, HasKind
  <2>6. \A m : RefsOf(v) \subseteq 1 .. m
    BY <2>1
  <2>7. Matches(u, locals, heap, Push(a, A("data")))
    BY <2>1, <2>2, <2>3, <2>5, <2>6, PushesValue
  <2>8. After(Instruction.op, Arg, a) = Push(a, A("data"))
    BY <1>2, <1>5 DEF After
  <2>9. heap' = heap
    BY <1>2, <2>1
  <2> QED BY <1>2, <2>3, <2>7, <2>8, <2>9 DEF Moving
<1> QED BY <1>4, <1>5

\* Pop takes a value that owns nothing.
LEMMA PopMoves ==
  ASSUME NEW a, Fitting(a), PopTop
  PROVE  Moving(a)
<1>1. /\ Instruction.op = "Pop" /\ pc' = pc + 1 /\ locals' = locals /\ heap' = heap
      /\ stack' = Below(1) \o << >>
  BY DEF PopTop, Is, Replace, Proceed, OnlyStack
<1>2. a.h >= 1 /\ TopOf(a).k \notin {"string", "strs", "maybe"}
  BY <1>1 DEF Fitting, Fits
<1>3. Owns(TopOf(a), Last(stack)) = "data"
  BY <1>2 DEF Owns
<1>4. Matches(SubSeq(stack, 1, Len(stack) - 1), locals, heap, Pop(a, 1))
  BY <1>2, <1>3, MatchesPop DEF Fitting
<1>5. stack' = SubSeq(stack, 1, Len(stack) - 1)
  <2>1. 1 \in 0 .. Len(stack) /\ Top \in Values
    BY <1>2, FrameOf
  <2>2. stack \in Seq(Values)
    BY FrameOf
  <2> QED BY <1>1, <2>1, <2>2, Stacked DEF Below
<1>6. After(Instruction.op, Arg, a) = Pop(a, 1)
  BY <1>1 DEF After
<1> QED BY <1>1, <1>4, <1>5, <1>6 DEF Moving

\* The top value, which owns nothing, is replaced by one like it.
LEMMA MatchesAnother ==
  ASSUME NEW st, NEW loc, NEW hp, NEW a, Matches(st, loc, hp, a), a.h >= 1, TopOf(a).k = "data",
         NEW v \in Values, v.t \in {"int", "bool", "row"}, RefsOf(v) = {},
         NEW u, u = Append(SubSeq(st, 1, Len(st) - 1), v)
  PROVE  Matches(u, loc, hp, a)
<1>1. PICK t : t = TopOf(a)
  OBVIOUS
<1>2. a \in State /\ a.h \in Nat /\ Len(st) = a.h /\ st \in Seq(Values) /\ t \in Entry /\ t.k = "data"
  BY <1>1 DEF Matches, Typed, State, TopOf
<1>3. Owns(TopOf(a), Last(st)) = "data" /\ Owns(t, v) = "data"
  BY <1>1, <1>2 DEF Owns
<1>4. u[a.h] = v
  <2>1. PICK w : w = SubSeq(st, 1, Len(st) - 1)
    OBVIOUS
  <2>2. w \in Seq(Values) /\ Len(w) = a.h - 1
    BY <1>2, <2>1, Stacks
  <2>3. Append(w, v)[Len(w) + 1] = v
    BY <2>2, Stacks
  <2>4. Len(w) + 1 = a.h
    BY <1>2, <2>2
  <2> QED BY <2>1, <2>3, <2>4
<1>5. Shows(u, loc, t, a.h)
  BY <1>2, <1>4 DEF Shows, HasKind
<1>6. \A m : Bounded(st, loc, hp, m) => RefsOf(v) \subseteq 1 .. m
  OBVIOUS
<1>7. Matches(u, loc, hp, Named(a, t))
  BY <1>2, <1>3, <1>5, <1>6, MatchesReplace
<1>8. Leads(Named(a, t), a)
  <2>1. PICK n : n = Named(a, t)
    OBVIOUS
  <2>2. n.h = a.h /\ n.env = a.env /\ n.held = a.held /\ n.flow = a.flow
        /\ \A j \in Nat : n.tag[j] = IF j = a.h THEN t ELSE a.tag[j]
    BY <1>2, <2>1, NamedState
  <2>3. \A j \in 1 .. a.h : a.tag[j] = n.tag[j]
    BY <1>1, <1>2, <2>2 DEF TopOf
  <2> QED BY <2>1, <2>2, <2>3 DEF Leads, Live
<1> QED BY <1>2, <1>7, <1>8, MatchesLeads

\* What replacing the top n values by one does to the stack.
LEMMA Replaced ==
  ASSUME NEW a, Fitting(a), NEW v \in Values, NEW n \in 0 .. a.h, Replace(n, <<v>>)
  PROVE  /\ stack' = Append(SubSeq(stack, 1, Len(stack) - n), v)
         /\ n = 0 => stack' = Append(stack, v)
         /\ pc' = pc + 1 /\ locals' = locals /\ heap' = heap
<1>1. stack' = SubSeq(stack, 1, Len(stack) - n) \o <<v>> /\ pc' = pc + 1 /\ locals' = locals /\ heap' = heap
  BY DEF Replace, Proceed, OnlyStack, Below
<1>2. stack \in Seq(Values) /\ Len(stack) = a.h
  BY FrameOf
<1>3. n \in 0 .. Len(stack)
  BY <1>2
<1>4. /\ SubSeq(stack, 1, Len(stack) - n) \o <<v>> = Append(SubSeq(stack, 1, Len(stack) - n), v)
      /\ SubSeq(stack, 1, Len(stack) - 0) = stack
  BY <1>2, <1>3, Stacked
<1> QED BY <1>1, <1>4

\* Dup copies what a slot holds, or a result that may be nil, without owning it.
LEMMA DupMoves ==
  ASSUME NEW a, Fitting(a), Dup
  PROVE  Moving(a)
<1>1. PICK v : v = Top
  OBVIOUS
<1>2. Instruction.op = "Dup" /\ Replace(0, <<v>>)
  BY <1>1 DEF Dup, Is
<1>3. a.h >= 1 /\ TopOf(a).k \in {"slot", "maybe"}
  BY <1>2 DEF Fitting, Fits
<1>4. /\ v = stack[a.h] /\ v \in Values /\ TopOf(a) \in Entry /\ Shows(stack, locals, TopOf(a), a.h)
      /\ a.h \in Nat /\ Len(stack) = a.h /\ stack \in Seq(Values)
  BY <1>1, <1>3, FrameOf
<1>5. PICK u : u = Append(stack, v)
  OBVIOUS
<1>6. stack' = u /\ pc' = pc + 1 /\ locals' = locals /\ heap' = heap
  BY <1>2, <1>4, <1>5, Replaced
<1>7. u[a.h + 1] = v /\ u[a.h] = v
  <2>1. a.h \in 1 .. Len(stack)
    BY <1>3, <1>4
  <2> QED BY <1>4, <1>5, <2>1, Stacks
<1>8. PICK t : t = IF TopOf(a).k = "maybe" THEN A("copy") ELSE TopOf(a)
  OBVIOUS
<1>9. t \in Entry /\ ((t.k = "copy" /\ TopOf(a).k = "maybe") \/ (t = TopOf(a) /\ t.k = "slot"))
  BY <1>3, <1>4, <1>8, Entries
<1>10. Owns(t, v) = "data"
  BY <1>9 DEF Owns
<1>11. Shows(u, locals, t, a.h + 1)
  <2>1. CASE t.k = "copy"
    BY <1>3, <1>4, <1>7, <2>1 DEF Shows, HasKind
  <2>2. CASE t = TopOf(a) /\ t.k = "slot"
    BY <1>4, <1>7, <2>2 DEF Shows, HasKind
  <2> QED BY <1>9, <2>1, <2>2
<1>12. ASSUME NEW m, Bounded(stack, locals, heap, m) PROVE RefsOf(v) \subseteq 1 .. m
  <2>1. a.h \in 1 .. Len(stack)
    BY <1>3, <1>4
  <2> QED BY <1>4, <1>12, <2>1 DEF Bounded
<1>13. Matches(u, locals, heap, Push(a, t))
  BY <1>4, <1>5, <1>9, <1>10, <1>11, <1>12, PushesValue
<1>14. After(Instruction.op, Arg, a) = Push(a, t)
  BY <1>2, <1>8 DEF After
<1> QED BY <1>6, <1>13, <1>14 DEF Moving

\* IsNil replaces the copy by whether the value below it is nil.
LEMMA IsNilMoves ==
  ASSUME NEW a, Fitting(a), IsNil
  PROVE  Moving(a)
<1>1. PICK b \in BOOLEAN : b = (Top.t = "nil")
  OBVIOUS
<1>2. PICK v : v = Value("bool", {b})
  OBVIOUS
<1>3. Instruction.op = "IsNil" /\ Replace(1, <<v>>)
  BY <1>1, <1>2 DEF IsNil, Is
<1>4. a.h >= 2 /\ TopOf(a).k = "copy" /\ Under(a).k = "maybe"
  BY <1>3 DEF Fitting, Fits
<1>5. /\ Top = stack[a.h] /\ TopOf(a) \in Entry /\ Shows(stack, locals, TopOf(a), a.h)
      /\ a.h \in Nat /\ Len(stack) = a.h /\ stack \in Seq(Values)
  BY <1>4, FrameOf
<1>6. stack[a.h] = stack[a.h - 1]
  BY <1>4, <1>5 DEF Shows
<1>7. v \in Values /\ v.t = "bool" /\ v.v = {b} /\ RefsOf(v) = {}
  BY <1>2 DEF Value, Values, Plain, RefsOf, Objects
<1>8. PICK u : u = Append(SubSeq(stack, 1, Len(stack) - 1), v)
  OBVIOUS
<1>9. 1 \in 0 .. a.h
  BY <1>4, <1>5
<1>10. stack' = u /\ pc' = pc + 1 /\ locals' = locals /\ heap' = heap
  BY <1>3, <1>7, <1>8, <1>9, Replaced
<1>11. u[a.h] = v /\ u[a.h - 1] = stack[a.h - 1]
  <2>1. PICK w : w = SubSeq(stack, 1, Len(stack) - 1)
    OBVIOUS
  <2>2. w \in Seq(Values) /\ Len(w) = a.h - 1 /\ \A j \in 1 .. a.h - 1 : w[j] = stack[j]
    BY <1>5, <1>9, <2>1, Stacks
  <2>3. Append(w, v)[Len(w) + 1] = v /\ \A j \in 1 .. Len(w) : Append(w, v)[j] = w[j]
    BY <1>7, <2>2, Stacks
  <2>4. Len(w) + 1 = a.h /\ a.h - 1 \in 1 .. Len(w)
    BY <1>4, <1>5, <2>2
  <2> QED BY <1>8, <2>1, <2>2, <2>3, <2>4
<1>12. A("isnil") \in Entry /\ A("isnil").k = "isnil"
  BY Entries
<1>13. Owns(A("isnil"), v) = "data" /\ Owns(TopOf(a), Last(stack)) = "data"
  BY <1>4, <1>12 DEF Owns
<1>14. Shows(u, locals, A("isnil"), a.h)
  <2>1. v.v = {u[a.h - 1].t = "nil"}
    BY <1>1, <1>5, <1>6, <1>7, <1>11
  <2> QED BY <1>4, <1>11, <1>12, <2>1 DEF Shows, HasKind
<1>15. \A m : Bounded(stack, locals, heap, m) => RefsOf(v) \subseteq 1 .. m
  BY <1>7
<1>16. Matches(u, locals, heap, Named(a, A("isnil")))
  <2>1. Matches(stack, locals, heap, a)
    BY DEF Fitting
  <2>2. PICK t : t = A("isnil")
    OBVIOUS
  <2>3. a.h >= 1
    BY <1>4, <1>5
  <2>4. Matches(u, locals, heap, Named(a, t))
    BY <1>7, <1>8, <1>12, <1>13, <1>14, <1>15, <2>1, <2>2, <2>3, MatchesReplace
  <2> QED BY <2>2, <2>4
<1>17. After(Instruction.op, Arg, a) = Named(a, A("isnil"))
  BY <1>3 DEF After
<1> QED BY <1>10, <1>16, <1>17 DEF Moving

\* Two operands become a result.
LEMMA OperatorMoves ==
  ASSUME NEW a, Fitting(a), Compare \/ Add
  PROVE  Moving(a)
<1>1. PICK type \in {"int", "bool"} : Instruction.op \in {"Compare", "Add"} /\ Replace(2, <<New(type)>>)
  BY DEF Compare, Add, Is
<1>2. PICK v : v = New(type)
  OBVIOUS
<1>3. v \in Values /\ v.t \in {"int", "bool", "row"} /\ RefsOf(v) = {}
  BY <1>1, <1>2, NewPlain
<1>4. a.h >= 2 /\ TopOf(a).k = "data" /\ Under(a).k = "data"
  BY <1>1 DEF Fitting, Fits
<1>5. /\ a.h \in Nat /\ Len(stack) = a.h /\ stack \in Seq(Values) /\ a \in State
      /\ Matches(stack, locals, heap, a)
  BY FrameOf DEF Fitting
<1>6. 2 \in 0 .. a.h /\ a.h >= 1 /\ Pop(a, 1).h >= 1
  BY <1>4, <1>5, PopState
<1>7. /\ stack' = Append(SubSeq(stack, 1, Len(stack) - 2), v)
      /\ pc' = pc + 1 /\ locals' = locals /\ heap' = heap
  BY <1>1, <1>2, <1>3, <1>6, Replaced
<1>8. PICK u, b : u = SubSeq(stack, 1, Len(stack) - 1) /\ b = Pop(a, 1)
  OBVIOUS
<1>9. /\ SubSeq(u, 1, Len(u) - 1) = SubSeq(stack, 1, Len(stack) - 2)
      /\ TopOf(b) = a.tag[a.h - 1]
  BY <1>4, <1>5, <1>8, PopTwice
<1>10. Matches(u, locals, heap, b)
  <2>1. Owns(TopOf(a), Last(stack)) = "data"
    BY <1>4 DEF Owns
  <2> QED BY <1>5, <1>6, <1>8, <2>1, MatchesPop
<1>11. TopOf(b).k = "data" /\ b.h >= 1
  BY <1>4, <1>6, <1>8, <1>9 DEF Under
<1>12. PICK w : w = Append(SubSeq(u, 1, Len(u) - 1), v)
  OBVIOUS
<1>13. Matches(w, locals, heap, b)
  BY <1>3, <1>10, <1>11, <1>12, MatchesAnother
<1>14. After(Instruction.op, Arg, a) = b
  BY <1>1, <1>8 DEF After
<1> QED BY <1>7, <1>9, <1>12, <1>13, <1>14 DEF Moving

\* What is read of a table owns nothing.
LEMMA TableReadMoves ==
  ASSUME NEW a, Fitting(a), TableRead
  PROVE  Moving(a)
<1>1. PICK type \in {"int", "row"} :
        \/ Instruction.op = "TableCount" /\ Replace(0, <<New(type)>>)
        \/ Instruction.op \in {"LoadRow", "LoadField"} /\ Replace(1, <<New(type)>>)
  BY DEF TableRead, Is
<1>2. PICK v : v = New(type)
  OBVIOUS
<1>3. v \in Values /\ v.t \in {"int", "bool", "row"} /\ RefsOf(v) = {}
  BY <1>1, <1>2, NewPlain
<1>4. /\ a.h \in Nat /\ Len(stack) = a.h /\ stack \in Seq(Values) /\ a \in State
      /\ Matches(stack, locals, heap, a)
  BY FrameOf DEF Fitting
<1>5. CASE Instruction.op = "TableCount"
  <2>1. 0 \in 0 .. a.h
    BY <1>4
  <2>2. PICK u : u = Append(stack, v)
    OBVIOUS
  <2>3. stack' = u /\ pc' = pc + 1 /\ locals' = locals /\ heap' = heap
    BY <1>1, <1>2, <1>3, <1>5, <2>1, <2>2, Replaced
  <2>4. A("data") \in Entry /\ A("data").k = "data" /\ Owns(A("data"), v) = "data"
    BY Entries DEF Owns
  <2>5. u[a.h + 1] = v
    BY <1>3, <1>4, <2>2, Stacks
  <2>6. Shows(u, locals, A("data"), a.h + 1)
    BY <1>3, <2>4, <2>5 DEF Shows, HasKind
  <2>7. \A m : Bounded(stack, locals, heap, m) => RefsOf(v) \subseteq 1 .. m
    BY <1>3
  <2>8. Matches(u, locals, heap, Push(a, A("data")))
    BY <1>3, <2>2, <2>4, <2>6, <2>7, PushesValue
  <2>9. After(Instruction.op, Arg, a) = Push(a, A("data"))
    BY <1>5 DEF After
  <2> QED BY <2>3, <2>8, <2>9 DEF Moving
<1>6. CASE Instruction.op \in {"LoadRow", "LoadField"}
  <2>1. a.h >= 1 /\ TopOf(a).k = "data"
    BY <1>6 DEF Fitting, Fits
  <2>2. 1 \in 0 .. a.h
    BY <1>4, <2>1
  <2>3. PICK u : u = Append(SubSeq(stack, 1, Len(stack) - 1), v)
    OBVIOUS
  <2>4. stack' = u /\ pc' = pc + 1 /\ locals' = locals /\ heap' = heap
    BY <1>1, <1>2, <1>3, <1>6, <2>2, <2>3, Replaced
  <2>5. Matches(u, locals, heap, a)
    BY <1>3, <1>4, <2>1, <2>3, MatchesAnother
  <2>6. After(Instruction.op, Arg, a) = a
    BY <1>6 DEF After
  <2> QED BY <2>4, <2>5, <2>6 DEF Moving
<1> QED BY <1>1, <1>5, <1>6

\* NewFixedArray moves what the stack owns to the array.
LEMMA NewFixedArrayMoves ==
  ASSUME NEW a, Fitting(a), NewFixedArray
  PROVE  Moving(a)
<1>1. Instruction.op = "NewFixedArray"
  BY DEF NewFixedArray, Is
<1>2. Arg = 2 /\ a.h >= 2 /\ \A j \in a.h - ArrayLength + 1 .. a.h : a.tag[j].k = "string"
  BY <1>1 DEF Fitting, Fits, ArrayLength
<1>3. /\ a.h \in Nat /\ Len(stack) = a.h /\ stack \in Seq(Values) /\ a \in State
      /\ Matches(stack, locals, heap, a)
  BY FrameOf DEF Fitting
<1>4. a.tag[a.h].k = "string" /\ a.tag[a.h - 1].k = "string"
  <2>1. a.h \in a.h - ArrayLength + 1 .. a.h /\ a.h - 1 \in a.h - ArrayLength + 1 .. a.h
    BY <1>2, <1>3 DEF ArrayLength
  <2> QED BY <1>2, <2>1
<1>5. PICK v : v = Value("strs", SubSeq(stack, Len(stack) - 1, Len(stack)))
  OBVIOUS
<1>6. Replace(2, <<v>>)
  <2>1. Len(stack) - Arg + 1 = Len(stack) - 1
    BY <1>2, <1>3
  <2> QED BY <1>2, <1>5, <2>1 DEF NewFixedArray
<1>7. PICK w : w = Append(SubSeq(stack, 1, Len(stack) - 2), v)
  OBVIOUS
<1>8. Matches(w, locals, heap, Push(Pop(a, 2), A("strs"))) /\ v \in Values
  BY <1>2, <1>3, <1>4, <1>5, <1>7, MatchesArray
<1>9. 2 \in 0 .. a.h
  BY <1>2, <1>3
<1>10. stack' = w /\ pc' = pc + 1 /\ locals' = locals /\ heap' = heap
  BY <1>6, <1>7, <1>8, <1>9, Replaced
<1>11. After(Instruction.op, Arg, a) = Push(Pop(a, 2), A("strs"))
  BY <1>1 DEF After, ArrayLength
<1> QED BY <1>8, <1>10, <1>11 DEF Moving

\* FixedArrayGet copies an element: the slot of the array stays the owner.
LEMMA FixedArrayGetMoves ==
  ASSUME NEW a, Fitting(a), FixedArrayGet
  PROVE  Moving(a)
<1>1. PICK i, v : i = Arg /\ v = Top.v[i]
  OBVIOUS
<1>2. Instruction.op = "FixedArrayGet" /\ Replace(1, <<v>>)
  BY <1>1 DEF FixedArrayGet, Is
<1>3. PICK s : s = TopOf(a).s
  OBVIOUS
<1>4. a.h >= 1 /\ TopOf(a).k = "slot" /\ a.env[s] = "strs" /\ i \in 1 .. ArrayLength
  BY <1>1, <1>2, <1>3 DEF Fitting, Fits
<1>5. /\ a.h \in Nat /\ Len(stack) = a.h /\ stack \in Seq(Values) /\ a \in State
      /\ Matches(stack, locals, heap, a) /\ Typed(stack, locals, a)
  BY FrameOf DEF Fitting
<1>6. /\ Top = stack[a.h] /\ Top \in Values /\ TopOf(a) \in Entry /\ Shows(stack, locals, TopOf(a), a.h)
  BY <1>4, FrameOf
<1>7. s \in Nat /\ i \in Nat
  BY <1>3, <1>4, <1>6 DEF Entry, ArrayLength
<1>8. s \in DOMAIN locals /\ Top = locals[s] /\ HasKind(Top, "strs")
  BY <1>3, <1>4, <1>5, <1>6, <1>7 DEF Shows, Typed
<1>9. Top.t = "strs" /\ Len(Top.v) = ArrayLength /\ v.t = "string"
  BY <1>1, <1>4, <1>8 DEF HasKind
<1>10. Top.v \in Seq(Plain)
  BY <1>6, <1>9 DEF Values, Plain
<1>11. i \in DOMAIN Top.v /\ v \in Values
  <2>1. DOMAIN Top.v = 1 .. ArrayLength
    BY <1>9, <1>10
  <2>2. v \in Plain
    BY <1>1, <1>4, <1>10, <2>1, ElementOfSeq, <1>9
  <2> QED BY <1>4, <2>1, <2>2 DEF Values
<1>12. PICK u : u = Append(SubSeq(stack, 1, Len(stack) - 1), v)
  OBVIOUS
<1>13. 1 \in 0 .. a.h /\ a.h \in 1 .. Len(stack)
  BY <1>4, <1>5
<1>14. stack' = u /\ pc' = pc + 1 /\ locals' = locals /\ heap' = heap
  BY <1>2, <1>11, <1>12, <1>13, Replaced
<1>15. u[a.h] = v
  <2>1. PICK w : w = SubSeq(stack, 1, Len(stack) - 1)
    OBVIOUS
  <2>2. w \in Seq(Values) /\ Len(w) = a.h - 1
    BY <1>5, <1>13, <2>1, Stacks
  <2>3. Append(w, v)[Len(w) + 1] = v
    BY <1>11, <2>2, Stacks
  <2>4. Len(w) + 1 = a.h
    BY <1>5, <2>2
  <2> QED BY <1>12, <2>1, <2>3, <2>4
<1>16. PICK t : t = ElementOf(s, i)
  OBVIOUS
<1>17. t \in Entry /\ t.k = "element" /\ t.s = s /\ t.i = i
  BY <1>7, <1>16, Entries
<1>18. Owns(t, v) = "data" /\ Owns(TopOf(a), Last(stack)) = "data"
  BY <1>4, <1>17 DEF Owns
<1>19. Shows(u, locals, t, a.h)
  BY <1>1, <1>8, <1>15, <1>17 DEF Shows, HasKind
<1>20. ASSUME NEW m, Bounded(stack, locals, heap, m) PROVE RefsOf(v) \subseteq 1 .. m
  <2>1. RefsOf(Top) \subseteq 1 .. m
    BY <1>6, <1>13, <1>20 DEF Bounded
  <2>2. RefsOf(v) = {v.v}
    BY <1>9 DEF RefsOf, Objects
  <2>3. RefsOf(Top) = {Top.v[j].v : j \in DOMAIN Top.v}
    BY <1>9 DEF RefsOf, Objects
  <2> QED BY <1>1, <1>11, <2>1, <2>2, <2>3
<1>21. Matches(u, locals, heap, Named(a, t))
  BY <1>4, <1>5, <1>11, <1>12, <1>17, <1>18, <1>19, <1>20, MatchesReplace
<1>22. After(Instruction.op, Arg, a) = Named(a, t)
  BY <1>1, <1>2, <1>3, <1>16 DEF After
<1> QED BY <1>14, <1>21, <1>22 DEF Moving

\* A new string, and where it is.
LEMMA NewString ==
  ASSUME NEW a, Fitting(a)
  PROVE  \E x \in Nat \ {0} : /\ x \notin heap /\ New("string") = Value("string", x)
                              /\ RefsOf(New("string")) = {x}
<1>1. PICK m : Bounded(stack, locals, heap, m)
  BY DEF Fitting, Matches
<1>2. PICK x : x = Fresh
  OBVIOUS
<1>3. x \in Nat \ {0} /\ x \notin heap
  BY <1>1, <1>2, FrameOf, FreshFree
<1>4. New("string") = Value("string", x) /\ RefsOf(New("string")) = {x}
  BY <1>2 DEF New, Value, RefsOf, Objects
<1> QED BY <1>3, <1>4

\* A state without none of its entries, and without no place.
LEMMA NothingLess ==
  ASSUME NEW a \in State
  PROVE  Pop(a, 0) = a /\ Without(a, {}) = a
<1>1. a.h \in Nat
  BY DEF State
<1>2. a.h - 0 = a.h
  BY <1>1
<1>3. Pop(a, 0) = a
  BY <1>2 DEF Pop, State
<1>4. PICK H : H = a.held
  OBVIOUS
<1>5. H \ {} = H
  OBVIOUS
<1>6. Without(a, {}) = a
  BY <1>4, <1>5 DEF Without, State
<1> QED BY <1>3, <1>6

\* A call of a function that is passed nothing.
LEMMA CallOfNothing ==
  ASSUME NEW a, Fitting(a), NEW v, NEW t, Produce(0, v, {}),
         \/ v = Nil /\ t = A("maybe")
         \/ v = New("string") /\ t \in {A("string"), A("maybe")}
  PROVE  pc' = pc + 1 /\ Matches(stack', locals', heap', Push(a, t))
<1>1. /\ stack' = Append(stack, v) /\ heap' = heap \union RefsOf(v) /\ pc' = pc + 1 /\ locals' = locals
  BY FrameOf DEF Produce, Proceed
<1>2. CASE v = Nil /\ t = A("maybe")
  <2>1. v \in Values /\ v.t = "nil" /\ RefsOf(v) = {}
    BY <1>2 DEF Nil, Value, Values, Plain, RefsOf, Objects
  <2>2. t \in Entry /\ t.k = "maybe" /\ Owns(t, v) = "data"
    BY <1>2, <2>1, Entries DEF Owns
  <2>3. PICK u : u = Append(stack, v)
    OBVIOUS
  <2>4. u[a.h + 1] = v
    BY <2>1, <2>3, FrameOf, Stacks
  <2>5. Shows(u, locals, t, a.h + 1)
    BY <2>1, <2>2, <2>4 DEF Shows, HasKind
  <2>6. \A m : Bounded(stack, locals, heap, m) => RefsOf(v) \subseteq 1 .. m
    BY <2>1
  <2>7. Matches(u, locals, heap, Push(a, t))
    BY <2>1, <2>2, <2>3, <2>5, <2>6, PushesValue
  <2>8. heap' = heap
    BY <1>1, <2>1
  <2> QED BY <1>1, <2>3, <2>7, <2>8
<1>3. CASE v = New("string") /\ t \in {A("string"), A("maybe")}
  <2>1. PICK x \in Nat \ {0} : x \notin heap /\ v = Value("string", x) /\ RefsOf(v) = {x}
    BY <1>3, NewString
  <2>2. Matches(Append(stack, Value("string", x)), locals, heap \union {x}, Push(a, t))
    BY <1>3, <2>1, MatchesPushNew DEF Fitting
  <2> QED BY <1>1, <2>1, <2>2
<1> QED BY <1>2, <1>3

\* Call: what is passed is gone, and what is returned is owned.
LEMMA CallMoves ==
  ASSUME NEW a, Fitting(a), Call
  PROVE  Moving(a)
<1>1. PICK r : r = Arg
  OBVIOUS
<1>2. Instruction.op = "Call"
  BY DEF Call, Is
<1>3. \/ r = [args |-> 0, ret |-> "nullable"]
      \/ r = [args |-> 0, ret |-> "string"]
      \/ r = [args |-> 1, ret |-> "string"] /\ a.h >= 1 /\ TopOf(a).k = "string"
  BY <1>1, <1>2 DEF Fitting, Fits
<1>4. PICK t : t = A(IF r.ret = "nullable" THEN "maybe" ELSE "string")
  OBVIOUS
<1>5. After(Instruction.op, Arg, a) = Push(Pop(a, r.args), t)
  BY <1>1, <1>2, <1>4 DEF After
<1>6. /\ a \in State /\ a.h \in Nat /\ Len(stack) = a.h /\ stack \in Seq(Values)
      /\ Matches(stack, locals, heap, a) /\ Below(0) = stack
  BY FrameOf DEF Fitting
<1>7. Pop(a, 0) = a
  BY <1>6, NothingLess
<1>8. CASE r.args = 0 /\ r.ret = "nullable"
  <2>1. t = A("maybe")
    BY <1>4, <1>8
  <2>2. PICK v \in {Nil, New("string")} : Produce(0, v, {})
    BY <1>1, <1>8 DEF Call
  <2>3. pc' = pc + 1 /\ Matches(stack', locals', heap', Push(a, t))
    BY <2>1, <2>2, CallOfNothing
  <2> QED BY <1>5, <1>7, <1>8, <2>3 DEF Moving
<1>9. CASE r.args = 0 /\ r.ret = "string"
  <2>1. t = A("string")
    BY <1>4, <1>9
  <2>2. Passed(0) = {}
    BY DEF Passed
  <2>3. PICK v : v = New("string")
    OBVIOUS
  <2>4. Produce(0, v, {})
    <3>1. Produce(r.args, New(r.ret), Passed(r.args))
      BY <1>1, <1>9 DEF Call
    <3> QED BY <1>9, <2>2, <2>3, <3>1
  <2>5. pc' = pc + 1 /\ Matches(stack', locals', heap', Push(a, t))
    BY <2>1, <2>3, <2>4, CallOfNothing
  <2> QED BY <1>5, <1>7, <1>9, <2>5 DEF Moving
<1>10. CASE r.args = 1 /\ r.ret = "string" /\ a.h >= 1 /\ TopOf(a).k = "string"
  <2>1. t = A("string")
    BY <1>4, <1>10
  <2>2. Passed(1) = {Last(stack).v}
    <3>1. 0 .. 1 - 1 = {0}
      OBVIOUS
    <3> QED BY <1>6, <3>1 DEF Passed
  <2>3. PICK v : v = New("string")
    OBVIOUS
  <2>4. Produce(1, v, {Last(stack).v})
    <3>1. Produce(r.args, New(r.ret), Passed(r.args))
      BY <1>1, <1>10 DEF Call
    <3> QED BY <1>10, <2>2, <2>3, <3>1
  <2>5. PICK u, hp : u = SubSeq(stack, 1, Len(stack) - 1) /\ hp = heap \ {Last(stack).v}
    OBVIOUS
  <2>6. Matches(u, locals, hp, Pop(a, 1))
    BY <1>6, <1>10, <2>5, MatchesPopOwned
  <2>7. PICK x \in Nat \ {0} : x \notin heap /\ v = Value("string", x) /\ RefsOf(v) = {x}
    BY <2>3, NewString
  <2>8. Matches(Append(u, Value("string", x)), locals, hp \union {x}, Push(Pop(a, 1), t))
    BY <2>1, <2>5, <2>6, <2>7, MatchesPushNew
  <2>9. stack' = Append(u, v) /\ heap' = hp \union {x} /\ pc' = pc + 1 /\ locals' = locals
    BY <2>4, <2>5, <2>7 DEF Produce, Proceed, Below
  <2> QED BY <1>5, <1>10, <2>7, <2>8, <2>9 DEF Moving
<1> QED BY <1>3, <1>8, <1>9, <1>10

\* What is freed is allocated, and goes.
LEMMA FreeMoves ==
  ASSUME NEW a, Fitting(a), Is({"FreeString", "FreeArray", "Release"})
  PROVE  /\ Top.v \in heap
         /\ Free => Moving(a)
<1>1. Instruction.op = "FreeString"
  BY DEF Is, Fitting, Fits
<1>2. a.h >= 1 /\ \/ TopOf(a).k = "string"
                  \/ TopOf(a).k = "slot" /\ a.env[TopOf(a).s] = "string" /\ Freed(a) \subseteq a.held
                  \/ /\ TopOf(a).k = "element" /\ a.env[TopOf(a).s] = "strs"
                     /\ TopOf(a).i \in 1 .. ArrayLength /\ Freed(a) \subseteq a.held
  BY <1>1 DEF Fitting, Fits
<1>3. /\ a \in State /\ a.h \in Nat /\ Len(stack) = a.h /\ stack \in Seq(Values)
      /\ Matches(stack, locals, heap, a) /\ Typed(stack, locals, a)
  BY FrameOf DEF Fitting
<1>4. /\ Top = stack[a.h] /\ TopOf(a) \in Entry /\ Shows(stack, locals, TopOf(a), a.h) /\ Top = Last(stack)
  BY <1>2, FrameOf DEF Top
<1>5. PICK u, o : u = SubSeq(stack, 1, Len(stack) - 1) /\ o = Top.v
  OBVIOUS
<1>6. PICK b : b = Without(Pop(a, 1), Freed(a))
  OBVIOUS
<1>7. o \in heap /\ Top.t = "string" /\ Matches(u, locals, heap \ {o}, b)
  <2>1. Pop(a, 1) \in State /\ Pop(a, 1).held = a.held
    BY <1>2, <1>3, PopState
  <2>2. CASE TopOf(a).k = "string"
    <3>1. Matches(u, locals, heap \ {o}, Pop(a, 1)) /\ Top.t = "string" /\ o \in heap
      BY <1>2, <1>3, <1>4, <1>5, <2>2, MatchesPopOwned
    <3>2. Freed(a) = {}
      BY <2>2 DEF Freed
    <3>3. b = Pop(a, 1)
      BY <1>6, <2>1, <3>2, NothingLess
    <3> QED BY <3>1, <3>3
  <2>3. CASE TopOf(a).k # "string"
    <3>1. PICK s, i : s = TopOf(a).s /\ i = TopOf(a).i
      OBVIOUS
    <3>2. s \in Nat /\ i \in Nat /\ Freed(a) = {<<s, i>>} /\ <<s, i>> \in a.held
      BY <1>2, <1>4, <2>3, <3>1 DEF Freed, Entry
    <3>3. Owns(TopOf(a), Last(stack)) = "data"
      BY <1>2, <2>3 DEF Owns
    <3>4. Matches(u, locals, heap, Pop(a, 1))
      BY <1>2, <1>3, <1>5, <3>3, MatchesPop
    <3>5. /\ Matches(u, locals, heap \ {Obj(u, locals, <<"slot", s, i>>)}, Without(Pop(a, 1), {<<s, i>>}))
          /\ Obj(u, locals, <<"slot", s, i>>) \in heap
      BY <2>1, <3>2, <3>4, MatchesFreed
    <3>6. Obj(u, locals, <<"slot", s, i>>) = o /\ Top.t = "string"
      <4>1. CASE TopOf(a).k = "slot"
        <5>1. i = 0 /\ Top = locals[s] /\ a.env[s] = "string"
          BY <1>2, <1>4, <3>1, <4>1 DEF Shows
        <5>2. HasKind(locals[s], "string")
          BY <1>3, <3>2, <5>1 DEF Typed
        <5> QED BY <1>5, <5>1, <5>2 DEF Obj, HasKind
      <4>2. CASE TopOf(a).k = "element"
        <5>1. Top = locals[s].v[i] /\ a.env[s] = "strs" /\ i \in 1 .. ArrayLength
          BY <1>2, <1>4, <3>1, <4>2 DEF Shows
        <5>2. HasKind(locals[s], "strs")
          BY <1>3, <3>2, <5>1 DEF Typed
        <5>3. i # 0
          BY <5>1
        <5> QED BY <1>5, <5>1, <5>2, <5>3 DEF Obj, HasKind
      <4> QED BY <1>2, <2>3, <4>1, <4>2
    <3> QED BY <1>6, <3>2, <3>5, <3>6
  <2> QED BY <2>2, <2>3
<1>8. ASSUME Free PROVE Moving(a)
  <2>1. DropKind(Top.t) = Instruction.op
    BY <1>1, <1>7 DEF DropKind
  <2>2. /\ stack' = u /\ heap' = heap \ {o} /\ pc' = pc + 1 /\ locals' = locals
    BY <1>5, <1>8, <2>1 DEF Free, Below, Proceed
  <2>3. After(Instruction.op, Arg, a) = b
    BY <1>1, <1>6 DEF After
  <2> QED BY <1>7, <2>2, <2>3 DEF Moving
<1> QED BY <1>5, <1>7, <1>8

\* The frame where the instruction jumps.
Branching(a) == pc' = Arg /\ Instruction.op \in Jumps /\ Matches(stack', locals', heap', Taken(Instruction.op, a))

\* Jump leaves the frame as it is.
LEMMA JumpMoves ==
  ASSUME NEW a, Fitting(a), Jump
  PROVE  Branching(a)
BY DEF Jump, Is, Branching, Jumps, Taken, Fitting

\* A condition that is popped: where it is a comparison with nil, the value below is known to
\* be nil, or a string.
LEMMA BranchMoves ==
  ASSUME NEW a, Fitting(a), Branch
  PROVE  (Moving(a) /\ Instruction.op = "JumpIfFalse") \/ Branching(a)
<1>1. Instruction.op = "JumpIfFalse"
  BY DEF Branch, Is, Fitting, Fits
<1>2. PICK b \in Top.v : pc' = IF b = FALSE THEN Arg ELSE pc + 1
  BY <1>1 DEF Branch
<1>3. a.h >= 1 /\ \/ TopOf(a).k = "data"
                  \/ TopOf(a).k = "isnil" /\ a.h >= 2 /\ Under(a).k = "maybe"
  BY <1>1 DEF Fitting, Fits
<1>4. /\ a \in State /\ a.h \in Nat /\ Len(stack) = a.h /\ stack \in Seq(Values)
      /\ Matches(stack, locals, heap, a) /\ Typed(stack, locals, a)
  BY FrameOf DEF Fitting
<1>5. /\ Top = stack[a.h] /\ Shows(stack, locals, TopOf(a), a.h)
  BY <1>3, FrameOf
<1>6. PICK u, c : u = SubSeq(stack, 1, Len(stack) - 1) /\ c = Pop(a, 1)
  OBVIOUS
<1>7. Matches(u, locals, heap, c)
  <2>1. Owns(TopOf(a), Last(stack)) = "data"
    BY <1>3 DEF Owns
  <2> QED BY <1>3, <1>4, <1>6, <2>1, MatchesPop
<1>8. stack' = u /\ locals' = locals /\ heap' = heap
  BY <1>6 DEF Branch, OnlyStack, Below
<1>9. CASE TopOf(a).k = "data"
  <2>1. After(Instruction.op, Arg, a) = c /\ Taken(Instruction.op, a) = c
    BY <1>1, <1>6, <1>9 DEF After, Taken
  <2> QED BY <1>1, <1>2, <1>7, <1>8, <2>1 DEF Moving, Branching, Jumps
<1>10. CASE TopOf(a).k = "isnil" /\ a.h >= 2 /\ Under(a).k = "maybe"
  <2>1. c \in State /\ c.h = a.h - 1 /\ c.tag = a.tag /\ c.h >= 1
    <3>1. 1 <= a.h
      BY <1>4, <1>10
    <3>2. c \in State /\ c.h = a.h - 1 /\ c.tag = a.tag
      BY <1>4, <1>6, <3>1, PopState
    <3> QED BY <1>4, <1>10, <3>2
  <2>2. TopOf(c).k = "maybe"
    BY <1>10, <2>1 DEF TopOf, Under
  <2>3. PICK w : w = stack[a.h - 1]
    OBVIOUS
  <2>4. Len(u) = a.h - 1 /\ Last(u) = w /\ u[c.h] = w
    <3>1. Len(u) = a.h - 1 /\ \A j \in 1 .. a.h - 1 : u[j] = stack[j]
      BY <1>3, <1>4, <1>6, Stacks
    <3>2. a.h - 1 \in 1 .. a.h - 1
      BY <1>4, <1>10
    <3> QED BY <2>1, <2>3, <3>1, <3>2 DEF Last
  <2>5. w.t \in {"string", "nil"}
    <3>1. a.h - 1 \in 1 .. a.h
      BY <1>4, <1>10
    <3>2. Shows(stack, locals, Under(a), a.h - 1)
      BY <1>4, <3>1 DEF Typed, Under
    <3> QED BY <1>10, <2>3, <3>2 DEF Shows
  <2>6. b = (w.t = "nil")
    BY <1>2, <1>5, <1>10, <2>3 DEF Shows
  <2>7. CASE w.t = "nil"
    <3>1. pc' = pc + 1
      BY <1>2, <2>6, <2>7
    <3>2. PICK t : t = A("nil")
      OBVIOUS
    <3>3. t \in Entry /\ t.k = "nil"
      BY <3>2, Entries
    <3>4. Shows(u, locals, t, c.h) /\ Owns(t, Last(u)) = Owns(TopOf(c), Last(u))
      BY <2>2, <2>4, <2>7, <3>3 DEF Shows, HasKind, Owns
    <3>5. Matches(u, locals, heap, Named(c, t))
      BY <1>7, <2>1, <3>3, <3>4, MatchesName
    <3>6. After(Instruction.op, Arg, a) = Named(c, t)
      BY <1>1, <1>6, <1>10, <3>2 DEF After
    <3> QED BY <1>1, <1>8, <3>1, <3>5, <3>6 DEF Moving
  <2>8. CASE w.t = "string"
    <3>1. pc' = Arg
      BY <1>2, <2>6, <2>8
    <3>2. PICK t : t = A("string")
      OBVIOUS
    <3>3. t \in Entry /\ t.k = "string"
      BY <3>2, Entries
    <3>4. Shows(u, locals, t, c.h) /\ Owns(t, Last(u)) = Owns(TopOf(c), Last(u))
      BY <2>2, <2>4, <2>8, <3>3 DEF Shows, HasKind, Owns
    <3>5. Matches(u, locals, heap, Named(c, t))
      BY <1>7, <2>1, <3>3, <3>4, MatchesName
    <3>6. Taken(Instruction.op, a) = Named(c, t)
      BY <1>1, <1>6, <1>10, <3>2 DEF Taken
    <3> QED BY <1>1, <1>8, <3>1, <3>5, <3>6 DEF Branching, Jumps
  <2> QED BY <2>5, <2>7, <2>8
<1> QED BY <1>3, <1>9, <1>10

\* What is left when the function returns.
LEMMA ReturnMoves ==
  ASSUME NEW a, Fitting(a), Return
  PROVE  /\ heap' = RefsOf(result') /\ heap' = heap /\ locals' = locals /\ pc' = pc
         /\ phase' = "done" /\ ctx' = ctx /\ slots' = slots /\ todo' = todo /\ declared' = declared
         /\ returns' = returns /\ stmts' = stmts
<1>1. /\ a \in State /\ a.h \in Nat /\ Len(stack) = a.h /\ stack \in Seq(Values)
      /\ Typed(stack, locals, a) /\ Exact(stack, locals, heap, Own(stack, a))
  BY FrameOf DEF Fitting, Matches
<1>2. heap' = heap /\ locals' = locals /\ pc' = pc /\ phase' = "done" /\ ctx' = ctx /\ slots' = slots
      /\ todo' = todo /\ declared' = declared /\ returns' = returns /\ stmts' = stmts
  BY DEF Return
<1>3. heap = RefsOf(result')
  <2>1. CASE Instruction.op = "Return"
    <3>1. a.h = 1 /\ TopOf(a).k = "string" /\ a.held = {}
      BY <2>1 DEF Fitting, Fits
    <3>2. Top = stack[1] /\ Shows(stack, locals, TopOf(a), 1) /\ TopOf(a) = a.tag[1]
      BY <3>1, FrameOf
    <3>3. Top.t = "string"
      BY <3>1, <3>2 DEF Shows, HasKind
    <3>4. RefsOf(result') = {Top.v}
      BY <2>1, <3>3 DEF Return, RefsOf, Objects
    <3>5. Own(stack, a) = {<<"stack", 1, 0>>}
      <4>1. 1 .. a.h = {1} /\ Owns(a.tag[1], stack[1]) = "string"
        BY <3>1, <3>2 DEF Owns
      <4> QED BY <3>1, <4>1 DEF Own, Places
    <3>6. Obj(stack, locals, <<"stack", 1, 0>>) = Top.v
      BY <3>2 DEF Obj
    <3> QED BY <1>1, <3>4, <3>5, <3>6 DEF Exact
  <2>2. CASE Instruction.op # "Return"
    <3>1. Instruction.op = "ReturnVoid"
      BY <2>2 DEF Return, Is
    <3>2. a.h = 0 /\ a.held = {}
      BY <3>1 DEF Fitting, Fits
    <3>3. RefsOf(result') = {}
      BY <2>2 DEF Return, RefsOf, Nil, Value, Objects
    <3>4. Own(stack, a) = {}
      BY <3>2 DEF Own
    <3> QED BY <1>1, <3>3, <3>4 DEF Exact
  <2> QED BY <2>1, <2>2
<1> QED BY <1>2, <1>3

\* The steps of the machine.
LEMMA StepMoves ==
  ASSUME NEW a, Fitting(a), Step
  PROVE  \/ Moving(a) /\ Instruction.op \notin Stops /\ UNCHANGED evars
         \/ Branching(a) /\ UNCHANGED evars
         \/ Return
<1>1. CASE LoadLocal
  BY <1>1, LoadLocalMoves DEF LoadLocal, Is, Replace, OnlyStack, Stops
<1>2. CASE StoreLocal
  BY <1>2, StoreLocalMoves DEF StoreLocal, Is, Stops
<1>3. CASE LoadConst
  BY <1>3, LoadConstMoves DEF LoadConst, Is, Produce, Stops
<1>4. CASE PopTop
  BY <1>4, PopMoves DEF PopTop, Is, Replace, OnlyStack, Stops
<1>5. CASE Dup
  BY <1>5, DupMoves DEF Dup, Is, Replace, OnlyStack, Stops
<1>6. CASE IsNil
  BY <1>6, IsNilMoves DEF IsNil, Is, Replace, OnlyStack, Stops
<1>7. CASE Compare \/ Add
  BY <1>7, OperatorMoves DEF Compare, Add, Is, Replace, OnlyStack, Stops
<1>8. CASE TableRead
  BY <1>8, TableReadMoves DEF TableRead, Is, Replace, OnlyStack, Stops
<1>9. CASE NewFixedArray
  BY <1>9, NewFixedArrayMoves DEF NewFixedArray, Is, Replace, OnlyStack, Stops
<1>10. CASE FixedArrayGet
  BY <1>10, FixedArrayGetMoves DEF FixedArrayGet, Is, Replace, OnlyStack, Stops
<1>11. CASE Jump
  BY <1>11, JumpMoves DEF Jump
<1>12. CASE Branch
  BY <1>12, BranchMoves DEF Branch, OnlyStack, Stops
<1>13. CASE Call
  BY <1>13, CallMoves DEF Call, Is, Produce, Stops
<1>14. CASE Free
  BY <1>14, FreeMoves DEF Free, Is, Stops
<1> QED BY <1>1, <1>2, <1>3, <1>4, <1>5, <1>6, <1>7, <1>8, <1>9, <1>10, <1>11, <1>12, <1>13, <1>14 DEF Step

\* The frame is as the states "notes" of the code say, and control is at "at".
RunsBy(notes, open, heads, c, top, at, st, loc, hp) ==
  /\ DOMAIN open = {} /\ Sound(c, notes, open, heads, top) /\ notes[Here(c)] = Dead
  /\ at \in 1 .. Here(c) /\ Matches(st, loc, hp, notes[at])
RunsAt(c, top, at, st, loc, hp) ==
  \E notes, open, heads : RunsBy(notes, open, heads, c, top, at, st, loc, hp)

\* Then control is at an instruction, which may run.
LEMMA RunsFits ==
  ASSUME NEW notes, NEW open, NEW heads, NEW top,
         RunsBy(notes, open, heads, ctx, top, pc, stack, locals, heap)
  PROVE  /\ pc \in 1 .. Len(ctx.code) /\ pc \in Nat /\ Len(ctx.code) \in Nat /\ DOMAIN ctx.code = 1 .. Len(ctx.code)
         /\ Legal(ctx, notes, open, top, pc) /\ Live(notes[pc]) /\ Fitting(notes[pc])
         /\ Len(stack) = ctx.at[pc] /\ ctx.at[pc] <= ctx.max
<1>1. Balanced(ctx) /\ ctx \in Ctx
  BY DEF RunsBy, Sound, Balanced
<1>2. Len(ctx.code) \in Nat /\ DOMAIN ctx.code = 1 .. Len(ctx.code)
  BY <1>1 DEF Ctx
<1>3. Live(notes[pc]) /\ Len(stack) = notes[pc].h
  BY DEF RunsBy, Matches, Typed
<1>4. pc # Here(ctx)
  BY <1>3, DeadState DEF RunsBy
<1>5. pc \in 1 .. Len(ctx.code) /\ pc \in Nat
  BY <1>2, <1>4 DEF RunsBy, Here
<1>6. Legal(ctx, notes, open, top, pc)
  BY <1>5 DEF RunsBy, Sound
<1>7. Fitting(notes[pc])
  BY <1>3, <1>6 DEF Legal, Fitting, RunsBy, Instruction, Arg
<1>8. Len(stack) = ctx.at[pc] /\ ctx.at[pc] <= ctx.max
  BY <1>3, <1>6 DEF Legal
<1> QED BY <1>2, <1>3, <1>5, <1>6, <1>7, <1>8

\* A step leaves the frame as the code's states say.
LEMMA StepRuns ==
  ASSUME NEW top, RunsAt(ctx, top, pc, stack, locals, heap), DOMAIN locals \subseteq 1 .. top, Step, ~Return
  PROVE  /\ RunsAt(ctx, top, pc', stack', locals', heap')
         /\ UNCHANGED evars /\ DOMAIN locals' \subseteq 1 .. top
<1>1. PICK notes, open, heads : RunsBy(notes, open, heads, ctx, top, pc, stack, locals, heap)
  BY DEF RunsAt
<1>2. /\ pc \in 1 .. Len(ctx.code) /\ pc \in Nat /\ Len(ctx.code) \in Nat
      /\ Legal(ctx, notes, open, top, pc) /\ Live(notes[pc]) /\ Fitting(notes[pc])
  BY <1>1, RunsFits
<1>3. PICK a : a = notes[pc]
  OBVIOUS
<1>4. \/ Moving(a) /\ Instruction.op \notin Stops /\ UNCHANGED evars
      \/ Branching(a) /\ UNCHANGED evars
  BY <1>2, <1>3, StepMoves
<1>5. DOMAIN locals' \subseteq 1 .. top
  <2>1. CASE StoreLocal
    <3>1. Instruction.op = "StoreLocal" /\ DOMAIN locals' = DOMAIN locals \union {Arg}
      BY <2>1 DEF StoreLocal, Is
    <3>2. Arg \in 1 .. top
      BY <1>2, <3>1 DEF Legal, Instruction, Arg
    <3> QED BY <3>1, <3>2
  <2>2. CASE ~StoreLocal
    <3>1. locals' = locals
      BY <2>2 DEF Step, LoadLocal, LoadConst, PopTop, Dup, IsNil, Compare, Add, TableRead, NewFixedArray,
                  FixedArrayGet, Jump, Branch, Call, Free, Return, Replace, Produce, OnlyStack
    <3> QED BY <3>1
  <2> QED BY <2>1, <2>2
<1>6. \A i \in Nat : notes[i] \in State
  BY <1>1 DEF RunsBy, Sound
<1>7. PICK to \in 1 .. Here(ctx) : pc' = to /\ Matches(stack', locals', heap', notes[to])
  <2>1. CASE Moving(a) /\ Instruction.op \notin Stops
    <3>1. pc + 1 \in 1 .. Here(ctx) /\ pc + 1 \in Nat
      BY <1>2 DEF Here
    <3>2. Leads(After(Instruction.op, Arg, a), notes[pc + 1])
      BY <1>2, <1>3, <2>1 DEF Legal, Instruction, Arg
    <3>3. Matches(stack', locals', heap', After(Instruction.op, Arg, a)) /\ pc' = pc + 1
      BY <2>1 DEF Moving
    <3>4. Matches(stack', locals', heap', notes[pc + 1])
      BY <1>6, <3>1, <3>2, <3>3, MatchesLeads
    <3> QED BY <3>1, <3>3, <3>4
  <2>2. CASE Branching(a)
    <3>1. pc \notin DOMAIN open
      BY <1>1 DEF RunsBy
    <3>2. Arg \in 1 .. Here(ctx) /\ Leads(Taken(Instruction.op, a), notes[Arg])
      BY <1>2, <1>3, <2>2, <3>1 DEF Legal, Instruction, Arg, Branching
    <3>3. Matches(stack', locals', heap', Taken(Instruction.op, a)) /\ pc' = Arg
      BY <2>2 DEF Branching
    <3>4. Arg \in Nat
      BY <1>2, <3>2 DEF Here
    <3>5. Matches(stack', locals', heap', notes[Arg])
      BY <1>6, <3>2, <3>3, <3>4, MatchesLeads
    <3> QED BY <3>2, <3>3, <3>5
  <2> QED BY <1>4, <2>1, <2>2
<1>8. RunsBy(notes, open, heads, ctx, top, pc', stack', locals', heap')
  BY <1>1, <1>7 DEF RunsBy
<1> QED BY <1>4, <1>5, <1>8 DEF RunsAt

\* The frame of a call matches what the code starts from.
LEMMA FrameStarts ==
  ASSUME NEW loc, loc = [s \in {1} |-> Value("string", 1)]
  PROVE  Matches(<< >>, loc, {1}, Start)
<1>1. loc[1] = Value("string", 1) /\ DOMAIN loc = {1} /\ Value("string", 1) \in Values
      /\ Value("string", 1).t = "string" /\ Value("string", 1).v = 1 /\ RefsOf(Value("string", 1)) = {1}
  BY DEF Value, Values, Plain, RefsOf, Objects
<1>2. /\ Start \in State /\ Live(Start) /\ Start.h = 0 /\ Start.held = {<<1, 0>>}
      /\ \A s \in Nat : Start.env[s] = IF s = 1 THEN "string" ELSE "unset"
  BY DeadState DEF Start
<1>3. Typed(<< >>, loc, Start)
  <2>1. << >> \in Seq(Values) /\ Len(<< >>) = 0 /\ 1 .. 0 = {}
    OBVIOUS
  <2>2. loc \in [DOMAIN loc -> Values] /\ DOMAIN loc \subseteq Nat
    BY <1>1
  <2>3. \A s \in Nat : Start.env[s] # "unset" => s \in DOMAIN loc /\ HasKind(loc[s], Start.env[s])
    BY <1>1, <1>2 DEF HasKind
  <2>4. \A p \in Start.held : p[1] \in DOMAIN loc
    BY <1>1, <1>2
  <2> QED BY <1>2, <2>1, <2>2, <2>3, <2>4 DEF Typed
<1>4. Own(<< >>, Start) = {<<"slot", 1, 0>>}
  <2>1. 1 .. 0 = {}
    OBVIOUS
  <2> QED BY <1>2, <2>1 DEF Own
<1>5. Obj(<< >>, loc, <<"slot", 1, 0>>) = 1
  BY <1>1 DEF Obj
<1>6. Exact(<< >>, loc, {1}, Own(<< >>, Start))
  BY <1>4, <1>5 DEF Exact
<1>7. Bounded(<< >>, loc, {1}, 1)
  <2>1. Len(<< >>) = 0 /\ 1 .. 0 = {} /\ {1} \subseteq 1 .. 1
    OBVIOUS
  <2> QED BY <1>1, <2>1 DEF Bounded
<1> QED BY <1>3, <1>6, <1>7 DEF Matches

\* A function's code is entered with the frame of a call.
LEMMA EntryRuns ==
  ASSUME NEW c, NEW top, Compiled(c, top), NEW loc, loc = [s \in {1} |-> Value("string", 1)]
  PROVE  RunsAt(c, top, 1, << >>, loc, {1})
<1>1. PICK open, heads : DOMAIN open = {} /\ <<1, Start>> \in heads /\ Ends(c, Dead, open, heads, top)
  BY DEF Compiled
<1>2. PICK notes : Sound(c, notes, open, heads, top) /\ notes[Here(c)] = Dead
  BY <1>1 DEF Ends
<1>3. 1 \in 1 .. Here(c) /\ Leads(Start, notes[1])
  <2>1. PICK e : e = <<1, Start>>
    OBVIOUS
  <2>2. e \in (1 .. Here(c)) \X State /\ Leads(e[2], notes[e[1]])
    BY <1>1, <1>2, <2>1 DEF Sound
  <2> QED BY <2>1, <2>2
<1>4. notes[1] \in State
  BY <1>2 DEF Sound
<1>5. Matches(<< >>, loc, {1}, notes[1])
  BY <1>3, <1>4, FrameStarts, MatchesLeads
<1> QED BY <1>1, <1>2, <1>3, <1>5 DEF RunsAt, RunsBy

(* The invariant of an execution: while the body is emitted, the frame is  *)
(* the one of a call; then it is as the states of the code say; and when   *)
(* the function has returned, only what it returns is allocated.           *)
Called == /\ pc = 1 /\ stack = << >> /\ heap = {1} /\ result = Nil
           /\ locals = [s \in {1} |-> Value("string", 1)]
Finished == /\ declared = << >> /\ SlotsOK(slots) /\ Compiled(ctx, Len(slots.types))
            /\ DOMAIN locals \subseteq 1 .. Len(slots.types) /\ pc \in Nat /\ heap \subseteq Nat \ {0}
Counted == returns \in {"void", "string"} /\ stmts \in 0 .. MaxStmts
ExecutionInv ==
  /\ Counted
  /\ \/ phase = "emit" /\ Compiling /\ Called
     \/ phase = "run" /\ Finished /\ RunsAt(ctx, Len(slots.types), pc, stack, locals, heap)
     \/ phase = "done" /\ Finished /\ heap = RefsOf(result)

\* Where the machine runs, its addresses and its place are numbers.
LEMMA RunsTyped ==
  ASSUME NEW c, NEW top, NEW at, NEW st, NEW loc, NEW hp, RunsAt(c, top, at, st, loc, hp)
  PROVE  at \in Nat /\ hp \subseteq Nat \ {0}
<1>1. PICK notes, open, heads : RunsBy(notes, open, heads, c, top, at, st, loc, hp)
  BY DEF RunsAt
<1>2. at \in Nat
  <2>1. Len(c.code) \in Nat
    BY <1>1 DEF RunsBy, Sound, Balanced, Ctx
  <2> QED BY <1>1, <2>1 DEF RunsBy, Here
<1>3. hp \subseteq Nat \ {0}
  BY <1>1 DEF RunsBy, Matches, Bounded
<1> QED BY <1>2, <1>3

\* It holds at the start.
LEMMA ExecutionStarts ==
  ASSUME ExecutionInit
  PROVE  ExecutionInv
<1>1. Compiling /\ phase = "emit"
  BY StartCompiles DEF ExecutionInit, Compiling
<1>2. Counted
  BY BoundAssumption DEF ExecutionInit, Init, Counted
<1>3. Called
  BY DEF ExecutionInit, Called
<1> QED BY <1>1, <1>2, <1>3 DEF ExecutionInv

\* The steps of the compiler keep it.
LEMMA EmittingKeeps ==
  ASSUME Gaps = {}, ExecutionInv, Next, UNCHANGED xvars
  PROVE  ExecutionInv'
<1>1. phase = "emit" /\ Compiling /\ Called
  BY NextCounts DEF ExecutionInv
<1>2. Counted'
  <2>1. returns \in {"void", "string"} /\ stmts \in 0 .. MaxStmts
    BY DEF ExecutionInv, Counted
  <2>2. returns' = returns /\ (stmts' = stmts \/ (stmts < MaxStmts /\ stmts' = stmts + 1))
    BY NextCounts
  <2> QED BY <2>1, <2>2, BoundAssumption DEF Counted
<1>3. Called'
  BY <1>1 DEF Called, xvars
<1>4. CASE ~EndBody
  <2>1. Compiling'
    BY <1>1, <1>4, NextCompiles
  <2>2. phase' = "emit"
    BY <2>1 DEF Compiling
  <2> QED BY <1>2, <1>3, <2>1, <2>2 DEF ExecutionInv
<1>5. CASE EndBody
  <2>1. phase' = "run" /\ declared' = << >> /\ SlotsOK(slots') /\ Compiled(ctx', Len(slots'.types))
    BY <1>1, <1>5, EndBodyCompiles
  <2>2. PICK c, top, loc : c = ctx' /\ top = Len(slots'.types) /\ loc = locals'
    OBVIOUS
  <2>3. loc = [s \in {1} |-> Value("string", 1)] /\ pc' = 1 /\ stack' = << >> /\ heap' = {1}
    BY <1>3, <2>2 DEF Called
  <2>4. RunsAt(c, top, 1, << >>, loc, {1})
    BY <2>1, <2>2, <2>3, EntryRuns
  <2>5. RunsAt(ctx, Len(slots.types), pc, stack, locals, heap)'
    BY <2>2, <2>3, <2>4
  <2>6. DOMAIN locals' \subseteq 1 .. Len(slots'.types)
    BY <2>1, <2>2, <2>3 DEF SlotsOK
  <2>7. Finished'
    BY <2>1, <2>3, <2>6 DEF Finished
  <2> QED BY <1>2, <2>1, <2>5, <2>7 DEF ExecutionInv
<1> QED BY <1>4, <1>5

\* The steps of the machine keep it.
LEMMA RunningKeeps ==
  ASSUME ExecutionInv, Step
  PROVE  ExecutionInv'
<1>1. phase = "run"
  BY DEF Step, LoadLocal, StoreLocal, LoadConst, PopTop, Dup, IsNil, Compare, Add, TableRead, NewFixedArray,
         FixedArrayGet, Jump, Branch, Call, Free, Return, Is, Running
<1>2. PICK top : top = Len(slots.types)
  OBVIOUS
<1>3. Counted /\ Finished /\ RunsAt(ctx, top, pc, stack, locals, heap)
  BY <1>1, <1>2 DEF ExecutionInv
<1>4. CASE ~Return
  <2>1. /\ RunsAt(ctx, top, pc', stack', locals', heap')
        /\ UNCHANGED evars /\ DOMAIN locals' \subseteq 1 .. top
    BY <1>2, <1>3, <1>4, StepRuns DEF Finished
  <2>2. pc' \in Nat /\ heap' \subseteq Nat \ {0}
    BY <2>1, RunsTyped
  <2>3. /\ phase' = phase /\ returns' = returns /\ stmts' = stmts /\ declared' = declared
        /\ slots' = slots /\ ctx' = ctx
    BY <2>1 DEF evars
  <2>4. Counted' /\ Finished'
    BY <1>2, <1>3, <2>1, <2>2, <2>3 DEF Counted, Finished
  <2>5. RunsAt(ctx, Len(slots.types), pc, stack, locals, heap)'
    BY <1>2, <2>1, <2>3
  <2> QED BY <1>1, <2>3, <2>4, <2>5 DEF ExecutionInv
<1>5. CASE Return
  <2>1. PICK notes, open, heads : RunsBy(notes, open, heads, ctx, top, pc, stack, locals, heap)
    BY <1>3 DEF RunsAt
  <2>2. Fitting(notes[pc])
    BY <2>1, RunsFits
  <2>3. /\ heap' = RefsOf(result') /\ heap' = heap /\ locals' = locals /\ pc' = pc
        /\ phase' = "done" /\ ctx' = ctx /\ slots' = slots /\ declared' = declared
        /\ returns' = returns /\ stmts' = stmts
    BY <1>5, <2>2, ReturnMoves
  <2>4. Counted' /\ Finished'
    BY <1>3, <2>3 DEF Counted, Finished
  <2> QED BY <2>3, <2>4 DEF ExecutionInv
<1> QED BY <1>4, <1>5

\* Every step keeps it.
LEMMA ExecutionKeeps ==
  ASSUME Gaps = {}, ExecutionInv, [ExecutionNext]_<<evars, xvars>>
  PROVE  ExecutionInv'
<1>1. CASE Next /\ UNCHANGED xvars
  BY <1>1, EmittingKeeps
<1>2. CASE Step
  BY <1>2, RunningKeeps
<1>3. CASE UNCHANGED <<evars, xvars>>
  <2>1. /\ phase' = phase /\ returns' = returns /\ ctx' = ctx /\ slots' = slots /\ loops' = loops
        /\ todo' = todo /\ declared' = declared /\ stmts' = stmts /\ pc' = pc /\ stack' = stack
        /\ locals' = locals /\ heap' = heap /\ result' = result
    BY <1>3 DEF evars, xvars
  <2>2. Counted' <=> Counted
    BY <2>1 DEF Counted
  <2>3. Compiling' <=> Compiling
    BY <2>1 DEF Compiling
  <2>4. (Called' <=> Called) /\ (Finished' <=> Finished)
    BY <2>1 DEF Called, Finished
  <2> QED BY <2>1, <2>2, <2>3, <2>4 DEF ExecutionInv
<1> QED BY <1>1, <1>2, <1>3 DEF ExecutionNext, Returned

\* What a body's slots are, while it is emitted and afterwards.
LEMMA SlotsKnown ==
  ASSUME ExecutionInv
  PROVE  /\ SlotsOK(slots) /\ DeclaredOK(slots, declared)
         /\ ctx \in Ctx /\ Len(ctx.at) = Len(ctx.code)
         /\ DOMAIN locals \subseteq 1 .. Len(slots.types) /\ pc \in Nat /\ heap \subseteq Nat \ {0}
<1>1. CASE phase = "emit"
  <2>1. PICK g, lvl, heads : Emits(ctx, slots, loops, todo, declared, g, lvl, heads)
    BY <1>1 DEF ExecutionInv, Compiling, Emitting
  <2>2. SlotsOK(slots) /\ DeclaredOK(slots, declared)
    BY <2>1 DEF Emits, Nest
  <2>3. ctx \in Ctx /\ Len(ctx.at) = Len(ctx.code)
    BY <2>1, EndsOk DEF Emits
  <2>4. pc = 1 /\ heap = {1} /\ DOMAIN locals = {1}
    BY <1>1 DEF ExecutionInv, Called
  <2>5. Len(slots.types) \in Nat /\ Len(slots.types) >= 1
    BY <2>2 DEF SlotsOK
  <2>6. {1} \subseteq 1 .. Len(slots.types)
    BY <2>5
  <2> QED BY <2>2, <2>3, <2>4, <2>6
<1>2. CASE phase # "emit"
  <2>1. Finished
    BY <1>2 DEF ExecutionInv
  <2>2. DeclaredOK(slots, declared)
    <3>1. declared = << >>
      BY <2>1 DEF Finished
    <3>2. << >> \in Seq([Names -> Nat]) /\ Len(<< >>) = 0 /\ 1 .. 0 = {}
      OBVIOUS
    <3> QED BY <3>1, <3>2 DEF DeclaredOK
  <2>3. ctx \in Ctx /\ Len(ctx.at) = Len(ctx.code)
    BY <2>1, EndsOk DEF Finished, Compiled
  <2> QED BY <2>1, <2>2, <2>3 DEF Finished
<1> QED BY <1>1, <1>2

\* The types of the state.
LEMMA TypeFromInv == ASSUME ExecutionInv PROVE ExecutionTypeOK
<1>1. /\ SlotsOK(slots) /\ ctx \in Ctx /\ Len(ctx.at) = Len(ctx.code)
      /\ DOMAIN locals \subseteq 1 .. Len(slots.types) /\ pc \in Nat /\ heap \subseteq Nat \ {0}
  BY SlotsKnown
<1>2. phase \in {"emit", "abort", "run", "done"}
  BY DEF ExecutionInv
<1>3. DOMAIN ctx.code = DOMAIN ctx.at /\ ctx.depth \in Int /\ ctx.max \in Nat
  BY <1>1 DEF Ctx
<1>4. slots.types \in Seq(SlotTypes) /\ DOMAIN slots.types = 1 .. Len(slots.types)
  BY <1>1 DEF SlotsOK
<1>5. \A n \in Names : slots.of[n] \in {NoSlot} \cup DOMAIN slots.types
  <2>1. Len(slots.types) \in Nat /\ \A k \in 0 .. Len(slots.types) : k = 0 \/ k \in 1 .. Len(slots.types)
    BY <1>4
  <2> QED BY <1>1, <1>4, <2>1 DEF SlotsOK, NoSlot
<1>6. \A i \in DOMAIN slots.types : slots.types[i] \in Types
  <2>1. \A i \in DOMAIN slots.types : slots.types[i] \in SlotTypes
    BY <1>4, ElementOfSeq
  <2> QED BY <2>1 DEF SlotTypes, Types
<1>7. TypeOK
  BY <1>2, <1>3, <1>5, <1>6 DEF TypeOK, ExecutionInv, Counted
<1> QED BY <1>1, <1>4, <1>7 DEF ExecutionTypeOK

\* A slot is the declaration's, and it is read after it has been stored to.
LEMMA SlotsFromInv == ASSUME ExecutionInv PROVE SlotsSound
<1>1. ExecutionTypeOK
  BY TypeFromInv
<1>2. BindsDeclared
  <2> SUFFICES ASSUME NEW n \in Names, Resolve(n) # NoSlot
               PROVE  slots.of[n] = Resolve(n)
    BY DEF BindsDeclared
  <2>1. DeclaredOK(slots, declared)
    BY SlotsKnown
  <2>2. PICK i \in 1 .. Len(declared) : declared[i][n] = Resolve(n)
    BY <2>1, Resolving DEF NoSlot
  <2> QED BY <2>1, <2>2 DEF DeclaredOK, NoSlot
<1>3. SlotsInitialised
  <2> SUFFICES ASSUME Is({"LoadLocal"}) PROVE Arg \in DOMAIN locals
    BY DEF SlotsInitialised
  <2>1. phase = "run" /\ Instruction.op = "LoadLocal"
    BY DEF Is, Running
  <2>2. PICK notes, open, heads : RunsBy(notes, open, heads, ctx, Len(slots.types), pc, stack, locals, heap)
    BY <2>1 DEF ExecutionInv, RunsAt
  <2>3. Fitting(notes[pc])
    BY <2>2, RunsFits
  <2>4. Arg \in Nat \ {0} /\ notes[pc].env[Arg] # "unset"
    BY <2>1, <2>3 DEF Fitting, Fits
  <2> QED BY <2>3, <2>4 DEF Fitting, Matches, Typed
<1> QED BY <1>1, <1>2, <1>3 DEF SlotsSound

\* The stack is as high as the emitter believed.
LEMMA HeightsFromInv == ASSUME ExecutionInv PROVE HeightsAgree
<1> SUFFICES ASSUME phase = "run"
             PROVE  pc \in DOMAIN ctx.code /\ Len(stack) = ctx.at[pc] /\ Len(stack) <= ctx.max
  BY DEF HeightsAgree
<1>1. PICK notes, open, heads : RunsBy(notes, open, heads, ctx, Len(slots.types), pc, stack, locals, heap)
  BY DEF ExecutionInv, RunsAt
<1> QED BY <1>1, RunsFits

\* What is freed is allocated.
LEMMA FreesFromInv == ASSUME ExecutionInv PROVE FreesOnce
<1> SUFFICES ASSUME Is({"FreeString", "FreeArray", "Release"}) PROVE Top.v \in heap
  BY DEF FreesOnce
<1>1. phase = "run"
  BY DEF Is, Running
<1>2. PICK notes, open, heads : RunsBy(notes, open, heads, ctx, Len(slots.types), pc, stack, locals, heap)
  BY <1>1 DEF ExecutionInv, RunsAt
<1>3. Fitting(notes[pc])
  BY <1>2, RunsFits
<1> QED BY <1>3, FreeMoves

\* What is left is what is returned.
LEMMA LeftFromInv == ASSUME ExecutionInv PROVE NoLeak /\ ResultLive /\ NeverAborts
BY DEF ExecutionInv, NoLeak, ResultLive, NeverAborts

----------------------------------------------------------------------------
(* The theorems.                                                            *)

\* The invariant holds throughout an execution.
LEMMA ExecutionHolds == ASSUME Gaps = {} PROVE Spec => []ExecutionInv
<1>1. ExecutionInit => ExecutionInv
  BY ExecutionStarts
<1>2. ExecutionInv /\ [ExecutionNext]_<<evars, xvars>> => ExecutionInv'
  BY ExecutionKeeps
<1> QED BY <1>1, <1>2, PTL DEF Spec

\* No assertion of the compiler fails on a body that Sema accepts (emitOpcode's and
\* noteStackEffect's depths, and what finalizeProto finds), however long the body and however
\* deep its blocks: where it uses none of KnownGaps.
THEOREM CompilerNeverAborts == ASSUME Gaps = {} PROVE Spec => []NeverAborts
<1>1. ExecutionInv => NeverAborts
  BY LeftFromInv
<1> QED BY <1>1, ExecutionHolds, PTL

\* The operand stack is as high as the emitter believed wherever control gets, which
\* stays in the code, and never above FunctionProto::maxStackDepth: emitOpcode's count
\* of every path agrees, for any nesting of blocks, loops, breaks and early returns.
THEOREM StackHeightsAgree == ASSUME Gaps = {} PROVE Spec => []HeightsAgree
<1>1. ExecutionInv => HeightsAgree
  BY HeightsFromInv
<1> QED BY <1>1, ExecutionHolds, PTL

\* allocateLocal's slot of a name is that of the declaration the name resolves to, and no
\* slot is read that was not stored on every path that reaches the read.
THEOREM SlotsAlwaysSound == ASSUME Gaps = {} PROVE Spec => []SlotsSound
<1>1. ExecutionInv => SlotsSound
  BY SlotsFromInv
<1> QED BY <1>1, ExecutionHolds, PTL

\* What a drop of the emitted code releases is still allocated: no path frees an object
\* twice, though every exit of a scope emits drops of its own.
THEOREM DropsFreeOnce == ASSUME Gaps = {} PROVE Spec => []FreesOnce
<1>1. ExecutionInv => FreesOnce
  BY FreesFromInv
<1> QED BY <1>1, ExecutionHolds, PTL

\* A function returns with every object it made or was passed released, whatever path
\* it took, except the one it returns, which is still allocated.
THEOREM NothingLeaks == ASSUME Gaps = {} PROVE Spec => [](NoLeak /\ ResultLive)
<1>1. ExecutionInv => NoLeak /\ ResultLive
  BY LeftFromInv
<1> QED BY <1>1, ExecutionHolds, PTL
=============================================================================
