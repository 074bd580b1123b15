---------------------------- MODULE EmitterProofs ----------------------------
(***************************************************************************)
(* The code that the emitter makes of any body that Sema accepts is sound: *)
(* however many statements it has, and however they are nested.            *)
(*                                                                         *)
(* The code is read as a bytecode verifier reads it.  A State says what is *)
(* known of the frame where an instruction is about to run: the height of  *)
(* the stack and what each entry is, what the slots hold, and the places   *)
(* whose objects are allocated.  Code is Sound if there is a state for     *)
(* each of its instructions that fits the instruction, and from which what *)
(* it does leads to the state of the next one, or of the one it jumps to.  *)
(* A jump whose target is not known yet is "open", and a place that the    *)
(* code may come back to is one of "heads".                                *)
(*                                                                         *)
(* Three layers: each emit function extends sound code (the lemmas         *)
(* Ends...); the compiler's blocks, loops, scopes and declarations nest    *)
(* (Nest), and the innermost block's state knows what its slots hold       *)
(* (Knows); every statement keeps both (the lemmas ...Compiles), so that   *)
(* what the last of them leaves is Compiled.  This module has the          *)
(* statements and the beginnings of blocks; ExecutionProofs has their ends,*)
(* and the machine that runs the code.                                     *)
(***************************************************************************)
EXTENDS Emitter, SequenceTheorems, FiniteSetTheorems, WellFoundedInduction, TLAPS

-----------------------------------------------------------------------------
(* Induction over the numbers, with a set in the place of the predicate.   *)

\* A set of numbers that is not empty has a least one.
LEMMA Least ==
  ASSUME NEW T \in SUBSET Nat, T # {}
  PROVE  \E m \in T : \A n \in T : m <= n
<1> DEFINE R == {p \in Nat \X Nat : p[1] < p[2]}
<1>1. R = OpToRel(<, Nat)
  BY DEF OpToRel
<1>2. IsWellFoundedOn(R, Nat)
  BY <1>1, NatLessThanWellFounded
<1>3. \E x \in T : \A y \in T : ~ (<<y, x>> \in R)
  <2> HIDE DEF R
  <2> QED BY <1>2, WFMin
<1>4. PICK x \in T : \A y \in T : ~ (<<y, x>> \in R)
  BY <1>3
<1>5. ASSUME NEW y \in T PROVE x <= y
  <2>1. ~ (<<y, x>> \in R)
    BY <1>4
  <2>2. <<y, x>> \in Nat \X Nat /\ <<y, x>>[1] = y /\ <<y, x>>[2] = x
    OBVIOUS
  <2> QED BY <2>1, <2>2
<1> QED BY <1>5

\* The numbers up to m are in every set that has zero and, with a number below
\* m, the next one.
LEMMA UpTo ==
  ASSUME NEW m \in Nat, NEW S, 0 \in S, \A n \in 0 .. m - 1 : n \in S => n + 1 \in S
  PROVE  0 .. m \subseteq S
<1>1. SUFFICES ASSUME (0 .. m) \ S # {} PROVE FALSE
  OBVIOUS
<1>2. PICK n \in (0 .. m) \ S : \A k \in (0 .. m) \ S : n <= k
  <2> DEFINE T == (0 .. m) \ S
  <2>1. T \in SUBSET Nat /\ T # {}
    BY <1>1
  <2> HIDE DEF T
  <2>2. \E k \in T : \A l \in T : k <= l
    BY <2>1, Least
  <2> QED BY <2>2 DEF T
<1>3. n # 0 /\ n - 1 \in 0 .. m - 1
  BY <1>2
<1>4. n - 1 \in S
  BY <1>2, <1>3
<1> QED BY <1>2, <1>3, <1>4

-----------------------------------------------------------------------------
(* What is known of the frame where an instruction is about to run.        *)

Kinds == {"unset", "data", "string", "strs"}

\* What an entry of the operand stack is: a value that owns nothing, a string or
\* an array of strings that the entry owns, the result of a call that may be nil,
\* nil, what slot s holds, element i of it, a copy of the entry below, and
\* whether the entry below is nil.
Entry == [k : {"data", "string", "strs", "maybe", "nil", "slot", "element", "copy", "isnil"},
          s : Nat, i : Nat]

A(k) == [k |-> k, s |-> 0, i |-> 0]
SlotOf(s) == [k |-> "slot", s |-> s, i |-> 0]
ElementOf(s, i) == [k |-> "element", s |-> s, i |-> i]

\* Whether the instruction is reached, the height of the stack and its entries,
\* what the slots hold, and the places whose objects are allocated.
State == [flow : {"live", "dead"}, h : Nat, tag : [Nat -> Entry], env : [Nat -> Kinds],
          held : SUBSET (Nat \X Nat)]

Live(a) == a.flow = "live"
Push(a, t) == [a EXCEPT !.h = @ + 1, !.tag = [@ EXCEPT ![a.h + 1] = t]]
Pop(a, n) == [a EXCEPT !.h = @ - n]
TopOf(a) == a.tag[a.h]
Under(a) == a.tag[a.h - 1]
Named(a, t) == [a EXCEPT !.tag = [@ EXCEPT ![a.h] = t]]
Without(a, places) == [a EXCEPT !.held = @ \ places]

Kind(type) == IF type = "string" THEN "string" ELSE IF type = "strs" THEN "strs" ELSE "data"
Places(s, kind) ==
  IF kind = "string" THEN {<<s, 0>>}
  ELSE IF kind = "strs" THEN {s} \X (1 .. ArrayLength) ELSE {}

\* What a frees of the top entry releases, where it may.
Freed(a) ==
  IF TopOf(a).k = "string" THEN {}
  ELSE {<<TopOf(a).s, TopOf(a).i>>}

\* An instruction that may run in a.
Fits(op, arg, a) ==
  CASE op = "LoadLocal" -> arg \in Nat \ {0} /\ a.env[arg] # "unset"
    [] op = "LoadConst" -> arg \in {"string", "int", "bool"}
    [] op = "TableCount" -> TRUE
    [] op = "StoreLocal" -> /\ arg \in Nat \ {0} /\ a.h = 1
                            /\ TopOf(a).k \in {"data", "string", "strs"}
                            /\ a.held \cap ({arg} \X Nat) = {}
    [] op = "Pop" -> a.h >= 1 /\ TopOf(a).k \notin {"string", "strs", "maybe"}
    [] op = "JumpIfFalse" ->
         /\ a.h >= 1
         /\ \/ TopOf(a).k = "data"
            \/ TopOf(a).k = "isnil" /\ a.h >= 2 /\ Under(a).k = "maybe"
    [] op \in {"LoadRow", "LoadField"} -> a.h >= 1 /\ TopOf(a).k = "data"
    [] op \in {"Compare", "Add"} -> a.h >= 2 /\ TopOf(a).k = "data" /\ Under(a).k = "data"
    [] op = "IsNil" -> a.h >= 2 /\ TopOf(a).k = "copy" /\ Under(a).k = "maybe"
    [] op = "Dup" -> a.h >= 1 /\ TopOf(a).k \in {"slot", "maybe"}
    [] op = "FixedArrayGet" -> /\ a.h >= 1 /\ TopOf(a).k = "slot"
                               /\ a.env[TopOf(a).s] = "strs" /\ arg \in 1 .. ArrayLength
    [] op = "FreeString" ->
         /\ a.h >= 1
         /\ \/ TopOf(a).k = "string"
            \/ TopOf(a).k = "slot" /\ a.env[TopOf(a).s] = "string" /\ Freed(a) \subseteq a.held
            \/ /\ TopOf(a).k = "element" /\ a.env[TopOf(a).s] = "strs"
               /\ TopOf(a).i \in 1 .. ArrayLength /\ Freed(a) \subseteq a.held
    [] op = "Call" -> \/ arg = [args |-> 0, ret |-> "nullable"]
                      \/ arg = [args |-> 0, ret |-> "string"]
                      \/ arg = [args |-> 1, ret |-> "string"] /\ a.h >= 1 /\ TopOf(a).k = "string"
    [] op = "NewFixedArray" -> /\ arg = ArrayLength /\ a.h >= ArrayLength
                               /\ \A j \in a.h - ArrayLength + 1 .. a.h : a.tag[j].k = "string"
    [] op = "Return" -> a.h = 1 /\ TopOf(a).k = "string" /\ a.held = {}
    [] op = "ReturnVoid" -> a.h = 0 /\ a.held = {}
    [] op = "Jump" -> TRUE
    [] OTHER -> FALSE

\* What is known after it, where it does not jump.
After(op, arg, a) ==
  CASE op = "LoadLocal" -> Push(a, IF a.env[arg] = "data" THEN A("data") ELSE SlotOf(arg))
    [] op = "LoadConst" -> Push(a, IF arg = "string" THEN A("string") ELSE A("data"))
    [] op = "TableCount" -> Push(a, A("data"))
    [] op = "StoreLocal" -> [Pop(a, 1) EXCEPT !.env = [@ EXCEPT ![arg] = TopOf(a).k],
                                              !.held = @ \union Places(arg, TopOf(a).k)]
    [] op = "Pop" -> Pop(a, 1)
    [] op = "JumpIfFalse" -> IF TopOf(a).k = "isnil" THEN Named(Pop(a, 1), A("nil")) ELSE Pop(a, 1)
    [] op \in {"LoadRow", "LoadField"} -> a
    [] op \in {"Compare", "Add"} -> Pop(a, 1)
    [] op = "IsNil" -> Named(a, A("isnil"))
    [] op = "Dup" -> Push(a, IF TopOf(a).k = "maybe" THEN A("copy") ELSE TopOf(a))
    [] op = "FixedArrayGet" -> Named(a, ElementOf(TopOf(a).s, arg))
    [] op = "FreeString" -> Without(Pop(a, 1), Freed(a))
    [] op = "Call" -> Push(Pop(a, arg.args), A(IF arg.ret = "nullable" THEN "maybe" ELSE "string"))
    [] op = "NewFixedArray" -> Push(Pop(a, ArrayLength), A("strs"))

\* And where it does.
Taken(op, a) ==
  CASE op = "Jump" -> a
    [] op = "JumpIfFalse" -> IF TopOf(a).k = "isnil" THEN Named(Pop(a, 1), A("string")) ELSE Pop(a, 1)

Jumps == {"Jump", "JumpIfFalse"}
Stops == {"Jump", "Return", "ReturnVoid"}

\* What is known may be forgotten, except of what is allocated.
Leads(a, b) ==
  Live(a) =>
    /\ Live(b) /\ b.h = a.h /\ b.held = a.held
    /\ \A j \in 1 .. a.h : b.tag[j] = a.tag[j]
    /\ \A s \in Nat : b.env[s] # "unset" => b.env[s] = a.env[s]

Start == [flow |-> "live", h |-> 0, tag |-> [j \in Nat |-> A("data")],
          env |-> [s \in Nat |-> IF s = 1 THEN "string" ELSE "unset"], held |-> {<<1, 0>>}]

\* Whatever leads to a leads to what a leads to.
LEMMA LeadsTrans ==
  ASSUME NEW a \in State, NEW b \in State, NEW c \in State, Leads(a, b), Leads(b, c)
  PROVE  Leads(a, c)
BY DEF Leads, Live, State

\* Every state leads to itself.
LEMMA LeadsSelf == ASSUME NEW a \in State PROVE Leads(a, a)
BY DEF Leads

-----------------------------------------------------------------------------
(* Code that is known to be sound as far as it has been emitted.           *)

Ops == {"LoadLocal", "StoreLocal", "LoadConst", "TableCount", "LoadRow", "LoadField", "Pop", "Dup",
        "Compare", "Add", "IsNil", "NewFixedArray", "FixedArrayGet", "Call", "FreeString",
        "Jump", "JumpIfFalse", "Return", "ReturnVoid"}
Args == Nat \union {"string", "int", "bool"} \union [args : Nat, ret : {"string", "nullable"}]
Instr == [op : Ops, arg : Args]
Marks == {"BitCopy", "Owned", "Moved"}
Ctx == [code : Seq(Instr), at : Seq(Nat), depth : Nat, max : Nat, owned : Seq(Marks), ok : BOOLEAN]

Balanced(c) ==
  /\ c \in Ctx /\ c.ok
  /\ Len(c.at) = Len(c.code) /\ Len(c.owned) = c.depth /\ c.depth <= c.max

\* Instruction i, in the states N of the code; an instruction of "open" has no target yet, and
\* is to jump where "open" says.
Legal(c, notes, open, top, i) ==
  /\ c.at[i] = notes[i].h /\ c.at[i] <= c.max
  /\ c.code[i].op = "StoreLocal" => c.code[i].arg \in 1 .. top
  /\ Live(notes[i]) =>
       /\ Fits(c.code[i].op, c.code[i].arg, notes[i])
       /\ c.code[i].op \notin Stops =>
            Leads(After(c.code[i].op, c.code[i].arg, notes[i]), notes[i + 1])
       /\ c.code[i].op \in Jumps =>
            IF i \in DOMAIN open THEN Leads(Taken(c.code[i].op, notes[i]), open[i])
            ELSE /\ c.code[i].arg \in 1 .. Here(c)
                 /\ Leads(Taken(c.code[i].op, notes[i]), notes[c.code[i].arg])

Sound(c, notes, open, heads, top) ==
  /\ Balanced(c) /\ top \in Nat
  /\ notes \in [Nat -> State]
  /\ notes[Here(c)].h = c.depth
  /\ DOMAIN open \subseteq 1 .. Len(c.code)
  /\ \A p \in DOMAIN open : open[p] \in State /\ c.code[p].op \in Jumps
  /\ \A i \in 1 .. Len(c.code) : Legal(c, notes, open, top, i)
  /\ \A e \in heads : e \in (1 .. Here(c)) \X State /\ Leads(e[2], notes[e[1]])

\* The code so far ends in the state a.
Ends(c, a, open, heads, top) ==
  \E notes : Sound(c, notes, open, heads, top) /\ notes[Here(c)] = a

\* emitOpcode with an effect.
Noted(c, op, arg, pops, pushes) ==
  NoteStackEffect([c EXCEPT !.code = Append(@, [op |-> op, arg |-> arg]),
                            !.at   = Append(@, c.depth)], pops, pushes)

\* A function on 1..n is a sequence of length n.
LEMMA IsSeq ==
  ASSUME NEW S, NEW n \in Nat, NEW f \in [1 .. n -> S]
  PROVE  f \in Seq(S) /\ Len(f) = n
<1>1. f \in Seq(S)
  BY SeqDef
<1>2. Len(f) \in Nat /\ 1 .. Len(f) = 1 .. n
  BY <1>1, LenProperties
<1>3. Len(f) = n
  BY <1>2
<1> QED BY <1>1, <1>3

\* The entries an effect pushes.
LEMMA Copies ==
  ASSUME NEW n \in Nat
  PROVE  [i \in 1 .. n |-> "BitCopy"] \in Seq(Marks) /\ Len([i \in 1 .. n |-> "BitCopy"]) = n
<1> DEFINE f == [i \in 1 .. n |-> "BitCopy"]
<1>1. f \in [1 .. n -> Marks]
  BY DEF Marks
<1> HIDE DEF f
<1>2. f \in Seq(Marks) /\ Len(f) = n
  BY <1>1, IsSeq
<1> QED BY <1>2 DEF f

Extended(c, d, op, arg, pops, pushes) ==
  /\ Balanced(d) /\ Here(d) = Here(c) + 1 /\ Here(c) \in Nat \ {0}
  /\ d.depth = c.depth - pops + pushes /\ c.max <= d.max
  /\ Len(d.code) = Here(c) /\ Len(c.code) = Here(c) - 1
  /\ \A i \in 1 .. Len(c.code) : d.code[i] = c.code[i] /\ d.at[i] = c.at[i]
  /\ d.code[Here(c)] = [op |-> op, arg |-> arg] /\ d.at[Here(c)] = c.depth

\* One more instruction, and its effect.
LEMMA NotedBalanced ==
  ASSUME NEW c, Balanced(c), NEW op \in Ops, NEW arg \in Args, NEW pops \in Nat, NEW pushes \in Nat,
         pops <= c.depth
  PROVE  Extended(c, Noted(c, op, arg, pops, pushes), op, arg, pops, pushes)
<1> DEFINE w == [c EXCEPT !.code = Append(@, [op |-> op, arg |-> arg]), !.at = Append(@, c.depth)]
           d == Noted(c, op, arg, pops, pushes)
<1>1. c \in Ctx /\ c.ok /\ Len(c.at) = Len(c.code) /\ Len(c.owned) = c.depth /\ c.depth <= c.max
  BY DEF Balanced
<1>2. c.code \in Seq(Instr) /\ c.at \in Seq(Nat) /\ c.depth \in Nat /\ c.max \in Nat /\ c.owned \in Seq(Marks)
  BY <1>1 DEF Ctx
<1>3. [op |-> op, arg |-> arg] \in Instr
  BY DEF Instr
<1>4. /\ w.code = Append(c.code, [op |-> op, arg |-> arg]) /\ w.at = Append(c.at, c.depth)
      /\ w.depth = c.depth /\ w.max = c.max /\ w.owned = c.owned /\ w.ok = c.ok
  BY <1>1 DEF Ctx
<1>5. w.code \in Seq(Instr) /\ w.at \in Seq(Nat) /\ Len(w.code) = Len(c.code) + 1 /\ Len(w.at) = Len(c.at) + 1
  BY <1>2, <1>3, <1>4
<1>6. w \in Ctx
  BY <1>1, <1>2, <1>4, <1>5 DEF Ctx
<1> DEFINE kept == IF pops <= Len(w.owned) THEN Len(w.owned) - pops ELSE 0
           own == SubSeq(w.owned, 1, kept) \o [i \in 1 .. pushes |-> "BitCopy"]
           depth == w.depth - pops + pushes
<1>7. d = [w EXCEPT !.depth = depth, !.owned = own,
                    !.max = IF depth > @ THEN depth ELSE @,
                    !.ok = @ /\ depth >= 0 /\ pops <= Len(w.owned)]
  BY DEF Noted, NoteStackEffect
<1>8. kept = c.depth - pops /\ kept \in Nat /\ kept <= Len(c.owned)
  BY <1>1, <1>2, <1>4
<1>9. own \in Seq(Marks) /\ Len(own) = c.depth - pops + pushes
  <2>1. SubSeq(w.owned, 1, kept) \in Seq(Marks) /\ Len(SubSeq(w.owned, 1, kept)) = kept
    <3> HIDE DEF kept
    <3> QED BY <1>2, <1>4, <1>8
  <2>2. [i \in 1 .. pushes |-> "BitCopy"] \in Seq(Marks) /\ Len([i \in 1 .. pushes |-> "BitCopy"]) = pushes
    BY Copies
  <2> HIDE DEF kept
  <2> QED BY <2>1, <2>2, <1>8, ConcatProperties
<1>10. depth = c.depth - pops + pushes /\ depth \in Nat /\ pops <= Len(w.owned)
  BY <1>1, <1>2, <1>4
<1> HIDE DEF own, kept, depth, w
<1>11. /\ d.code = w.code /\ d.at = w.at /\ d.depth = depth /\ d.owned = own
       /\ d.max = (IF depth > w.max THEN depth ELSE w.max)
       /\ d.ok = (w.ok /\ depth >= 0 /\ pops <= Len(w.owned))
  BY <1>6, <1>7 DEF Ctx
<1>12. d.ok = TRUE
  <2>1. w.ok /\ depth >= 0 /\ pops <= Len(w.owned)
    BY <1>1, <1>4, <1>10
  <2> QED BY <2>1, <1>11
<1>13. d \in Ctx
  <2>1. d.max \in Nat
    BY <1>11, <1>10, <1>2, <1>4
  <2> HIDE DEF d
  <2>2. d.code \in Seq(Instr) /\ d.at \in Seq(Nat) /\ d.depth \in Nat /\ d.owned \in Seq(Marks) /\ d.ok \in BOOLEAN
    BY <1>5, <1>9, <1>10, <1>11, <1>12
  <2>3. d = [code |-> d.code, at |-> d.at, depth |-> d.depth, max |-> d.max, owned |-> d.owned, ok |-> d.ok]
    BY <1>6, <1>7 DEF Ctx
  <2> QED BY <2>1, <2>2, <2>3 DEF Ctx
<1>14. Balanced(d)
  <2> HIDE DEF d
  <2>1. d.depth <= d.max
    BY <1>2, <1>4, <1>10, <1>11
  <2>2. Len(d.owned) = d.depth /\ Len(d.at) = Len(d.code)
    BY <1>1, <1>5, <1>9, <1>10, <1>11
  <2> QED BY <2>1, <2>2, <1>12, <1>13 DEF Balanced
<1>15. Here(c) \in Nat \ {0} /\ Len(c.code) = Here(c) - 1 /\ Here(d) = Here(c) + 1 /\ Len(d.code) = Here(c)
  <2> HIDE DEF d
  <2>1. Len(c.code) \in Nat /\ Len(d.code) = Len(c.code) + 1
    BY <1>2, <1>5, <1>11
  <2> QED BY <2>1 DEF Here
<1>16. c.max <= d.max /\ d.depth = c.depth - pops + pushes
  <2> HIDE DEF d
  <2> QED BY <1>2, <1>4, <1>10, <1>11
<1>17. /\ \A i \in 1 .. Len(c.code) : d.code[i] = c.code[i] /\ d.at[i] = c.at[i]
       /\ d.code[Here(c)] = [op |-> op, arg |-> arg] /\ d.at[Here(c)] = c.depth
  <2> HIDE DEF d
  <2>1. /\ \A i \in 1 .. Len(c.code) : w.code[i] = c.code[i] /\ w.at[i] = c.at[i]
        /\ w.code[Len(c.code) + 1] = [op |-> op, arg |-> arg] /\ w.at[Len(c.code) + 1] = c.depth
    BY <1>1, <1>2, <1>3, <1>4
  <2> QED BY <2>1, <1>11 DEF Here
<1> QED BY <1>14, <1>15, <1>16, <1>17 DEF Extended

\* The next instruction, which may be a jump.
LEMMA SoundNext ==
  ASSUME NEW c, NEW notes, NEW open, NEW heads, NEW top, Sound(c, notes, open, heads, top),
         NEW op \in Ops, NEW arg \in Args, NEW pops \in Nat, NEW pushes \in Nat,
         NEW a, a = notes[Here(c)], pops <= a.h, NEW b \in State, b.h = a.h - pops + pushes,
         NEW open2, DOMAIN open \subseteq DOMAIN open2, DOMAIN open2 \subseteq DOMAIN open \union {Here(c)},
         \A p \in DOMAIN open : open2[p] = open[p],
         Here(c) \in DOMAIN open2 => op \in Jumps /\ open2[Here(c)] \in State,
         op = "StoreLocal" => arg \in 1 .. top,
         Live(a) => /\ Fits(op, arg, a)
                    /\ op \notin Stops => Leads(After(op, arg, a), b)
                    /\ op \in Jumps =>
                         IF Here(c) \in DOMAIN open2 THEN Leads(Taken(op, a), open2[Here(c)])
                         ELSE arg \in 1 .. Here(c) /\ Leads(Taken(op, a), notes[arg])
  PROVE  Ends(Noted(c, op, arg, pops, pushes), b, open2, heads, top)
<1> DEFINE d == Noted(c, op, arg, pops, pushes)
           h == Here(c)
           notes2 == [notes EXCEPT ![h + 1] = b]
<1>1. /\ Balanced(c) /\ top \in Nat
      /\ notes \in [Nat -> State]
      /\ notes[Here(c)].h = c.depth
      /\ DOMAIN open \subseteq 1 .. Len(c.code)
      /\ \A p \in DOMAIN open : open[p] \in State /\ c.code[p].op \in Jumps
      /\ \A i \in 1 .. Len(c.code) : Legal(c, notes, open, top, i)
      /\ \A e \in heads : e \in (1 .. Here(c)) \X State /\ Leads(e[2], notes[e[1]])
  BY DEF Sound
<1>2. /\ Balanced(d) /\ Here(d) = h + 1 /\ h \in Nat \ {0}
      /\ d.depth = c.depth - pops + pushes /\ c.max <= d.max
      /\ Len(d.code) = h /\ Len(c.code) = h - 1
      /\ \A i \in 1 .. Len(c.code) : d.code[i] = c.code[i] /\ d.at[i] = c.at[i]
      /\ d.code[h] = [op |-> op, arg |-> arg] /\ d.at[h] = c.depth
  <2>1. pops <= c.depth
    BY <1>1
  <2>2. Extended(c, d, op, arg, pops, pushes)
    BY <1>1, <2>1, NotedBalanced
  <2> HIDE DEF d
  <2> QED BY <2>2 DEF Extended
<1>3. c.max \in Nat /\ c.depth \in Nat /\ c.depth <= c.max /\ d.max \in Nat /\ d.depth \in Nat
  BY <1>1, <1>2 DEF Balanced, Ctx
<1>4. \A i \in 1 .. h - 1 : c.at[i] \in Nat
  <2>1. c.at \in Seq(Nat) /\ Len(c.at) = h - 1
    BY <1>1, <1>2 DEF Balanced, Ctx
  <2> QED BY <2>1
<1> HIDE DEF d, h
<1>5. notes2 \in [Nat -> State] /\ notes2[h + 1] = b /\ \A i \in 1 .. h : notes2[i] = notes[i]
  BY <1>1, <1>2
<1> HIDE DEF notes2
<1>6. ASSUME NEW i \in 1 .. h - 1 PROVE Legal(d, notes2, open2, top, i)
  <2>1. Legal(c, notes, open, top, i)
    BY <1>1, <1>2
  <2>2. d.code[i] = c.code[i] /\ d.at[i] = c.at[i] /\ notes2[i] = notes[i] /\ notes2[i + 1] = notes[i + 1]
    <3>1. i \in 1 .. h /\ i + 1 \in 1 .. h /\ i \in 1 .. Len(c.code)
      BY <1>2
    <3> QED BY <3>1, <1>2, <1>5
  <2>3. d.at[i] = notes2[i].h /\ d.at[i] <= d.max /\ (d.code[i].op = "StoreLocal" => d.code[i].arg \in 1 .. top)
    <3>1. c.at[i] = notes[i].h /\ c.at[i] <= c.max /\ (c.code[i].op = "StoreLocal" => c.code[i].arg \in 1 .. top)
      BY <2>1 DEF Legal
    <3>2. c.at[i] \in Nat /\ c.max \in Nat /\ d.max \in Nat /\ c.max <= d.max
      BY <1>2, <1>3, <1>4
    <3> QED BY <3>1, <3>2, <2>2
  <2>4. i \in DOMAIN open2 <=> i \in DOMAIN open
    BY <1>2 DEF h
  <2>5. ASSUME Live(notes2[i]) PROVE
           /\ Fits(d.code[i].op, d.code[i].arg, notes2[i])
           /\ d.code[i].op \notin Stops =>
                Leads(After(d.code[i].op, d.code[i].arg, notes2[i]), notes2[i + 1])
    BY <2>1, <2>2, <2>5 DEF Legal
  <2>6. ASSUME Live(notes2[i]), d.code[i].op \in Jumps
        PROVE IF i \in DOMAIN open2 THEN Leads(Taken(d.code[i].op, notes2[i]), open2[i])
              ELSE /\ d.code[i].arg \in 1 .. Here(d)
                   /\ Leads(Taken(d.code[i].op, notes2[i]), notes2[d.code[i].arg])
    <3>1. IF i \in DOMAIN open THEN Leads(Taken(c.code[i].op, notes[i]), open[i])
            ELSE /\ c.code[i].arg \in 1 .. Here(c)
                 /\ Leads(Taken(c.code[i].op, notes[i]), notes[c.code[i].arg])
      BY <2>1, <2>2, <2>6 DEF Legal
    <3>2. CASE i \in DOMAIN open
      BY <3>1, <3>2, <2>2, <2>4
    <3>3. CASE i \notin DOMAIN open
      BY <3>1, <3>3, <2>2, <2>4, <1>2, <1>5 DEF h
    <3> QED BY <3>2, <3>3
  <2> QED BY <2>3, <2>5, <2>6 DEF Legal
<1>7. Legal(d, notes2, open2, top, h)
  <2>1. d.code[h].op = op /\ d.code[h].arg = arg /\ notes2[h] = a /\ notes2[h + 1] = b
    <3>1. d.code[h].op = op /\ d.code[h].arg = arg
      BY <1>2
    <3>2. h \in 1 .. h /\ notes[h] = a
      BY <1>2 DEF h
    <3> QED BY <3>1, <3>2, <1>5
  <2>2. d.at[h] = notes2[h].h /\ d.at[h] <= d.max /\ (op = "StoreLocal" => arg \in 1 .. top)
    BY <1>1, <1>2, <1>3, <2>1 DEF h
  <2>3. ASSUME Live(a), op \in Jumps
        PROVE IF h \in DOMAIN open2 THEN Leads(Taken(op, a), open2[h])
              ELSE /\ arg \in 1 .. Here(d)
                   /\ Leads(Taken(op, a), notes2[arg])
    BY <2>3, <1>2, <1>5 DEF h
  <2>4. ASSUME Live(a) PROVE Fits(op, arg, a) /\ (op \notin Stops => Leads(After(op, arg, a), b))
    BY <2>4
  <2> QED BY <2>1, <2>2, <2>3, <2>4 DEF Legal
<1>8. \A i \in 1 .. Len(d.code) : Legal(d, notes2, open2, top, i)
  <2>1. \A i \in 1 .. Len(d.code) : i \in 1 .. h - 1 \/ i = h
    BY <1>2
  <2> QED BY <2>1, <1>6, <1>7
<1>9. notes2[Here(d)].h = d.depth /\ notes2[Here(d)] = b
  <2>1. notes2[Here(d)] = b /\ a.h = c.depth
    BY <1>1, <1>2, <1>5
  <2> QED BY <2>1, <1>2
<1>10. DOMAIN open2 \subseteq 1 .. Len(d.code)
  <2>1. DOMAIN open \subseteq 1 .. h - 1 /\ 1 .. h - 1 \subseteq 1 .. h /\ h \in 1 .. h
    BY <1>1, <1>2
  <2> QED BY <2>1, <1>2 DEF h
<1>11. ASSUME NEW p \in DOMAIN open2 PROVE open2[p] \in State /\ d.code[p].op \in Jumps
  <2>1. CASE p \in DOMAIN open
    BY <2>1, <1>1, <1>2
  <2>2. CASE p = h
    BY <2>2, <1>2 DEF h
  <2> QED BY <2>1, <2>2 DEF h
<1>12. ASSUME NEW e \in heads PROVE e \in (1 .. Here(d)) \X State /\ Leads(e[2], notes2[e[1]])
  <2>1. e \in (1 .. h) \X State /\ Leads(e[2], notes[e[1]])
    BY <1>1 DEF h
  <2>2. e[1] \in 1 .. h /\ e[2] \in State /\ e = <<e[1], e[2]>>
    BY <2>1
  <2>3. e[1] \in 1 .. Here(d) /\ notes2[e[1]] = notes[e[1]]
    BY <2>2, <1>2, <1>5
  <2> QED BY <2>1, <2>2, <2>3
<1>13. Sound(d, notes2, open2, heads, top)
  BY <1>1, <1>2, <1>5, <1>8, <1>9, <1>10, <1>11, <1>12 DEF Sound
<1> QED BY <1>9, <1>13 DEF Ends, d

\* What an emitted instruction needs, and what is known after it.
LEMMA EndsNext ==
  ASSUME NEW c, NEW a, NEW open, NEW heads, NEW top, Ends(c, a, open, heads, top),
         NEW op \in Ops \ Jumps, NEW arg \in Args, NEW pops \in Nat, NEW pushes \in Nat,
         pops <= a.h, NEW b \in State, b.h = a.h - pops + pushes,
         op = "StoreLocal" => arg \in 1 .. top,
         Live(a) => /\ Fits(op, arg, a)
                    /\ op \notin Stops => Leads(After(op, arg, a), b)
  PROVE  Ends(Noted(c, op, arg, pops, pushes), b, open, heads, top)
<1>1. PICK notes : Sound(c, notes, open, heads, top) /\ notes[Here(c)] = a
  BY DEF Ends
<1>2. Here(c) \notin DOMAIN open
  <2>1. Balanced(c) /\ DOMAIN open \subseteq 1 .. Len(c.code)
    BY <1>1 DEF Sound
  <2>2. Len(c.code) \in Nat
    BY <2>1 DEF Balanced, Ctx
  <2> QED BY <2>1, <2>2 DEF Here
<1> QED BY <1>1, <1>2, SoundNext

\* The placeholders with one more, at "at", that is to jump where "to" is known.
Opened(open, at, to) == [p \in DOMAIN open \union {at} |-> IF p = at THEN to ELSE open[p]]

\* A jump whose target is not known yet.
LEMMA EndsOpen ==
  ASSUME NEW c, NEW a, NEW open, NEW heads, NEW top, Ends(c, a, open, heads, top),
         NEW op \in Jumps, NEW pops \in Nat,
         pops <= a.h, NEW b \in State, b.h = a.h - pops, NEW to \in State,
         Live(a) => /\ Fits(op, 0, a) /\ Leads(Taken(op, a), to)
                    /\ op \notin Stops => Leads(After(op, 0, a), b)
  PROVE  Ends(Noted(c, op, 0, pops, 0), b, Opened(open, Here(c), to), heads, top)
<1> DEFINE open2 == [p \in DOMAIN open \union {Here(c)} |-> IF p = Here(c) THEN to ELSE open[p]]
<1>1. PICK notes : Sound(c, notes, open, heads, top) /\ notes[Here(c)] = a
  BY DEF Ends
<1>2. Here(c) \notin DOMAIN open
  <2>1. Balanced(c) /\ DOMAIN open \subseteq 1 .. Len(c.code)
    BY <1>1 DEF Sound
  <2>2. Len(c.code) \in Nat
    BY <2>1 DEF Balanced, Ctx
  <2> QED BY <2>1, <2>2 DEF Here
<1>3. /\ DOMAIN open2 = DOMAIN open \union {Here(c)} /\ open2[Here(c)] = to
      /\ \A p \in DOMAIN open : open2[p] = open[p]
  BY <1>2
<1>4. 0 \in Args /\ op \in Ops /\ op # "StoreLocal" /\ b.h = a.h - pops + 0
  <2>1. a.h \in Nat
    <3>1. Here(c) \in Nat /\ notes \in [Nat -> State]
      BY <1>1 DEF Sound, Balanced, Ctx, Here
    <3> QED BY <1>1, <3>1 DEF State
  <2> QED BY <2>1 DEF Args, Jumps, Ops
<1> HIDE DEF open2
<1>5. Ends(Noted(c, op, 0, pops, 0), b, open2, heads, top)
  BY <1>1, <1>3, <1>4, SoundNext
<1> QED BY <1>5 DEF open2, Opened

\* A jump back to a place that is known.
LEMMA EndsBack ==
  ASSUME NEW c, NEW a \in State, NEW open, NEW heads, NEW top, Ends(c, a, open, heads, top),
         NEW e \in heads, Leads(a, e[2]), NEW b \in State, b.h = a.h
  PROVE  Ends(Noted(c, "Jump", e[1], 0, 0), b, open, heads, top)
<1>1. PICK notes : Sound(c, notes, open, heads, top) /\ notes[Here(c)] = a
  BY DEF Ends
<1>2. Here(c) \notin DOMAIN open
  <2>1. Balanced(c) /\ DOMAIN open \subseteq 1 .. Len(c.code)
    BY <1>1 DEF Sound
  <2>2. Len(c.code) \in Nat
    BY <2>1 DEF Balanced, Ctx
  <2> QED BY <2>1, <2>2 DEF Here
<1>3. e \in (1 .. Here(c)) \X State /\ Leads(e[2], notes[e[1]]) /\ notes \in [Nat -> State] /\ Balanced(c)
  BY <1>1 DEF Sound
<1>4. e[1] \in 1 .. Here(c) /\ e[2] \in State /\ Here(c) \in Nat
  BY <1>3 DEF Here, Balanced, Ctx
<1>5. Leads(a, notes[e[1]])
  BY <1>3, <1>4, LeadsTrans
<1>6. e[1] \in Args /\ 0 <= a.h /\ b.h = a.h - 0 + 0 /\ "Jump" \in Ops
  BY <1>4 DEF Args, Ops, State
<1>7. Fits("Jump", e[1], a) /\ Taken("Jump", a) = a /\ "Jump" \in Stops
  BY DEF Fits, Taken, Stops
<1> QED BY <1>1, <1>2, <1>4, <1>5, <1>6, <1>7, SoundNext

\* What is known may be forgotten, and the states that are never reached are all one.
LEMMA EndsLess ==
  ASSUME NEW c, NEW a, NEW open, NEW heads, NEW top, Ends(c, a, open, heads, top),
         NEW b \in State, b.h = a.h, Leads(a, b)
  PROVE  Ends(c, b, open, heads, top)
<1>1. PICK notes : Sound(c, notes, open, heads, top) /\ notes[Here(c)] = a
  BY DEF Ends
<1>2. /\ Balanced(c) /\ top \in Nat
      /\ notes \in [Nat -> State]
      /\ notes[Here(c)].h = c.depth
      /\ DOMAIN open \subseteq 1 .. Len(c.code)
      /\ \A p \in DOMAIN open : open[p] \in State /\ c.code[p].op \in Jumps
      /\ \A i \in 1 .. Len(c.code) : Legal(c, notes, open, top, i)
      /\ \A e \in heads : e \in (1 .. Here(c)) \X State /\ Leads(e[2], notes[e[1]])
  BY <1>1 DEF Sound
<1> DEFINE h == Here(c)
           notes2 == [notes EXCEPT ![h] = b]
<1>3. h \in Nat \ {0} /\ Len(c.code) = h - 1 /\ c.code \in Seq(Instr)
  BY <1>2 DEF Balanced, Ctx, Here
<1>4. notes[h] = a /\ a \in State
  BY <1>1, <1>2, <1>3
<1> HIDE DEF h
<1>5. notes2 \in [Nat -> State] /\ notes2[h] = b /\ \A i \in Nat : i # h => notes2[i] = notes[i]
  BY <1>2, <1>3
<1> HIDE DEF notes2
<1>6. ASSUME NEW x \in State, NEW i \in Nat, Leads(x, notes[i]) PROVE Leads(x, notes2[i])
  <2>1. CASE i = h
    BY <2>1, <1>4, <1>5, <1>6, LeadsTrans
  <2>2. CASE i # h
    BY <2>2, <1>5, <1>6
  <2> QED BY <2>1, <2>2
<1>7. ASSUME NEW i \in 1 .. Len(c.code) PROVE Legal(c, notes2, open, top, i)
  <2>1. Legal(c, notes, open, top, i)
    BY <1>2
  <2>2. i \in Nat /\ i # h /\ i + 1 \in Nat /\ notes2[i] = notes[i]
    BY <1>3, <1>5
  <2>3. ASSUME Live(notes[i]), c.code[i].op \notin Stops
        PROVE Leads(After(c.code[i].op, c.code[i].arg, notes[i]), notes2[i + 1])
    <3> DEFINE x == After(c.code[i].op, c.code[i].arg, notes[i])
    <3>1. Leads(x, notes[i + 1])
      BY <2>1, <2>3 DEF Legal
    <3> HIDE DEF x
    <3>2. CASE i + 1 # h
      BY <3>1, <3>2, <2>2, <1>5 DEF x
    <3>3. CASE i + 1 = h
      <4>1. Leads(x, a) /\ Leads(a, b)
        BY <3>1, <3>3, <1>4
      <4>2. Leads(x, b)
        BY <4>1, <1>4 DEF Leads, Live, State
      <4> QED BY <4>2, <3>3, <1>5 DEF x
    <3> QED BY <3>2, <3>3 DEF x
  <2>4. ASSUME Live(notes[i]), c.code[i].op \in Jumps, i \notin DOMAIN open
        PROVE /\ c.code[i].arg \in 1 .. Here(c)
              /\ Leads(Taken(c.code[i].op, notes[i]), notes2[c.code[i].arg])
    <3> DEFINE x == Taken(c.code[i].op, notes[i])
               j == c.code[i].arg
    <3>1. j \in 1 .. Here(c) /\ Leads(x, notes[j])
      BY <2>1, <2>4 DEF Legal
    <3>2. j \in Nat
      BY <3>1, <1>3
    <3> HIDE DEF x, j
    <3>3. CASE j # h
      BY <3>1, <3>2, <3>3, <1>5 DEF x, j
    <3>4. CASE j = h
      <4>1. Leads(x, a) /\ Leads(a, b)
        BY <3>1, <3>4, <1>4
      <4>2. Leads(x, b)
        BY <4>1, <1>4 DEF Leads, Live, State
      <4> QED BY <4>2, <3>1, <3>4, <1>5 DEF x, j
    <3> QED BY <3>3, <3>4
  <2> QED BY <2>1, <2>2, <2>3, <2>4 DEF Legal
<1>8. ASSUME NEW e \in heads PROVE e \in (1 .. Here(c)) \X State /\ Leads(e[2], notes2[e[1]])
  <2>1. e \in (1 .. Here(c)) \X State /\ Leads(e[2], notes[e[1]])
    BY <1>2
  <2>2. e[1] \in Nat /\ e[2] \in State
    BY <2>1, <1>3
  <2> QED BY <2>1, <2>2, <1>6
<1>9. notes2[Here(c)].h = c.depth /\ notes2[Here(c)] = b
  BY <1>1, <1>2, <1>5 DEF h
<1>10. Sound(c, notes2, open, heads, top)
  BY <1>2, <1>5, <1>7, <1>8, <1>9 DEF Sound
<1> QED BY <1>9, <1>10 DEF Ends

\* Placeholders whose states lead to the state here are patched to jump here.
LEMMA EndsPatched ==
  ASSUME NEW c, NEW a, NEW open, NEW heads, NEW top, Ends(c, a, open, heads, top),
         NEW ats \in SUBSET DOMAIN open, \A p \in ats : Leads(open[p], a)
  PROVE  /\ Ends(PatchAllToHere(c, ats), a, [p \in DOMAIN open \ ats |-> open[p]], heads, top)
         /\ Here(PatchAllToHere(c, ats)) = Here(c)
<1>1. PICK notes : Sound(c, notes, open, heads, top) /\ notes[Here(c)] = a
  BY DEF Ends
<1>2. /\ Balanced(c) /\ top \in Nat
      /\ notes \in [Nat -> State]
      /\ notes[Here(c)].h = c.depth
      /\ DOMAIN open \subseteq 1 .. Len(c.code)
      /\ \A p \in DOMAIN open : open[p] \in State /\ c.code[p].op \in Jumps
      /\ \A i \in 1 .. Len(c.code) : Legal(c, notes, open, top, i)
      /\ \A e \in heads : e \in (1 .. Here(c)) \X State /\ Leads(e[2], notes[e[1]])
  BY <1>1 DEF Sound
<1> DEFINE h == Here(c)
           f == [i \in DOMAIN c.code |-> IF i \in ats THEN [c.code[i] EXCEPT !.arg = h] ELSE c.code[i]]
           d == PatchAllToHere(c, ats)
           open2 == [p \in DOMAIN open \ ats |-> open[p]]
<1>3. h \in Nat \ {0} /\ Len(c.code) = h - 1 /\ Len(c.code) \in Nat /\ c.code \in Seq(Instr) /\ c \in Ctx
  BY <1>2 DEF Balanced, Ctx, Here
<1>4. DOMAIN c.code = 1 .. Len(c.code) /\ \A i \in 1 .. Len(c.code) : c.code[i] \in Instr
  BY <1>3
<1> HIDE DEF h
<1>5. \A i \in 1 .. Len(c.code) :
        /\ f[i] \in Instr /\ f[i].op = c.code[i].op
        /\ i \notin ats => f[i].arg = c.code[i].arg
        /\ i \in ats => f[i].arg = h
  <2>1. h \in Args
    BY <1>3 DEF Args
  <2> QED BY <2>1, <1>4 DEF Instr
<1>6. f \in Seq(Instr) /\ Len(f) = Len(c.code)
  <2>1. f \in [1 .. Len(c.code) -> Instr]
    BY <1>4, <1>5
  <2> HIDE DEF f
  <2> QED BY <2>1, <1>3, IsSeq
<1>7. d = [c EXCEPT !.code = f]
  BY DEF PatchAllToHere, h
<1> HIDE DEF f
<1>8. /\ d \in Ctx /\ d.code = f /\ d.at = c.at /\ d.depth = c.depth /\ d.max = c.max
      /\ d.owned = c.owned /\ d.ok = c.ok
  BY <1>3, <1>6, <1>7 DEF Ctx
<1> HIDE DEF d
<1>9. Here(d) = h
  BY <1>6, <1>8 DEF Here, h
<1>10. Balanced(d)
  BY <1>2, <1>6, <1>8 DEF Balanced
<1>11. DOMAIN open2 = DOMAIN open \ ats /\ \A p \in DOMAIN open2 : open2[p] = open[p]
  OBVIOUS
<1> HIDE DEF open2
<1>12. ASSUME NEW i \in 1 .. Len(c.code) PROVE Legal(d, notes, open2, top, i)
  <2>1. Legal(c, notes, open, top, i)
    BY <1>2
  <2>2. d.code[i].op = c.code[i].op /\ d.at = c.at /\ d.max = c.max
    BY <1>5, <1>8
  <2>3. CASE i \in ats
    <3>1. i \in DOMAIN open /\ i \notin DOMAIN open2 /\ d.code[i].arg = h /\ c.code[i].op \in Jumps
      BY <2>3, <1>2, <1>5, <1>8, <1>11
    <3>2. h \in 1 .. Here(d) /\ notes[h] = a
      BY <1>1, <1>3, <1>9 DEF h
    <3>3. c.code[i].op # "StoreLocal" /\ notes[i] \in State
      BY <3>1, <1>2, <1>3 DEF Jumps
    <3>4. ASSUME Live(notes[i]) PROVE
             /\ Fits(c.code[i].op, h, notes[i])
             /\ c.code[i].op \notin Stops => Leads(After(c.code[i].op, h, notes[i]), notes[i + 1])
      <4>1. /\ Fits(c.code[i].op, c.code[i].arg, notes[i])
            /\ c.code[i].op \notin Stops => Leads(After(c.code[i].op, c.code[i].arg, notes[i]), notes[i + 1])
        BY <2>1, <3>4 DEF Legal
      <4>2. CASE c.code[i].op = "Jump"
        BY <4>2, <4>1 DEF Fits, Stops
      <4>3. CASE c.code[i].op = "JumpIfFalse"
        BY <4>3, <4>1 DEF Fits, After, Stops
      <4> QED BY <3>1, <4>2, <4>3 DEF Jumps
    <3>5. ASSUME Live(notes[i]) PROVE Leads(Taken(c.code[i].op, notes[i]), a)
      <4>1. Leads(Taken(c.code[i].op, notes[i]), open[i]) /\ Leads(open[i], a)
        BY <2>1, <2>3, <3>1, <3>5 DEF Legal
      <4> QED BY <4>1 DEF Leads
    <3> QED BY <2>1, <2>2, <3>1, <3>2, <3>3, <3>4, <3>5 DEF Legal
  <2>4. CASE i \notin ats
    <3>1. d.code[i].arg = c.code[i].arg
      BY <2>4, <1>5, <1>8
    <3>2. i \in DOMAIN open2 <=> i \in DOMAIN open
      BY <2>4, <1>11
    <3>3. i \in DOMAIN open => open2[i] = open[i]
      BY <3>2, <1>11
    <3> QED BY <2>1, <2>2, <3>1, <3>2, <3>3, <1>9 DEF Legal, h
  <2> QED BY <2>3, <2>4
<1>13. DOMAIN open2 \subseteq 1 .. Len(d.code) /\ \A p \in DOMAIN open2 : open2[p] \in State /\ d.code[p].op \in Jumps
  BY <1>2, <1>5, <1>6, <1>8, <1>11
<1>14. Sound(d, notes, open2, heads, top)
  BY <1>2, <1>6, <1>8, <1>9, <1>10, <1>12, <1>13 DEF Sound, h
<1> QED BY <1>1, <1>9, <1>14 DEF Ends, d, open2, h

\* A place that the code may come back to.
LEMMA EndsHead ==
  ASSUME NEW c, NEW a, NEW open, NEW heads, NEW top, Ends(c, a, open, heads, top)
  PROVE  Ends(c, a, open, heads \union {<<Here(c), a>>}, top)
<1>1. PICK notes : Sound(c, notes, open, heads, top) /\ notes[Here(c)] = a
  BY DEF Ends
<1>2. Balanced(c) /\ notes \in [Nat -> State]
  BY <1>1 DEF Sound
<1>3. Here(c) \in 1 .. Here(c) /\ a \in State
  BY <1>1, <1>2 DEF Balanced, Ctx, Here
<1>4. Leads(a, notes[Here(c)]) /\ <<Here(c), a>> \in (1 .. Here(c)) \X State
  BY <1>1, <1>3, LeadsSelf
<1>5. Sound(c, notes, open, heads \union {<<Here(c), a>>}, top)
  BY <1>1, <1>4 DEF Sound
<1> QED BY <1>1, <1>5 DEF Ends

\* The frame may have more slots than the code uses.
LEMMA EndsMore ==
  ASSUME NEW c, NEW a, NEW open, NEW heads, NEW top \in Nat, Ends(c, a, open, heads, top),
         NEW more \in Nat, top <= more
  PROVE  Ends(c, a, open, heads, more)
<1>1. PICK notes : Sound(c, notes, open, heads, top) /\ notes[Here(c)] = a
  BY DEF Ends
<1>2. ASSUME NEW i \in 1 .. Len(c.code) PROVE Legal(c, notes, open, more, i)
  BY <1>1 DEF Sound, Legal
<1>3. Sound(c, notes, open, heads, more)
  BY <1>1, <1>2 DEF Sound
<1> QED BY <1>1, <1>3 DEF Ends

\* The mark of the top entry of the ownership stack.
LEMMA EndsMarked ==
  ASSUME NEW c, NEW a, NEW open, NEW heads, NEW top, Ends(c, a, open, heads, top),
         NEW mark \in Marks, a.h >= 1
  PROVE  /\ Ends(MarkTop(c, mark), a, open, heads, top)
         /\ MarkTop(c, mark).owned # << >> /\ Last(MarkTop(c, mark).owned) = mark
         /\ Here(MarkTop(c, mark)) = Here(c)
<1>1. PICK notes : Sound(c, notes, open, heads, top) /\ notes[Here(c)] = a
  BY DEF Ends
<1>2. /\ Balanced(c) /\ top \in Nat
      /\ notes \in [Nat -> State]
      /\ notes[Here(c)].h = c.depth
      /\ DOMAIN open \subseteq 1 .. Len(c.code)
      /\ \A p \in DOMAIN open : open[p] \in State /\ c.code[p].op \in Jumps
      /\ \A i \in 1 .. Len(c.code) : Legal(c, notes, open, top, i)
      /\ \A e \in heads : e \in (1 .. Here(c)) \X State /\ Leads(e[2], notes[e[1]])
  BY <1>1 DEF Sound
<1>3. c \in Ctx /\ c.owned \in Seq(Marks) /\ Len(c.owned) >= 1 /\ Len(c.owned) \in Nat
  BY <1>1, <1>2 DEF Balanced, Ctx
<1> DEFINE d == MarkTop(c, mark)
           own == [c.owned EXCEPT ![Len(c.owned)] = mark]
<1>4. c.owned # << >>
  BY <1>3
<1>5. d = [c EXCEPT !.owned = own]
  BY <1>4 DEF MarkTop
<1>6. own \in Seq(Marks) /\ Len(own) = Len(c.owned) /\ own[Len(c.owned)] = mark
  BY <1>3, ExceptSeq
<1> HIDE DEF own
<1>7. /\ d \in Ctx /\ d.owned = own /\ d.at = c.at /\ d.depth = c.depth /\ d.max = c.max
      /\ d.code = c.code /\ d.ok = c.ok
  BY <1>3, <1>5, <1>6 DEF Ctx
<1> HIDE DEF d
<1>8. Balanced(d) /\ Here(d) = Here(c)
  BY <1>2, <1>6, <1>7 DEF Balanced, Here
<1>9. ASSUME NEW i \in 1 .. Len(c.code) PROVE Legal(d, notes, open, top, i)
  <2>1. Legal(c, notes, open, top, i)
    BY <1>2
  <2> QED BY <2>1, <1>7, <1>8 DEF Legal
<1>10. Sound(d, notes, open, heads, top)
  BY <1>2, <1>7, <1>8, <1>9 DEF Sound
<1>11. d.owned # << >> /\ Last(d.owned) = mark
  BY <1>3, <1>6, <1>7 DEF Last
<1> QED BY <1>1, <1>8, <1>10, <1>11 DEF Ends, d

-----------------------------------------------------------------------------
(* The instructions, one by one                                            *)

\* The state with one more entry.
LEMMA PushState ==
  ASSUME NEW a \in State, NEW t \in Entry
  PROVE  /\ Push(a, t) \in State /\ Push(a, t).h = a.h + 1 /\ TopOf(Push(a, t)) = t
         /\ Push(a, t).flow = a.flow /\ Push(a, t).env = a.env /\ Push(a, t).held = a.held
         /\ \A j \in 1 .. a.h : Push(a, t).tag[j] = a.tag[j]
         /\ a.h \in Nat
<1>1. PICK n : n = a.h
  OBVIOUS
<1>2. n \in Nat /\ n + 1 \in Nat /\ a.tag \in [Nat -> Entry]
  BY <1>1 DEF State
<1>3. PICK g : g = [a.tag EXCEPT ![n + 1] = t]
  OBVIOUS
<1>4. g \in [Nat -> Entry] /\ g[n + 1] = t /\ \A j \in 1 .. n : g[j] = a.tag[j]
  BY <1>2, <1>3
<1>5. Push(a, t) = [a EXCEPT !.h = n + 1, !.tag = g]
  BY <1>1, <1>3 DEF Push
<1>6. /\ Push(a, t) \in State /\ Push(a, t).h = n + 1 /\ Push(a, t).tag = g
      /\ Push(a, t).flow = a.flow /\ Push(a, t).env = a.env /\ Push(a, t).held = a.held
  BY <1>2, <1>4, <1>5 DEF State
<1>7. TopOf(Push(a, t)) = t
  BY <1>4, <1>6 DEF TopOf
<1> QED BY <1>1, <1>2, <1>4, <1>6, <1>7

\* The state with entries taken.
LEMMA PopState ==
  ASSUME NEW a \in State, NEW n \in Nat, n <= a.h
  PROVE  /\ Pop(a, n) \in State /\ Pop(a, n).h = a.h - n /\ Pop(a, n).flow = a.flow /\ Pop(a, n).env = a.env
         /\ Pop(a, n).tag = a.tag /\ Pop(a, n).held = a.held /\ Pop(a, n).h \in Nat
<1>1. PICK k : k = a.h - n
  OBVIOUS
<1>2. k \in Nat
  BY <1>1 DEF State
<1>3. Pop(a, n) = [a EXCEPT !.h = k]
  BY <1>1 DEF Pop
<1> QED BY <1>1, <1>2, <1>3 DEF State

\* The state with another top entry.
LEMMA NamedState ==
  ASSUME NEW a \in State, NEW t \in Entry
  PROVE  /\ Named(a, t) \in State /\ Named(a, t).h = a.h /\ Named(a, t).flow = a.flow
         /\ Named(a, t).env = a.env /\ Named(a, t).held = a.held
         /\ \A j \in Nat : Named(a, t).tag[j] = IF j = a.h THEN t ELSE a.tag[j]
<1>1. PICK f : f = [a.tag EXCEPT ![a.h] = t]
  OBVIOUS
<1>2. f \in [Nat -> Entry] /\ \A j \in Nat : f[j] = IF j = a.h THEN t ELSE a.tag[j]
  BY <1>1 DEF State
<1>3. Named(a, t) = [a EXCEPT !.tag = f]
  BY <1>1 DEF Named
<1> QED BY <1>2, <1>3 DEF State

\* States that agree on what counts lead to each other.
LEMMA LeadsSame ==
  ASSUME NEW a, NEW b, b.flow = a.flow, b.h = a.h, b.env = a.env, b.held = a.held,
         \A j \in 1 .. a.h : b.tag[j] = a.tag[j]
  PROVE  Leads(a, b)
BY DEF Leads, Live

\* The entries.
LEMMA Entries ==
  /\ \A k \in {"data", "string", "strs", "maybe", "nil", "copy", "isnil"} : A(k) \in Entry /\ A(k).k = k
  /\ \A s \in Nat : SlotOf(s) \in Entry /\ SlotOf(s).k = "slot" /\ SlotOf(s).s = s /\ SlotOf(s).i = 0
  /\ \A s, i \in Nat : /\ ElementOf(s, i) \in Entry /\ ElementOf(s, i).k = "element"
                       /\ ElementOf(s, i).s = s /\ ElementOf(s, i).i = i
BY DEF A, SlotOf, ElementOf, Entry

\* emitOpcode notes the effect of the opcode's entry.
LEMMA EmitNotes ==
  ASSUME NEW c, NEW arg
  PROVE  /\ \A op \in {"LoadLocal", "LoadConst", "TableCount"} : Emit(c, op, arg) = Noted(c, op, arg, 0, 1)
         /\ \A op \in {"StoreLocal", "Pop", "JumpIfFalse", "Return"} : Emit(c, op, arg) = Noted(c, op, arg, 1, 0)
         /\ \A op \in {"LoadRow", "LoadField", "IsNil", "FixedArrayGet"} : Emit(c, op, arg) = Noted(c, op, arg, 1, 1)
         /\ \A op \in {"Compare", "Add"} : Emit(c, op, arg) = Noted(c, op, arg, 2, 1)
         /\ Emit(c, "Dup", arg) = Noted(c, "Dup", arg, 0, 1)
         /\ \A op \in {"Jump", "ReturnVoid"} : Emit(c, op, arg) = Noted(c, op, arg, 0, 0)
         /\ \A op \in {"Call", "NewFixedArray", "FreeString"}, pops, pushes \in Nat :
              NoteStackEffect(Emit(c, op, arg), pops, pushes) = Noted(c, op, arg, pops, pushes)
<1>0. \A op, pops, pushes :
        Noted(c, op, arg, pops, pushes) = NoteStackEffect(Written(c, op, arg), pops, pushes)
  BY DEF Noted, Written
<1>1. ASSUME NEW op, op \notin Resolved, op # "Dup", NEW pops, NEW pushes, FixedEffect(op) = <<pops, pushes>>
      PROVE  Emit(c, op, arg) = Noted(c, op, arg, pops, pushes)
  <2>1. FixedEffect(op)[1] = pops /\ FixedEffect(op)[2] = pushes
    BY <1>1
  <2> QED BY <1>0, <1>1, <2>1 DEF Emit
<1>2. \A op \in {"LoadLocal", "LoadConst", "TableCount"} : Emit(c, op, arg) = Noted(c, op, arg, 0, 1)
  <2> SUFFICES ASSUME NEW op \in {"LoadLocal", "LoadConst", "TableCount"}
               PROVE  Emit(c, op, arg) = Noted(c, op, arg, 0, 1)
    OBVIOUS
  <2>1. FixedEffect(op) = <<0, 1>>
    BY DEF FixedEffect
  <2>2. op \notin Resolved /\ op # "Dup"
    BY DEF Resolved
  <2> QED BY <1>1, <2>1, <2>2
<1>3. \A op \in {"StoreLocal", "Pop", "JumpIfFalse", "Return"} : Emit(c, op, arg) = Noted(c, op, arg, 1, 0)
  <2> SUFFICES ASSUME NEW op \in {"StoreLocal", "Pop", "JumpIfFalse", "Return"}
               PROVE  Emit(c, op, arg) = Noted(c, op, arg, 1, 0)
    OBVIOUS
  <2>1. FixedEffect(op) = <<1, 0>>
    BY DEF FixedEffect
  <2>2. op \notin Resolved /\ op # "Dup"
    BY DEF Resolved
  <2> QED BY <1>1, <2>1, <2>2
<1>4. \A op \in {"LoadRow", "LoadField", "IsNil", "FixedArrayGet"} : Emit(c, op, arg) = Noted(c, op, arg, 1, 1)
  <2> SUFFICES ASSUME NEW op \in {"LoadRow", "LoadField", "IsNil", "FixedArrayGet"}
               PROVE  Emit(c, op, arg) = Noted(c, op, arg, 1, 1)
    OBVIOUS
  <2>1. FixedEffect(op) = <<1, 1>>
    BY DEF FixedEffect
  <2>2. op \notin Resolved /\ op # "Dup"
    BY DEF Resolved
  <2> QED BY <1>1, <2>1, <2>2
<1>5. \A op \in {"Compare", "Add"} : Emit(c, op, arg) = Noted(c, op, arg, 2, 1)
  <2> SUFFICES ASSUME NEW op \in {"Compare", "Add"}
               PROVE  Emit(c, op, arg) = Noted(c, op, arg, 2, 1)
    OBVIOUS
  <2>1. FixedEffect(op) = <<2, 1>>
    BY DEF FixedEffect
  <2>2. op \notin Resolved /\ op # "Dup"
    BY DEF Resolved
  <2> QED BY <1>1, <2>1, <2>2
<1>6. \A op \in {"Jump", "ReturnVoid"} : Emit(c, op, arg) = Noted(c, op, arg, 0, 0)
  <2> SUFFICES ASSUME NEW op \in {"Jump", "ReturnVoid"}
               PROVE  Emit(c, op, arg) = Noted(c, op, arg, 0, 0)
    OBVIOUS
  <2>1. FixedEffect(op) = <<0, 0>>
    BY DEF FixedEffect
  <2>2. op \notin Resolved /\ op # "Dup"
    BY DEF Resolved
  <2> QED BY <1>1, <2>1, <2>2
<1>7. Emit(c, "Dup", arg) = Noted(c, "Dup", arg, 0, 1)
  <2>1. "Dup" \notin Resolved
    BY DEF Resolved
  <2> QED BY <1>0, <2>1 DEF Emit
<1>8. \A op \in {"Call", "NewFixedArray", "FreeString"}, pops, pushes \in Nat :
        NoteStackEffect(Emit(c, op, arg), pops, pushes) = Noted(c, op, arg, pops, pushes)
  <2>1. \A op \in {"Call", "NewFixedArray", "FreeString"} : op \in Resolved
    BY DEF Resolved
  <2> QED BY <1>0, <2>1 DEF Emit
<1> QED BY <1>2, <1>3, <1>4, <1>5, <1>6, <1>7, <1>8

\* Any instruction may follow where nothing arrives.
LEMMA EndsDead ==
  ASSUME NEW c, NEW a \in State, NEW open, NEW heads, NEW top, Ends(c, a, open, heads, top), ~Live(a),
         NEW op \in Ops \ (Jumps \union {"StoreLocal"}), NEW arg \in Args, NEW pops \in Nat, NEW pushes \in Nat,
         pops <= a.h, NEW b \in State, b.h = a.h - pops + pushes
  PROVE  Ends(Noted(c, op, arg, pops, pushes), b, open, heads, top)
BY EndsNext

\* A constant on the stack.
LEMMA EndsConst ==
  ASSUME NEW c, NEW a \in State, NEW open, NEW heads, NEW top, Ends(c, a, open, heads, top),
         NEW type \in {"string", "int", "bool"}
  PROVE  Ends(Literal(c, type), Push(a, A(Kind(type))), open, heads, top)
<1> DEFINE t == A(Kind(type))
           b == Push(a, t)
           d == Emit(c, "LoadConst", type)
<1>1. t \in Entry /\ t = IF type = "string" THEN A("string") ELSE A("data")
  BY Entries DEF Kind
<1>2. b \in State /\ b.h = a.h + 1 /\ a.h \in Nat
  BY <1>1, PushState
<1>3. d = Noted(c, "LoadConst", type, 0, 1)
  BY EmitNotes
<1>4. Fits("LoadConst", type, a) /\ After("LoadConst", type, a) = b
  BY <1>1 DEF Fits, After
<1>5. Ends(d, b, open, heads, top)
  <2>1. "LoadConst" \in Ops \ Jumps /\ type \in Args /\ b.h = a.h - 0 + 1 /\ 0 <= a.h /\ Leads(b, b)
    BY <1>2, LeadsSelf DEF Ops, Jumps, Args
  <2> HIDE DEF d, b
  <2> QED BY <1>2, <1>3, <1>4, <2>1, EndsNext
<1> HIDE DEF d, b
<1>6. CASE type = "string"
  <2>1. MarkIfOwner(d, type) = MarkTop(d, "Owned")
    BY <1>6 DEF MarkIfOwner, NeedsDrop, DropKind
  <2>2. Ends(MarkTop(d, "Owned"), b, open, heads, top)
    BY <1>2, <1>5, EndsMarked DEF Marks
  <2> QED BY <2>1, <2>2 DEF Literal, d, b
<1>7. CASE type # "string"
  <2>1. MarkIfOwner(d, type) = d
    BY <1>7 DEF MarkIfOwner, NeedsDrop, DropKind
  <2> QED BY <1>5, <2>1 DEF Literal, d, b
<1> QED BY <1>6, <1>7

\* What a slot holds, on the stack.
LEMMA EndsLoad ==
  ASSUME NEW c, NEW a \in State, NEW open, NEW heads, NEW top, Ends(c, a, open, heads, top),
         NEW s \in Nat \ {0}, NEW kind \in Kinds \ {"unset"}, Live(a) => a.env[s] = kind
  PROVE  Ends(Emit(c, "LoadLocal", s), Push(a, IF kind = "data" THEN A("data") ELSE SlotOf(s)),
              open, heads, top)
<1> DEFINE t == IF kind = "data" THEN A("data") ELSE SlotOf(s)
           b == Push(a, t)
<1>1. t \in Entry
  BY Entries
<1>2. b \in State /\ b.h = a.h + 1 /\ a.h \in Nat
  BY <1>1, PushState
<1>3. Emit(c, "LoadLocal", s) = Noted(c, "LoadLocal", s, 0, 1)
  BY EmitNotes
<1>4. Live(a) => Fits("LoadLocal", s, a) /\ After("LoadLocal", s, a) = b
  BY DEF Fits, After, Kinds
<1>5. "LoadLocal" \in Ops \ Jumps /\ s \in Args /\ b.h = a.h - 0 + 1 /\ 0 <= a.h /\ Leads(b, b)
  BY <1>2, LeadsSelf DEF Ops, Jumps, Args
<1> HIDE DEF b, t
<1>6. Ends(Emit(c, "LoadLocal", s), b, open, heads, top)
  BY <1>2, <1>3, <1>4, <1>5, EndsNext
<1> QED BY <1>6 DEF b, t

\* A value into a slot.
Stored(a, s, kind) == [a EXCEPT !.env = [@ EXCEPT ![s] = kind], !.held = @ \union Places(s, kind)]

\* The state with a value in a slot.
LEMMA StoredState ==
  ASSUME NEW a \in State, NEW s \in Nat, NEW kind \in Kinds
  PROVE  /\ Stored(a, s, kind) \in State /\ Stored(a, s, kind).h = a.h /\ Stored(a, s, kind).flow = a.flow
         /\ Stored(a, s, kind).tag = a.tag /\ Stored(a, s, kind).env = [a.env EXCEPT ![s] = kind]
         /\ Stored(a, s, kind).held = a.held \union Places(s, kind)
         /\ Places(s, kind) \subseteq Nat \X Nat
<1>1. Places(s, kind) \subseteq Nat \X Nat
  BY DEF Places, ArrayLength
<1> QED BY <1>1 DEF Stored, State

\* The value on the stack is stored to a slot, which owns nothing yet.
LEMMA EndsStore ==
  ASSUME NEW c, NEW a \in State, NEW open, NEW heads, NEW top \in Nat, NEW kind \in {"data", "string", "strs"},
         Ends(c, Push(a, A(kind)), open, heads, top),
         a.h = 0, NEW s \in 1 .. top, Live(a) => a.held \cap ({s} \X Nat) = {}
  PROVE  Ends(Emit(c, "StoreLocal", s), Stored(a, s, kind), open, heads, top)
<1> DEFINE p == Push(a, A(kind))
           b == Stored(a, s, kind)
<1>1. A(kind) \in Entry /\ A(kind).k = kind
  BY Entries
<1>2. /\ p \in State /\ p.h = 1 /\ TopOf(p) = A(kind) /\ p.flow = a.flow /\ p.env = a.env /\ p.held = a.held
  BY <1>1, PushState
<1>3. s \in Nat /\ b \in State /\ b.h = 0 /\ b.flow = a.flow /\ b.env = [a.env EXCEPT ![s] = kind]
      /\ b.held = a.held \union Places(s, kind)
  <2>1. s \in Nat /\ kind \in Kinds
    BY DEF Kinds
  <2> QED BY <2>1, StoredState
<1>4. Emit(c, "StoreLocal", s) = Noted(c, "StoreLocal", s, 1, 0)
  BY EmitNotes
<1>5. Live(p) => Fits("StoreLocal", s, p)
  BY <1>1, <1>2 DEF Fits, Live
<1>6. Leads(After("StoreLocal", s, p), b)
  <2> DEFINE q == After("StoreLocal", s, p)
  <2> HIDE DEF p, b
  <2>1. q = [Pop(p, 1) EXCEPT !.env = [@ EXCEPT ![s] = kind], !.held = @ \union Places(s, kind)]
    BY <1>1, <1>2 DEF After
  <2>2. PICK o : o = Pop(p, 1)
    OBVIOUS
  <2>3. o \in State /\ o.h = 0 /\ o.flow = p.flow /\ o.env = p.env /\ o.held = p.held
    BY <1>2, <2>2, PopState
  <2>4. q = Stored(o, s, kind)
    BY <2>1, <2>2 DEF Stored
  <2> HIDE DEF q
  <2>5. q.flow = p.flow /\ q.h = 0 /\ q.env = [p.env EXCEPT ![s] = kind] /\ q.held = p.held \union Places(s, kind)
    <3>1. s \in Nat /\ kind \in Kinds
      BY DEF Kinds
    <3> QED BY <3>1, <2>3, <2>4, StoredState
  <2>6. q.flow = b.flow /\ q.env = b.env /\ q.held = b.held /\ 1 .. q.h = {}
    BY <1>2, <1>3, <2>5
  <2>7. Leads(q, b)
    BY <2>5, <2>6, <1>3, LeadsSame
  <2> QED BY <2>7 DEF q
<1>7. "StoreLocal" \in Ops \ Jumps /\ s \in Args /\ b.h = p.h - 1 + 0 /\ 1 <= p.h
  BY <1>2, <1>3 DEF Ops, Jumps, Args
<1> HIDE DEF b, p
<1>8. Ends(Emit(c, "StoreLocal", s), b, open, heads, top)
  <2>1. Ends(c, p, open, heads, top)
    BY DEF p
  <2> QED BY <1>2, <1>3, <1>4, <1>5, <1>6, <1>7, <2>1, EndsNext
<1> QED BY <1>8 DEF b

\* A value that owns nothing goes.
LEMMA EndsPop ==
  ASSUME NEW c, NEW a \in State, NEW open, NEW heads, NEW top, NEW t \in Entry,
         t.k \notin {"string", "strs", "maybe"}, Ends(c, Push(a, t), open, heads, top)
  PROVE  Ends(Emit(c, "Pop", 0), a, open, heads, top)
<1> DEFINE p == Push(a, t)
<1>1. /\ p \in State /\ p.h = a.h + 1 /\ TopOf(p) = t /\ p.flow = a.flow /\ p.env = a.env /\ p.held = a.held
      /\ a.h \in Nat /\ \A j \in 1 .. a.h : p.tag[j] = a.tag[j]
  BY PushState
<1>2. Ends(c, p, open, heads, top)
  OBVIOUS
<1>3. Emit(c, "Pop", 0) = Noted(c, "Pop", 0, 1, 0)
  BY EmitNotes
<1> HIDE DEF p
<1>4. Fits("Pop", 0, p)
  BY <1>1 DEF Fits
<1>5. Leads(After("Pop", 0, p), a)
  <2> DEFINE q == After("Pop", 0, p)
  <2>1. q = Pop(p, 1)
    BY DEF After
  <2> HIDE DEF q
  <2>2. q.flow = p.flow /\ q.h = a.h /\ q.env = p.env /\ q.held = p.held /\ q.tag = p.tag
    BY <2>1, <1>1, PopState
  <2>3. Leads(q, a)
    BY <2>2, <1>1, LeadsSame
  <2> QED BY <2>3 DEF q
<1>6. "Pop" \in Ops \ Jumps /\ "Pop" # "StoreLocal" /\ 0 \in Args /\ a.h = p.h - 1 + 0 /\ 1 <= p.h
  BY <1>1 DEF Ops, Jumps, Args
<1> QED BY <1>1, <1>2, <1>3, <1>4, <1>5, <1>6, EndsNext

\* A drop takes places from what is held, and nothing else.
LEMMA WithoutState ==
  ASSUME NEW a \in State, NEW P
  PROVE  /\ Without(a, P) \in State /\ Without(a, P).h = a.h /\ Without(a, P).flow = a.flow
         /\ Without(a, P).tag = a.tag /\ Without(a, P).env = a.env /\ Without(a, P).held = a.held \ P
BY DEF Without, State

\* A string that the stack owns is freed.
LEMMA EndsFreeOwned ==
  ASSUME NEW c, NEW a \in State, NEW open, NEW heads, NEW top,
         Ends(c, Push(a, A("string")), open, heads, top)
  PROVE  Ends(EmitRtCall(c, "FreeString"), a, open, heads, top)
<1> DEFINE p == Push(a, A("string"))
<1>1. /\ p \in State /\ p.h = a.h + 1 /\ TopOf(p) = A("string") /\ p.flow = a.flow /\ p.env = a.env /\ p.held = a.held
      /\ a.h \in Nat /\ \A j \in 1 .. a.h : p.tag[j] = a.tag[j]
  <2>1. A("string") \in Entry
    BY Entries
  <2> QED BY <2>1, PushState
<1>2. Ends(c, p, open, heads, top)
  OBVIOUS
<1>3. EmitRtCall(c, "FreeString") = Noted(c, "FreeString", 0, 1, 0)
  BY EmitNotes DEF EmitRtCall
<1> HIDE DEF p
<1>4. Fits("FreeString", 0, p) /\ Freed(p) = {}
  BY <1>1, Entries DEF Fits, Freed
<1>5. Leads(After("FreeString", 0, p), a)
  <2> DEFINE q == After("FreeString", 0, p)
  <2>1. q = Without(Pop(p, 1), {})
    BY <1>4 DEF After
  <2> HIDE DEF q
  <2>2. PICK o : o = Pop(p, 1)
    OBVIOUS
  <2>3. o \in State /\ o.h = a.h /\ o.flow = p.flow /\ o.env = p.env /\ o.held = p.held /\ o.tag = p.tag
    <3>1. p \in State /\ 1 <= p.h /\ p.h - 1 = a.h
      BY <1>1
    <3> QED BY <3>1, <2>2, PopState
  <2>4. q.flow = p.flow /\ q.h = a.h /\ q.env = p.env /\ q.held = p.held \ {} /\ q.tag = p.tag
    <3>1. PICK none : none = {}
      OBVIOUS
    <3>2. q = Without(o, none)
      BY <2>1, <2>2, <3>1
    <3>3. q.flow = o.flow /\ q.h = o.h /\ q.env = o.env /\ q.held = o.held \ none /\ q.tag = o.tag
      BY <3>2, <2>3, WithoutState
    <3> QED BY <3>1, <3>3, <2>3
  <2>5. q.held = a.held
    BY <2>4, <1>1
  <2>6. Leads(q, a)
    BY <2>4, <2>5, <1>1, LeadsSame
  <2> QED BY <2>6 DEF q
<1>6. "FreeString" \in Ops \ Jumps /\ "FreeString" # "StoreLocal" /\ 0 \in Args /\ a.h = p.h - 1 + 0 /\ 1 <= p.h
  BY <1>1 DEF Ops, Jumps, Args
<1> QED BY <1>1, <1>2, <1>3, <1>4, <1>5, <1>6, EndsNext

\* What is held does not depend on the stack.
LEMMA WithoutPush ==
  ASSUME NEW a \in State, NEW t, NEW P
  PROVE  Without(Push(a, t), P) = Push(Without(a, P), t)
BY DEF Without, Push, State

\* Places are taken at once, or in turn.
LEMMA WithoutTwice ==
  ASSUME NEW a \in State, NEW P, NEW Q
  PROVE  Without(Without(a, P), Q) = Without(a, P \union Q)
<1>1. (a.held \ P) \ Q = a.held \ (P \union Q)
  OBVIOUS
<1> QED BY <1>1 DEF Without, State

\* A string that a slot or an array in a slot owns is freed.
LEMMA EndsFreeNamed ==
  ASSUME NEW c, NEW a \in State, NEW open, NEW heads, NEW top, NEW t \in Entry,
         Ends(c, Push(a, t), open, heads, top),
         Live(a) => /\ \/ t.k = "slot" /\ a.env[t.s] = "string"
                       \/ t.k = "element" /\ a.env[t.s] = "strs" /\ t.i \in 1 .. ArrayLength
                    /\ <<t.s, t.i>> \in a.held
  PROVE  Ends(EmitRtCall(c, "FreeString"), Without(a, {<<t.s, t.i>>}), open, heads, top)
<1> DEFINE p == Push(a, t)
           b == Without(a, {<<t.s, t.i>>})
<1>1. /\ p \in State /\ p.h = a.h + 1 /\ TopOf(p) = t /\ p.flow = a.flow /\ p.env = a.env /\ p.held = a.held
      /\ a.h \in Nat /\ \A j \in 1 .. a.h : p.tag[j] = a.tag[j]
  BY PushState
<1>2. Ends(c, p, open, heads, top)
  OBVIOUS
<1>3. EmitRtCall(c, "FreeString") = Noted(c, "FreeString", 0, 1, 0)
  BY EmitNotes DEF EmitRtCall
<1>4. b \in State /\ b.h = a.h /\ b.flow = a.flow /\ b.tag = a.tag /\ b.env = a.env /\ b.held = a.held \ {<<t.s, t.i>>}
  BY WithoutState
<1> HIDE DEF p, b
<1>5. Live(p) => Fits("FreeString", 0, p) /\ Freed(p) = {<<t.s, t.i>>}
  <2> SUFFICES ASSUME Live(p) PROVE Fits("FreeString", 0, p) /\ Freed(p) = {<<t.s, t.i>>}
    OBVIOUS
  <2>1. Live(a) /\ t.k # "string"
    BY <1>1 DEF Live
  <2>2. Freed(p) = {<<t.s, t.i>>}
    BY <1>1, <2>1 DEF Freed
  <2> QED BY <1>1, <2>1, <2>2 DEF Fits
<1>6. ASSUME Live(p) PROVE Leads(After("FreeString", 0, p), b)
  <2> DEFINE q == After("FreeString", 0, p)
  <2>1. q = Without(Pop(p, 1), {<<t.s, t.i>>})
    BY <1>5, <1>6 DEF After
  <2> HIDE DEF q
  <2>2. PICK o : o = Pop(p, 1)
    OBVIOUS
  <2>3. o \in State /\ o.h = a.h /\ o.flow = p.flow /\ o.env = p.env /\ o.held = p.held /\ o.tag = p.tag
    BY <1>1, <2>2, PopState
  <2>4. q.flow = p.flow /\ q.h = a.h /\ q.env = p.env /\ q.held = p.held \ {<<t.s, t.i>>} /\ q.tag = p.tag
    BY <2>1, <2>2, <2>3, WithoutState
  <2>5. q.flow = b.flow /\ q.h = b.h /\ q.env = b.env /\ q.held = b.held
    BY <2>4, <1>1, <1>4
  <2>6. \A j \in 1 .. q.h : b.tag[j] = q.tag[j]
    BY <2>4, <1>1, <1>4
  <2>7. Leads(q, b)
    BY <2>5, <2>6, LeadsSame
  <2> QED BY <2>7 DEF q
<1>7. "FreeString" \in Ops \ Jumps /\ "FreeString" # "StoreLocal" /\ 0 \in Args /\ b.h = p.h - 1 + 0 /\ 1 <= p.h
  BY <1>1, <1>4 DEF Ops, Jumps, Args
<1>8. Ends(EmitRtCall(c, "FreeString"), b, open, heads, top)
  BY <1>1, <1>2, <1>3, <1>4, <1>5, <1>6, <1>7, EndsNext
<1> QED BY <1>8 DEF b

\* The array of a slot on the stack, and one element of it above.
LEMMA EndsElement ==
  ASSUME NEW c, NEW a \in State, NEW open, NEW heads, NEW top, NEW s \in Nat, NEW i \in 1 .. ArrayLength,
         Ends(c, Push(a, SlotOf(s)), open, heads, top), Live(a) => a.env[s] = "strs"
  PROVE  Ends(Emit(Emit(c, "Dup", 0), "FixedArrayGet", i), Push(Push(a, SlotOf(s)), ElementOf(s, i)),
              open, heads, top)
<1> DEFINE p == Push(a, SlotOf(s))
           q == Push(p, SlotOf(s))
           r == Push(p, ElementOf(s, i))
           d == Emit(c, "Dup", 0)
<1>1. i \in Nat /\ i \in 1 .. ArrayLength
  BY DEF ArrayLength
<1>2. /\ SlotOf(s) \in Entry /\ SlotOf(s).k = "slot" /\ SlotOf(s).s = s /\ ElementOf(s, i) \in Entry
  BY <1>1, Entries
<1>3. /\ p \in State /\ p.h = a.h + 1 /\ TopOf(p) = SlotOf(s) /\ p.flow = a.flow /\ p.env = a.env
      /\ a.h \in Nat
  BY <1>2, PushState
<1>4. Ends(c, p, open, heads, top)
  OBVIOUS
<1> HIDE DEF p
<1>5. /\ q \in State /\ q.h = p.h + 1 /\ TopOf(q) = SlotOf(s) /\ q.flow = p.flow /\ q.env = p.env /\ q.held = p.held
      /\ \A j \in 1 .. p.h : q.tag[j] = p.tag[j]
  BY <1>2, <1>3, PushState
<1>6. /\ r \in State /\ r.h = p.h + 1 /\ TopOf(r) = ElementOf(s, i) /\ r.flow = p.flow /\ r.env = p.env
      /\ r.held = p.held /\ \A j \in 1 .. p.h : r.tag[j] = p.tag[j]
  BY <1>2, <1>3, PushState
<1>7. Fits("Dup", 0, p) /\ After("Dup", 0, p) = q
  BY <1>2, <1>3 DEF Fits, After
<1> HIDE DEF q, r, d
<1>8. Ends(d, q, open, heads, top)
  <2>1. d = Noted(c, "Dup", 0, 0, 1)
    BY EmitNotes DEF d
  <2>2. "Dup" \in Ops \ Jumps /\ "Dup" # "StoreLocal" /\ 0 \in Args /\ q.h = p.h - 0 + 1 /\ 0 <= p.h /\ Leads(q, q)
    BY <1>3, <1>5, LeadsSelf DEF Ops, Jumps, Args
  <2> QED BY <1>3, <1>4, <1>5, <1>7, <2>1, <2>2, EndsNext
<1>9. Live(q) => Fits("FixedArrayGet", i, q)
  BY <1>1, <1>2, <1>3, <1>5 DEF Fits, Live
<1>10. Leads(After("FixedArrayGet", i, q), r)
  <2> DEFINE x == After("FixedArrayGet", i, q)
  <2>1. x = Named(q, ElementOf(s, i))
    BY <1>2, <1>5 DEF After
  <2> HIDE DEF x
  <2>2. /\ x.flow = q.flow /\ x.h = q.h /\ x.env = q.env /\ x.held = q.held
        /\ \A j \in Nat : x.tag[j] = IF j = q.h THEN ElementOf(s, i) ELSE q.tag[j]
    BY <2>1, <1>2, <1>5, NamedState
  <2>3. PICK n : n = p.h
    OBVIOUS
  <2>4. n \in Nat /\ q.h = n + 1 /\ r.h = n + 1 /\ x.h = n + 1
    BY <1>3, <1>5, <1>6, <2>2, <2>3 DEF State
  <2>5. r.tag[n + 1] = ElementOf(s, i)
    BY <1>6, <2>4 DEF TopOf
  <2>6. ASSUME NEW j \in 1 .. n + 1 PROVE r.tag[j] = x.tag[j]
    <3>1. CASE j = n + 1
      BY <3>1, <2>2, <2>4, <2>5
    <3>2. CASE j # n + 1
      <4>1. j \in 1 .. p.h /\ j \in Nat
        BY <3>2, <2>3, <2>4
      <4>2. r.tag[j] = p.tag[j] /\ q.tag[j] = p.tag[j]
        BY <4>1, <1>5, <1>6
      <4> QED BY <4>1, <4>2, <3>2, <2>2, <2>4
    <3> QED BY <3>1, <3>2
  <2>7. r.flow = x.flow /\ r.h = x.h /\ r.env = x.env /\ r.held = x.held
    BY <1>5, <1>6, <2>2, <2>4
  <2>8. Leads(x, r)
    BY <2>4, <2>6, <2>7, LeadsSame
  <2> QED BY <2>8 DEF x
<1>11. Ends(Emit(d, "FixedArrayGet", i), r, open, heads, top)
  <2>1. Emit(d, "FixedArrayGet", i) = Noted(d, "FixedArrayGet", i, 1, 1)
    BY EmitNotes
  <2>2. "FixedArrayGet" \in Ops \ Jumps /\ "FixedArrayGet" # "StoreLocal" /\ i \in Args
        /\ r.h = q.h - 1 + 1 /\ 1 <= q.h
    BY <1>1, <1>3, <1>5, <1>6 DEF Ops, Jumps, Args
  <2> QED BY <1>5, <1>6, <1>8, <1>9, <1>10, <2>1, <2>2, EndsNext
<1> QED BY <1>11 DEF d, r, p

\* The array is dropped, element by element.
LEMMA EndsElementWise ==
  ASSUME NEW c, NEW a \in State, NEW open, NEW heads, NEW top, NEW s \in Nat,
         Ends(c, Push(a, SlotOf(s)), open, heads, top),
         Live(a) => a.env[s] = "strs" /\ Places(s, "strs") \subseteq a.held
  PROVE  Ends(EmitElementWiseDrop(c), Without(a, Places(s, "strs")), open, heads, top)
<1> DEFINE D(d, i) == EmitPlainDrop(MarkIfOwner(Emit(Emit(d, "Dup", 0), "FixedArrayGet", i),
                                                ElementType), ElementType)
           F(f) == [n \in 0 .. ArrayLength |-> IF n = 0 THEN c ELSE D(f[n - 1], ArrayLength + 1 - n)]
           f == CHOOSE g : g = F(g)
<1>1. Places(s, "strs") = {<<s, 1>>, <<s, 2>>} /\ 1 .. ArrayLength = {1, 2}
  BY DEF Places, ArrayLength
<1>2. ASSUME NEW d, NEW b \in State, NEW i \in {1, 2}, Ends(d, Push(b, SlotOf(s)), open, heads, top),
             Live(b) => b.env[s] = "strs" /\ <<s, i>> \in b.held
      PROVE  Ends(D(d, i), Push(Without(b, {<<s, i>>}), SlotOf(s)), open, heads, top)
  <2> DEFINE p == Push(b, SlotOf(s))
             e == Emit(Emit(d, "Dup", 0), "FixedArrayGet", i)
             t == ElementOf(s, i)
  <2>1. t \in Entry /\ t.k = "element" /\ t.s = s /\ t.i = i /\ SlotOf(s) \in Entry /\ i \in 1 .. ArrayLength
    BY <1>1, Entries
  <2>2. p \in State /\ p.flow = b.flow /\ p.env = b.env /\ p.held = b.held
    BY <2>1, PushState
  <2>3. Ends(e, Push(p, t), open, heads, top)
    BY <1>2, <2>1, EndsElement
  <2>4. Push(p, t) \in State /\ Push(p, t).h >= 1
    <3> HIDE DEF p, t
    <3>1. Push(p, t) \in State /\ Push(p, t).h = p.h + 1 /\ p.h \in Nat
      BY <2>1, <2>2, PushState
    <3> QED BY <3>1
  <2> HIDE DEF e
  <2>5. Ends(MarkTop(e, "Owned"), Push(p, t), open, heads, top)
    BY <2>3, <2>4, EndsMarked DEF Marks
  <2>6. D(d, i) = EmitRtCall(MarkTop(e, "Owned"), "FreeString")
    BY DEF EmitPlainDrop, MarkIfOwner, NeedsDrop, DropKind, ElementType, e
  <2>7. Ends(EmitRtCall(MarkTop(e, "Owned"), "FreeString"), Without(p, {<<t.s, t.i>>}), open, heads, top)
    <3> HIDE DEF p, t
    <3>1. Live(p) => p.env[t.s] = "strs" /\ <<t.s, t.i>> \in p.held
      BY <1>2, <2>1, <2>2 DEF Live
    <3> QED BY <2>1, <2>2, <2>5, <3>1, EndsFreeNamed
  <2>8. Without(p, {<<t.s, t.i>>}) = Push(Without(b, {<<s, i>>}), SlotOf(s))
    BY <2>1, WithoutPush
  <2> QED BY <2>6, <2>7, <2>8
<1>3. EmitElementWiseDrop(c) = Emit(f[ArrayLength], "Pop", 0)
  BY DEF EmitElementWiseDrop
<1>4. f = F(f)
  <2> DEFINE g == [n \in 0 .. ArrayLength |-> IF n = 0 THEN c ELSE IF n = 1 THEN D(c, 2) ELSE D(D(c, 2), 1)]
  <2> HIDE DEF D
  <2>1. g = F(g)
    BY DEF ArrayLength
  <2> HIDE DEF g
  <2> QED BY <2>1
<1> HIDE DEF D, f
<1>5. f[0] = c /\ f[1] = D(c, 2) /\ f[2] = D(D(c, 2), 1)
  BY <1>4 DEF ArrayLength
<1> DEFINE b == Without(a, {<<s, 2>>})
           z == Without(b, {<<s, 1>>})
<1>6. Ends(f[1], Push(b, SlotOf(s)), open, heads, top)
  <2> HIDE DEF b
  <2> QED BY <1>1, <1>2, <1>5 DEF b
<1>7. b \in State /\ b.env = a.env /\ b.held = a.held \ {<<s, 2>>} /\ b.flow = a.flow /\ z \in State
  BY WithoutState
<1>8. Ends(f[2], Push(z, SlotOf(s)), open, heads, top)
  <2>1. Live(b) => b.env[s] = "strs" /\ <<s, 1>> \in b.held
    <3> SUFFICES ASSUME Live(b) PROVE b.env[s] = "strs" /\ <<s, 1>> \in b.held
      OBVIOUS
    <3>1. Live(a)
      BY <1>7 DEF Live
    <3>2. a.env[s] = "strs" /\ {<<s, 1>>, <<s, 2>>} \subseteq a.held
      BY <3>1, <1>1
    <3>3. <<s, 1>> # <<s, 2>>
      OBVIOUS
    <3> HIDE DEF b
    <3> QED BY <3>2, <3>3, <1>7
  <2> HIDE DEF b
  <2> QED BY <1>2, <1>5, <1>6, <1>7, <2>1
<1>9. Ends(Emit(f[2], "Pop", 0), z, open, heads, top)
  <2> HIDE DEF z
  <2> QED BY <1>7, <1>8, EndsPop, Entries
<1>10. z = Without(a, Places(s, "strs"))
  <2>1. z = Without(a, {<<s, 2>>} \union {<<s, 1>>})
    BY WithoutTwice
  <2>2. {<<s, 2>>} \union {<<s, 1>>} = {<<s, 1>>, <<s, 2>>}
    OBVIOUS
  <2> QED BY <2>1, <2>2, <1>1
<1> QED BY <1>3, <1>9, <1>10 DEF ArrayLength

\* A slot is dropped.
LEMMA EndsDropLocal ==
  ASSUME NEW c, NEW a \in State, NEW open, NEW heads, NEW top, Ends(c, a, open, heads, top),
         NEW s \in Nat \ {0}, NEW type \in {"string", "strs"},
         Live(a) => a.env[s] = Kind(type) /\ Places(s, Kind(type)) \subseteq a.held
  PROVE  Ends(EmitDropIfOwned(MarkTop(Emit(c, "LoadLocal", s), "Owned"), type),
              Without(a, Places(s, Kind(type))), open, heads, top)
<1> DEFINE p == Push(a, SlotOf(s))
           d == MarkTop(Emit(c, "LoadLocal", s), "Owned")
<1>1. Kind(type) = type /\ type \in Kinds \ {"unset"} /\ type # "data"
  BY DEF Kind, Kinds
<1>2. SlotOf(s) \in Entry /\ SlotOf(s).k = "slot" /\ SlotOf(s).s = s /\ SlotOf(s).i = 0
  BY Entries
<1>3. p \in State /\ p.h >= 1
  BY <1>2, PushState
<1>4. Ends(Emit(c, "LoadLocal", s), p, open, heads, top)
  BY <1>1, EndsLoad
<1> HIDE DEF p
<1>5. Ends(d, p, open, heads, top) /\ d.owned # << >> /\ Last(d.owned) = "Owned"
  BY <1>3, <1>4, EndsMarked DEF Marks
<1> HIDE DEF d
<1>6. EmitDropIfOwned(d, type) = EmitDrop(d, type)
  BY <1>5 DEF EmitDropIfOwned
<1>7. CASE type = "string"
  <2>1. EmitDrop(d, type) = EmitRtCall(d, "FreeString")
    BY <1>7 DEF EmitDrop, EmitPlainDrop, NeedsDrop, DropKind
  <2>2. Places(s, Kind(type)) = {<<s, 0>>}
    BY <1>1, <1>7 DEF Places
  <2>3. Ends(EmitRtCall(d, "FreeString"), Without(a, {<<SlotOf(s).s, SlotOf(s).i>>}), open, heads, top)
    <3>1. Live(a) => a.env[SlotOf(s).s] = "string" /\ <<SlotOf(s).s, SlotOf(s).i>> \in a.held
      BY <1>1, <1>2, <1>7, <2>2
    <3>2. Ends(d, Push(a, SlotOf(s)), open, heads, top)
      BY <1>5 DEF p
    <3> QED BY <1>2, <3>1, <3>2, EndsFreeNamed
  <2> QED BY <1>2, <1>6, <2>1, <2>2, <2>3 DEF d
<1>8. CASE type = "strs"
  <2>1. EmitDrop(d, type) = EmitElementWiseDrop(d)
    BY <1>8 DEF EmitDrop, DropKind
  <2>2. Ends(EmitElementWiseDrop(d), Without(a, Places(s, "strs")), open, heads, top)
    BY <1>1, <1>5, <1>8, EndsElementWise DEF p
  <2> QED BY <1>1, <1>6, <1>8, <2>1, <2>2 DEF d
<1> QED BY <1>7, <1>8

\* What the slots of S hold.
HeldBy(types, S) == UNION {Places(s, Kind(types[s])) : s \in S}

\* The slots of the scopes from i to j.
Within(scopes, i, j) == UNION {Range(scopes[l]) : l \in i .. j}

\* What two sets of slots hold.
LEMMA HeldTogether ==
  ASSUME NEW types, NEW S, NEW T
  PROVE  HeldBy(types, S \union T) = HeldBy(types, S) \union HeldBy(types, T)
BY DEF HeldBy

\* No two slots hold the same place.
LEMMA PlacesApart ==
  ASSUME NEW s, NEW kind, NEW e \in Places(s, kind)
  PROVE  e = <<s, e[2]>> /\ e[1] = s
<1>1. CASE kind = "string"
  BY <1>1 DEF Places
<1>2. CASE kind = "strs"
  BY <1>2 DEF Places
<1> QED BY <1>1, <1>2 DEF Places

\* The slots outside S hold nothing that those of S hold.
LEMMA HeldApart ==
  ASSUME NEW types, NEW S, NEW s, s \notin S, NEW kind
  PROVE  Places(s, kind) \cap HeldBy(types, S) = {}
<1> SUFFICES ASSUME NEW e \in Places(s, kind), e \in HeldBy(types, S) PROVE FALSE
  OBVIOUS
<1>1. PICK r \in S : e \in Places(r, Kind(types[r]))
  BY DEF HeldBy
<1>2. e[1] = s /\ e[1] = r
  BY <1>1, PlacesApart
<1> QED BY <1>1, <1>2

\* Slots that a drop may release in the state a.
Droppable(a, types, list) ==
  /\ list \in Seq(Nat \ {0})
  /\ \A m \in 1 .. Len(list) : types[list[m]] \in {"string", "strs"}
  /\ \A m, n \in 1 .. Len(list) : list[m] = list[n] => m = n
  /\ Live(a) => \A m \in 1 .. Len(list) : /\ a.env[list[m]] = Kind(types[list[m]])
                                          /\ Places(list[m], Kind(types[list[m]])) \subseteq a.held

\* The slots of a list are dropped.
LEMMA EndsDropSlots ==
  ASSUME NEW c, NEW a \in State, NEW open, NEW heads, NEW top, Ends(c, a, open, heads, top),
         NEW s, NEW list, Droppable(a, s.types, list)
  PROVE  Ends(DropSlots(c, s, list), Without(a, HeldBy(s.types, Range(list))), open, heads, top)
<1> DEFINE L == Len(list)
           D(d, n) == DropSlot(d, s.types, list[L + 1 - n])
           f == CHOOSE g : g = [n \in 0 .. L |-> IF n = 0 THEN c ELSE D(g[n - 1], n)]
           H(n) == HeldBy(s.types, {list[m] : m \in L + 1 - n .. L})
<1>1. /\ list \in Seq(Nat \ {0}) /\ L \in Nat
      /\ \A m \in 1 .. L : s.types[list[m]] \in {"string", "strs"}
      /\ \A m, n \in 1 .. L : list[m] = list[n] => m = n
      /\ Live(a) => \A m \in 1 .. L : /\ a.env[list[m]] = Kind(s.types[list[m]])
                                      /\ Places(list[m], Kind(s.types[list[m]])) \subseteq a.held
  BY DEF Droppable
<1>0. L \in Nat
  BY <1>1
<1>2. DropSlots(c, s, list) = f[L]
  BY DEF DropSlots
<1>3. f = [n \in 0 .. L |-> IF n = 0 THEN c ELSE D(f[n - 1], n)]
  <2> HIDE DEF D, L
  <2> DEFINE F(n, g) == [i \in 0 .. n |-> IF i = 0 THEN c ELSE D(g[i - 1], i)]
             T == {n \in 0 .. L : \E g : g = F(n, g)}
  <2>1. 0 \in T
    <3> DEFINE g == [i \in 0 .. 0 |-> c]
    <3>1. g = F(0, g)
      OBVIOUS
    <3>2. 0 \in 0 .. L
      BY <1>0
    <3> HIDE DEF g, F
    <3> QED BY <3>1, <3>2
  <2>2. ASSUME NEW n \in 0 .. L - 1, n \in T PROVE n + 1 \in T
    <3>1. PICK g : g = F(n, g)
      BY <2>2
    <3> DEFINE h == [i \in 0 .. n + 1 |-> IF i <= n THEN g[i] ELSE D(g[n], n + 1)]
    <3>2. h = F(n + 1, h)
      BY <3>1
    <3> HIDE DEF h, F
    <3> QED BY <1>1, <3>2
  <2> HIDE DEF T
  <2>3. 0 .. L \subseteq T
    BY <1>0, <2>1, <2>2, UpTo
  <2>4. \E g : g = F(L, g)
    BY <2>3, <1>0 DEF T
  <2> QED BY <2>4 DEF f
<1> DEFINE T == {n \in 0 .. L : Ends(f[n], Without(a, H(n)), open, heads, top)}
<1> HIDE DEF f
<1>4. 0 \in T
  <2>1. H(0) = {}
    BY <1>1 DEF HeldBy
  <2>2. Without(a, {}) = a
    BY DEF Without, State
  <2>3. f[0] = c
    BY <1>1, <1>3
  <2>4. 0 \in 0 .. L
    BY <1>0
  <2> HIDE DEF H, L
  <2> QED BY <2>1, <2>2, <2>3, <2>4
<1>5. ASSUME NEW n \in 0 .. L - 1, n \in T PROVE n + 1 \in T
  <2> DEFINE r == list[L - n]
             b == Without(a, H(n))
             type == s.types[r]
  <2>1. r \in Nat \ {0} /\ type \in {"string", "strs"} /\ L - n \in 1 .. L
    BY <1>1
  <2>2. b \in State /\ b.env = a.env /\ b.flow = a.flow /\ b.held = a.held \ H(n)
    <3> HIDE DEF H
    <3> QED BY WithoutState
  <2>3. r \notin {list[m] : m \in L + 1 - n .. L}
    BY <1>1, <2>1
  <2>4. Places(r, Kind(type)) \cap H(n) = {}
    <3> HIDE DEF r, type
    <3> QED BY <2>3, HeldApart
  <2>5. Live(b) => b.env[r] = Kind(type) /\ Places(r, Kind(type)) \subseteq b.held
    <3>1. Live(a) => a.env[r] = Kind(type) /\ Places(r, Kind(type)) \subseteq a.held
      BY <1>1, <2>1
    <3> HIDE DEF H, r, type, b
    <3> QED BY <2>2, <2>4, <3>1 DEF Live
  <2>6. f[n + 1] = D(f[n], n + 1)
    <3> HIDE DEF D
    <3> QED BY <1>1, <1>3
  <2>7. D(f[n], n + 1) = EmitDropIfOwned(MarkTop(Emit(f[n], "LoadLocal", r), "Owned"), type)
    <3>1. L + 1 - (n + 1) = L - n
      BY <1>1
    <3> QED BY <2>1, <3>1 DEF DropSlot, NeedsDrop, DropKind
  <2>8. Ends(f[n], b, open, heads, top)
    BY <1>5
  <2>9. Ends(f[n + 1], Without(b, Places(r, Kind(type))), open, heads, top)
    <3> HIDE DEF b, r, type, D
    <3>1. Ends(EmitDropIfOwned(MarkTop(Emit(f[n], "LoadLocal", r), "Owned"), type),
               Without(b, Places(r, Kind(type))), open, heads, top)
      BY <2>1, <2>2, <2>5, <2>8, EndsDropLocal
    <3> QED BY <3>1, <2>6, <2>7
  <2>10. H(n + 1) = H(n) \union Places(r, Kind(type))
    <3>1. {list[m] : m \in L + 1 - (n + 1) .. L} = {list[m] : m \in L + 1 - n .. L} \union {r}
      <4>1. L + 1 - (n + 1) .. L = (L + 1 - n .. L) \union {L - n}
        BY <1>0
      <4> QED BY <4>1
    <3>2. HeldBy(s.types, {r}) = Places(r, Kind(type))
      BY DEF HeldBy
    <3> DEFINE U == {list[m] : m \in L + 1 - n .. L}
    <3>3. HeldBy(s.types, U \union {r}) = HeldBy(s.types, U) \union HeldBy(s.types, {r})
      <4>1. PICK one : one = {r}
        OBVIOUS
      <4> HIDE DEF U, r
      <4>2. HeldBy(s.types, U \union one) = HeldBy(s.types, U) \union HeldBy(s.types, one)
        BY HeldTogether
      <4> QED BY <4>1, <4>2
    <3> QED BY <3>1, <3>2, <3>3
  <2>11. Without(b, Places(r, Kind(type))) = Without(a, H(n + 1))
    <3> HIDE DEF H, r, type
    <3> QED BY <2>10, WithoutTwice
  <2> HIDE DEF H
  <2> QED BY <1>1, <2>9, <2>11
<1>6. L \in T
  <2> HIDE DEF T
  <2>1. 0 .. L \subseteq T
    BY <1>0, <1>4, <1>5, UpTo
  <2> QED BY <2>1, <1>0
<1>7. H(L) = HeldBy(s.types, Range(list))
  <2>1. {list[m] : m \in L + 1 - L .. L} = Range(list)
    BY <1>1 DEF Range
  <2> QED BY <2>1
<1> HIDE DEF H
<1> QED BY <1>2, <1>6, <1>7

\* The scopes of an allocator: no slot is in two places of them.
Apart(types, scopes) ==
  /\ scopes \in Seq(Seq(Nat \ {0}))
  /\ \A i \in 1 .. Len(scopes) : \A m \in 1 .. Len(scopes[i]) : types[scopes[i][m]] \in {"string", "strs"}
  /\ \A i, j \in 1 .. Len(scopes) : \A m \in 1 .. Len(scopes[i]), n \in 1 .. Len(scopes[j]) :
       scopes[i][m] = scopes[j][n] => i = j /\ m = n

\* In the state a, each slot of S holds a value of its type.
Holds(a, types, S) ==
  Live(a) => \A s \in S : a.env[s] = Kind(types[s]) /\ Places(s, Kind(types[s])) \subseteq a.held

\* A scope's slots may be dropped.
LEMMA DroppableScope ==
  ASSUME NEW a, NEW types, NEW scopes, Apart(types, scopes), NEW i \in 1 .. Len(scopes),
         Holds(a, types, Range(scopes[i]))
  PROVE  Droppable(a, types, scopes[i]) /\ Range(scopes[i]) \subseteq Nat \ {0}
<1>1. scopes[i] \in Seq(Nat \ {0}) /\ DOMAIN scopes[i] = 1 .. Len(scopes[i])
  BY DEF Apart
<1>2. \A m \in 1 .. Len(scopes[i]) : scopes[i][m] \in Range(scopes[i])
  BY <1>1 DEF Range
<1>3. /\ \A m \in 1 .. Len(scopes[i]) : types[scopes[i][m]] \in {"string", "strs"}
      /\ \A m, n \in 1 .. Len(scopes[i]) : scopes[i][m] = scopes[i][n] => m = n
  BY DEF Apart
<1>4. Live(a) => \A m \in 1 .. Len(scopes[i]) :
                   /\ a.env[scopes[i][m]] = Kind(types[scopes[i][m]])
                   /\ Places(scopes[i][m], Kind(types[scopes[i][m]])) \subseteq a.held
  BY <1>2 DEF Holds
<1>5. Range(scopes[i]) \subseteq Nat \ {0}
  BY <1>1 DEF Range
<1> HIDE DEF Range
<1> QED BY <1>1, <1>3, <1>4, <1>5 DEF Droppable

\* The slots of a scope and of those inside it.
LEMMA WithinMore ==
  ASSUME NEW scopes, NEW i \in Int, NEW j \in Int, i <= j
  PROVE  Within(scopes, i, j) = Within(scopes, i + 1, j) \union Range(scopes[i])
<1>1. i .. j = (i + 1 .. j) \union {i}
  OBVIOUS
<1> QED BY <1>1 DEF Within

\* And of those outside it.
LEMMA WithinLess ==
  ASSUME NEW scopes, NEW i \in Int, NEW j \in Int, i <= j
  PROVE  Within(scopes, i, j) = Within(scopes, i, j - 1) \union Range(scopes[j])
<1>1. i .. j = (i .. j - 1) \union {j}
  OBVIOUS
<1> QED BY <1>1 DEF Within

\* No slot of a scope is in another.
LEMMA ScopesApart ==
  ASSUME NEW types, NEW scopes, Apart(types, scopes), NEW i \in 1 .. Len(scopes),
         NEW j \in Int, NEW k \in Int, 1 <= j, k <= Len(scopes), i \notin j .. k
  PROVE  Range(scopes[i]) \cap Within(scopes, j, k) = {}
<1> SUFFICES ASSUME NEW s \in Range(scopes[i]), s \in Within(scopes, j, k) PROVE FALSE
  OBVIOUS
<1>1. PICK l \in j .. k : s \in Range(scopes[l])
  BY DEF Within
<1>2. l \in 1 .. Len(scopes) /\ Len(scopes) \in Nat
  BY <1>1 DEF Apart
<1>3. scopes[i] \in Seq(Nat \ {0}) /\ scopes[l] \in Seq(Nat \ {0})
  BY <1>2 DEF Apart
<1>4. PICK m \in 1 .. Len(scopes[i]) : s = scopes[i][m]
  BY <1>3 DEF Range
<1>5. PICK n \in 1 .. Len(scopes[l]) : s = scopes[l][n]
  BY <1>1, <1>3 DEF Range
<1>6. i = l
  BY <1>2, <1>4, <1>5 DEF Apart
<1> QED BY <1>1, <1>6

\* What sets of slots that have none in common hold.
LEMMA SetsApart ==
  ASSUME NEW types, NEW S, NEW T, S \cap T = {}
  PROVE  HeldBy(types, S) \cap HeldBy(types, T) = {}
<1> SUFFICES ASSUME NEW e \in HeldBy(types, S), e \in HeldBy(types, T) PROVE FALSE
  OBVIOUS
<1>1. PICK s \in S : e \in Places(s, Kind(types[s]))
  BY DEF HeldBy
<1>2. s \notin T
  BY <1>1
<1> QED BY <1>1, <1>2, HeldApart

\* The scopes inside the scope "target" are dropped.
LEMMA EndsDropScopes ==
  ASSUME NEW c, NEW a \in State, NEW open, NEW heads, NEW top, Ends(c, a, open, heads, top),
         NEW s, Apart(s.types, s.scopes), NEW target \in 0 .. Len(s.scopes),
         Holds(a, s.types, Within(s.scopes, target + 1, Len(s.scopes)))
  PROVE  Ends(DropScopes(c, s, target),
              Without(a, HeldBy(s.types, Within(s.scopes, target + 1, Len(s.scopes)))), open, heads, top)
<1> DEFINE N == Len(s.scopes)
           L == N - target
           D(d, n) == DropSlots(d, s, s.scopes[N + 1 - n])
           f == CHOOSE g : g = [n \in 0 .. L |-> IF n = 0 THEN c ELSE D(g[n - 1], n)]
           W(n) == Within(s.scopes, N + 1 - n, N)
           H(n) == HeldBy(s.types, W(n))
<1>1. N \in Nat /\ L \in Nat /\ target \in Nat /\ L <= N
  BY DEF Apart
<1>2. DropScopes(c, s, target) = f[L]
  BY DEF DropScopes
<1>3. f = [n \in 0 .. L |-> IF n = 0 THEN c ELSE D(f[n - 1], n)]
  <2> HIDE DEF D, L
  <2> DEFINE F(n, g) == [i \in 0 .. n |-> IF i = 0 THEN c ELSE D(g[i - 1], i)]
             T == {n \in 0 .. L : \E g : g = F(n, g)}
  <2>1. 0 \in T
    <3> DEFINE g == [i \in 0 .. 0 |-> c]
    <3>1. g = F(0, g)
      OBVIOUS
    <3>2. 0 \in 0 .. L
      BY <1>1
    <3> HIDE DEF g, F
    <3> QED BY <3>1, <3>2
  <2>2. ASSUME NEW n \in 0 .. L - 1, n \in T PROVE n + 1 \in T
    <3>1. PICK g : g = F(n, g)
      BY <2>2
    <3> DEFINE h == [i \in 0 .. n + 1 |-> IF i <= n THEN g[i] ELSE D(g[n], n + 1)]
    <3>2. h = F(n + 1, h)
      BY <3>1
    <3> HIDE DEF h, F
    <3> QED BY <1>1, <3>2
  <2> HIDE DEF T
  <2>3. 0 .. L \subseteq T
    BY <1>1, <2>1, <2>2, UpTo
  <2>4. L \in T
    BY <2>3, <1>1
  <2>5. \E g : g = F(L, g)
    BY <2>4 DEF T
  <2> QED BY <2>5 DEF f
<1> DEFINE T == {n \in 0 .. L : Ends(f[n], Without(a, H(n)), open, heads, top)}
<1> HIDE DEF f
<1>4. 0 \in T
  <2>1. H(0) = {}
    <3>1. N + 1 - 0 .. N = {}
      BY <1>1
    <3> QED BY <3>1 DEF HeldBy, Within
  <2>2. Without(a, {}) = a
    BY DEF Without, State
  <2>3. f[0] = c
    BY <1>1, <1>3
  <2>4. 0 \in 0 .. L
    BY <1>1
  <2> HIDE DEF H, L
  <2> QED BY <2>1, <2>2, <2>3, <2>4
<1>5. ASSUME NEW n \in 0 .. L - 1, n \in T PROVE n + 1 \in T
  <2> DEFINE i == N - n
             b == Without(a, H(n))
             R == Range(s.scopes[i])
  <2>1. i \in 1 .. N /\ i \in target + 1 .. N /\ N + 1 - (n + 1) = i /\ N + 1 - n = i + 1 /\ i \in Int /\ N \in Int /\ i <= N
    <3> HIDE DEF N
    <3>1. n \in 0 .. (N - target) - 1 /\ N \in Nat /\ target \in Nat
      BY <1>1
    <3> QED BY <3>1
  <2>2. b \in State /\ b.env = a.env /\ b.flow = a.flow /\ b.held = a.held \ H(n)
    <3> HIDE DEF H
    <3> QED BY WithoutState
  <2>3. W(n + 1) = W(n) \union R
    <3> HIDE DEF i, N
    <3> QED BY <2>1, WithinMore
  <2>4. R \cap W(n) = {}
    <3> HIDE DEF i
    <3>1. 1 <= i + 1 /\ i \notin i + 1 .. N /\ i + 1 \in Int /\ N <= Len(s.scopes)
      BY <2>1
    <3> QED BY <2>1, <3>1, ScopesApart
  <2>5. R \subseteq Within(s.scopes, target + 1, N)
    BY <2>1 DEF Within
  <2>6. Holds(b, s.types, R)
    <3> SUFFICES ASSUME Live(b), NEW r \in R
                 PROVE  b.env[r] = Kind(s.types[r]) /\ Places(r, Kind(s.types[r])) \subseteq b.held
      BY DEF Holds
    <3>1. Live(a)
      BY <2>2 DEF Live
    <3>2. a.env[r] = Kind(s.types[r]) /\ Places(r, Kind(s.types[r])) \subseteq a.held
      BY <2>5, <3>1 DEF Holds
    <3>3. r \notin W(n)
      BY <2>4
    <3>4. Places(r, Kind(s.types[r])) \cap H(n) = {}
      <4> HIDE DEF W
      <4> QED BY <3>3, HeldApart
    <3> HIDE DEF H, b
    <3> QED BY <2>2, <3>2, <3>4
  <2>7. f[n + 1] = D(f[n], n + 1)
    <3> HIDE DEF D
    <3> QED BY <1>1, <1>3
  <2>8. D(f[n], n + 1) = DropSlots(f[n], s, s.scopes[i])
    BY <2>1
  <2>9. Ends(f[n], b, open, heads, top)
    BY <1>5
  <2>10. Droppable(b, s.types, s.scopes[i])
    <3> HIDE DEF i, b
    <3> QED BY <2>1, <2>6, DroppableScope
  <2>11. Ends(f[n + 1], Without(b, HeldBy(s.types, R)), open, heads, top)
    <3> HIDE DEF b, i, D
    <3> QED BY <2>2, <2>7, <2>8, <2>9, <2>10, EndsDropSlots
  <2>12. H(n + 1) = H(n) \union HeldBy(s.types, R)
    <3> HIDE DEF W, R
    <3> QED BY <2>3, HeldTogether
  <2>13. Without(b, HeldBy(s.types, R)) = Without(a, H(n + 1))
    <3> HIDE DEF H, R
    <3> QED BY <2>12, WithoutTwice
  <2> HIDE DEF H
  <2> QED BY <1>1, <2>11, <2>13
<1>6. L \in T
  <2> HIDE DEF T
  <2>1. 0 .. L \subseteq T
    BY <1>1, <1>4, <1>5, UpTo
  <2> QED BY <2>1, <1>1
<1>7. W(L) = Within(s.scopes, target + 1, N)
  <2>1. N + 1 - L = target + 1
    BY <1>1
  <2> QED BY <2>1
<1> HIDE DEF W
<1> QED BY <1>2, <1>6, <1>7

-----------------------------------------------------------------------------
(* Expressions                                                             *)

\* Where an instruction is put.
LEMMA NotedCode ==
  ASSUME NEW c, NEW a, NEW open, NEW heads, NEW top, Ends(c, a, open, heads, top),
         NEW op, NEW arg, NEW pops, NEW pushes
  PROVE  /\ Len(Noted(c, op, arg, pops, pushes).code) = Here(c)
         /\ Here(c) \notin DOMAIN open /\ Here(c) \in Nat
<1>1. PICK notes : Sound(c, notes, open, heads, top)
  BY DEF Ends
<1>2. c \in Ctx /\ Len(c.code) \in Nat /\ c.code \in Seq(Instr) /\ DOMAIN open \subseteq 1 .. Len(c.code)
  BY <1>1 DEF Sound, Balanced, Ctx
<1>3. Noted(c, op, arg, pops, pushes).code = Append(c.code, [op |-> op, arg |-> arg])
  BY <1>2 DEF Noted, NoteStackEffect, Ctx
<1> QED BY <1>2, <1>3 DEF Here

\* One placeholder whose state leads to the state here is patched to jump here.
LEMMA EndsPatchedOne ==
  ASSUME NEW c, NEW a, NEW open, NEW heads, NEW top, Ends(c, a, open, heads, top),
         NEW at \in DOMAIN open, Leads(open[at], a)
  PROVE  Ends(PatchTo(c, at, Here(c)), a, [p \in DOMAIN open \ {at} |-> open[p]], heads, top)
<1>1. PICK notes : Sound(c, notes, open, heads, top)
  BY DEF Ends
<1>2. c \in Ctx /\ c.code \in Seq(Instr) /\ at \in DOMAIN c.code
  BY <1>1 DEF Sound, Balanced, Ctx
<1>3. [c.code EXCEPT ![at].arg = Here(c)] =
      [i \in DOMAIN c.code |-> IF i \in {at} THEN [c.code[i] EXCEPT !.arg = Here(c)] ELSE c.code[i]]
  BY <1>2
<1>4. PatchTo(c, at, Here(c)) = PatchAllToHere(c, {at})
  BY <1>3 DEF PatchTo, PatchAllToHere
<1> DEFINE ats == {at}
<1>5. ats \in SUBSET DOMAIN open /\ \A p \in ats : Leads(open[p], a)
  OBVIOUS
<1>6. Ends(PatchAllToHere(c, ats), a, [p \in DOMAIN open \ ats |-> open[p]], heads, top)
  <2> HIDE DEF ats
  <2> QED BY <1>5, EndsPatched
<1> QED BY <1>4, <1>6

\* A call that returns a string, of a function without parameters or with a string.
LEMMA EndsCall ==
  ASSUME NEW c, NEW a \in State, NEW open, NEW heads, NEW top, NEW n \in {0, 1},
         Ends(c, IF n = 0 THEN a ELSE Push(a, A("string")), open, heads, top)
  PROVE  Ends(EmitCall(c, n, "string"), Push(a, A("string")), open, heads, top)
<1> DEFINE p == IF n = 0 THEN a ELSE Push(a, A("string"))
           b == Push(a, A("string"))
           arg == [args |-> n, ret |-> "string"]
           d == NoteStackEffect(Emit(c, "Call", arg), n, 1)
<1>1. A("string") \in Entry /\ A("string").k = "string"
  BY Entries
<1>2. /\ b \in State /\ b.h = a.h + 1 /\ TopOf(b) = A("string") /\ b.flow = a.flow /\ b.env = a.env
      /\ b.held = a.held /\ a.h \in Nat /\ \A j \in 1 .. a.h : b.tag[j] = a.tag[j]
  BY <1>1, PushState
<1>3. p \in State /\ p.h = a.h + n
  BY <1>2
<1>4. d = Noted(c, "Call", arg, n, 1)
  BY EmitNotes
<1>5. Fits("Call", arg, p)
  <2>1. CASE n = 0
    BY <2>1 DEF Fits
  <2>2. CASE n = 1
    <3>1. p.h >= 1 /\ TopOf(p).k = "string"
      BY <1>1, <1>2, <2>2
    <3> QED BY <2>2, <3>1 DEF Fits
  <2> QED BY <2>1, <2>2
<1>6. Leads(After("Call", arg, p), b)
  <2>1. After("Call", arg, p) = Push(Pop(p, n), A("string"))
    BY DEF After
  <2>2. CASE n = 0
    <3>1. Pop(p, n) = a
      BY <1>2, <2>2 DEF Pop, State
    <3> HIDE DEF p, b
    <3> QED BY <2>1, <3>1, <1>2, LeadsSelf DEF b
  <2>3. CASE n = 1
    <3> DEFINE x == Pop(b, 1)
    <3>1. x \in State /\ x.h = a.h /\ x.tag = b.tag /\ x.env = b.env /\ x.held = b.held /\ x.flow = b.flow
      BY <1>2 DEF Pop, State
    <3> HIDE DEF x
    <3> DEFINE y == Push(x, A("string"))
    <3>2. /\ y.h = a.h + 1 /\ TopOf(y) = A("string") /\ y.env = b.env /\ y.held = b.held
          /\ y.flow = b.flow /\ \A j \in 1 .. a.h : y.tag[j] = b.tag[j]
      BY <1>1, <3>1, PushState
    <3>3. After("Call", arg, p) = y
      BY <2>1, <2>3 DEF x
    <3> HIDE DEF y, b
    <3>4. y.tag[a.h + 1] = b.tag[a.h + 1]
      BY <1>2, <3>2 DEF TopOf
    <3>5. \A j \in 1 .. y.h : b.tag[j] = y.tag[j]
      BY <1>2, <3>2, <3>4
    <3> QED BY <1>2, <3>2, <3>3, <3>5 DEF Leads, Live
  <2> QED BY <2>2, <2>3
<1>7. Ends(d, b, open, heads, top)
  <2>1. /\ "Call" \in Ops \ Jumps /\ "Call" # "StoreLocal" /\ b.h = p.h - n + 1 /\ n <= p.h /\ n \in Nat /\ 1 \in Nat
    BY <1>2, <1>3 DEF Ops, Jumps
  <2>2. arg \in Args
    BY DEF Args
  <2> HIDE DEF b, d, p, arg
  <2> QED BY <1>2, <1>3, <1>4, <1>5, <1>6, <2>1, <2>2, EndsNext DEF p
<1>8. EmitCall(c, n, "string") = MarkTop(d, "Owned")
  BY DEF EmitCall, MarkIfOwner, NeedsDrop, DropKind
<1> HIDE DEF b, d
<1>9. Ends(MarkTop(d, "Owned"), b, open, heads, top)
  BY <1>2, <1>7, EndsMarked DEF Marks
<1> QED BY <1>8, <1>9 DEF b

\* An array of strings.
LEMMA EndsArray ==
  ASSUME NEW c, NEW a \in State, NEW open, NEW heads, NEW top, Ends(c, a, open, heads, top)
  PROVE  Ends(EmitArrayLiteral(c), Push(a, A("strs")), open, heads, top)
<1> DEFINE S(d) == Literal(d, ElementType)
           f == CHOOSE g : g = [n \in 0 .. ArrayLength |-> IF n = 0 THEN c ELSE S(g[n - 1])]
           d == NoteStackEffect(Emit(f[ArrayLength], "NewFixedArray", ArrayLength), ArrayLength, 1)
           p == Push(a, A("string"))
           q == Push(p, A("string"))
           b == Push(a, A("strs"))
<1>1. f = [n \in 0 .. ArrayLength |-> IF n = 0 THEN c ELSE S(f[n - 1])]
  <2> DEFINE g == [n \in 0 .. ArrayLength |-> IF n = 0 THEN c ELSE IF n = 1 THEN S(c) ELSE S(S(c))]
  <2> HIDE DEF S
  <2>1. g = [n \in 0 .. ArrayLength |-> IF n = 0 THEN c ELSE S(g[n - 1])]
    BY DEF ArrayLength
  <2> HIDE DEF g
  <2> QED BY <2>1
<1>2. EmitArrayLiteral(c) = MarkTop(d, "Owned")
  BY DEF EmitArrayLiteral, MarkIfOwner, NeedsDrop, DropKind
<1> HIDE DEF f
<1>3. f[2] = S(S(c))
  <2> HIDE DEF S
  <2> QED BY <1>1 DEF ArrayLength
<1>4. /\ A("string") \in Entry /\ A("string").k = "string" /\ A("strs") \in Entry
      /\ Kind("string") = "string"
  BY Entries DEF Kind
<1>5. /\ p \in State /\ p.h = a.h + 1 /\ TopOf(p) = A("string") /\ p.flow = a.flow /\ p.env = a.env
      /\ p.held = a.held /\ a.h \in Nat /\ \A j \in 1 .. a.h : p.tag[j] = a.tag[j]
  BY <1>4, PushState
<1>6. Ends(S(c), p, open, heads, top)
  BY <1>4, EndsConst DEF ElementType
<1> HIDE DEF p
<1>7. /\ q \in State /\ q.h = p.h + 1 /\ TopOf(q) = A("string") /\ q.flow = p.flow /\ q.env = p.env
      /\ q.held = p.held /\ \A j \in 1 .. p.h : q.tag[j] = p.tag[j]
  BY <1>4, <1>5, PushState
<1>8. Ends(f[2], q, open, heads, top)
  <2> HIDE DEF S
  <2>1. Ends(S(S(c)), Push(p, A(Kind("string"))), open, heads, top)
    BY <1>5, <1>6, EndsConst DEF ElementType, S
  <2> QED BY <1>3, <1>4, <2>1
<1>9. /\ b \in State /\ b.h = a.h + 1 /\ TopOf(b) = A("strs") /\ b.flow = a.flow /\ b.env = a.env
      /\ b.held = a.held /\ \A j \in 1 .. a.h : b.tag[j] = a.tag[j]
  BY <1>4, PushState
<1> HIDE DEF q, b, S
<1>10. Fits("NewFixedArray", 2, q)
  <2>1. q.tag[a.h + 2] = A("string") /\ q.tag[a.h + 1] = A("string")
    BY <1>5, <1>7 DEF TopOf
  <2>2. \A j \in q.h - 2 + 1 .. q.h : j = a.h + 1 \/ j = a.h + 2
    BY <1>5, <1>7
  <2> QED BY <1>4, <1>5, <1>7, <2>1, <2>2 DEF Fits, ArrayLength
<1>11. Leads(After("NewFixedArray", 2, q), b)
  <2> DEFINE x == Pop(q, 2)
             y == Push(x, A("strs"))
  <2>1. x \in State /\ x.h = a.h /\ x.tag = q.tag /\ x.env = q.env /\ x.held = q.held /\ x.flow = q.flow
    BY <1>5, <1>7 DEF Pop, State
  <2>2. After("NewFixedArray", 2, q) = y
    BY DEF After, ArrayLength
  <2> HIDE DEF x
  <2>3. /\ y.h = a.h + 1 /\ TopOf(y) = A("strs") /\ y.env = q.env /\ y.held = q.held /\ y.flow = q.flow
        /\ \A j \in 1 .. a.h : y.tag[j] = q.tag[j]
    BY <1>4, <2>1, PushState
  <2> HIDE DEF y
  <2>4. b.tag[a.h + 1] = y.tag[a.h + 1]
    BY <1>5, <1>9, <2>3 DEF TopOf
  <2>5. \A j \in 1 .. a.h : b.tag[j] = y.tag[j]
    BY <1>5, <1>7, <1>9, <2>3
  <2>6. \A j \in 1 .. y.h : b.tag[j] = y.tag[j]
    BY <1>5, <2>3, <2>4, <2>5
  <2> QED BY <1>5, <1>7, <1>9, <2>2, <2>3, <2>6 DEF Leads, Live
<1>12. Ends(d, b, open, heads, top)
  <2>1. d = Noted(f[2], "NewFixedArray", 2, 2, 1)
    BY EmitNotes DEF ArrayLength
  <2>2. /\ "NewFixedArray" \in Ops \ Jumps /\ "NewFixedArray" # "StoreLocal" /\ 2 \in Args /\ b.h = q.h - 2 + 1
        /\ 2 <= q.h
    BY <1>5, <1>7, <1>9 DEF Ops, Jumps, Args
  <2> HIDE DEF d
  <2> QED BY <1>7, <1>8, <1>9, <1>10, <1>11, <2>1, <2>2, EndsNext
<1> HIDE DEF d
<1>13. Ends(MarkTop(d, "Owned"), b, open, heads, top)
  BY <1>5, <1>9, <1>12, EndsMarked DEF Marks
<1> QED BY <1>2, <1>13 DEF b

\* left ?? right: the right operand replaces a nil left one.
LEMMA EndsCoalesce ==
  ASSUME NEW c, NEW a \in State, NEW open, NEW heads, NEW top, Ends(c, a, open, heads, top),
         open = [p \in DOMAIN open |-> open[p]]
  PROVE  Ends(EmitCoalesce(c), Push(a, A("string")), open, heads, top)
<1> DEFINE arg == [args |-> 0, ret |-> "nullable"]
           left  == NoteStackEffect(Emit(c, "Call", arg), 0, 1)
           copy  == Emit(MarkTop(left, "Owned"), "Dup", 0)
           isnil == Emit(copy, "IsNil", 0)
           test  == Emit(isnil, "JumpIfFalse", 0)
           popped == Emit(test, "Pop", 0)
           right == Literal(popped, "string")
           p1 == Push(a, A("maybe"))
           p2 == Push(p1, A("copy"))
           p3 == Push(p1, A("isnil"))
           no == Push(a, A("nil"))
           b  == Push(a, A("string"))
           h  == Here(isnil)
           open2 == Opened(open, h, b)
<1>1. /\ \A k \in {"maybe", "copy", "isnil", "nil", "string"} : A(k) \in Entry /\ A(k).k = k
      /\ Kind("string") = "string"
  BY Entries DEF Kind
<1>2. EmitCoalesce(c) = PatchTo(right, Len(test.code), Here(right))
  BY DEF EmitCoalesce
<1>3. /\ p1 \in State /\ p1.h = a.h + 1 /\ TopOf(p1) = A("maybe") /\ p1.flow = a.flow /\ p1.env = a.env
      /\ p1.held = a.held /\ a.h \in Nat /\ \A j \in 1 .. a.h : p1.tag[j] = a.tag[j]
  BY <1>1, PushState
<1>4. /\ no \in State /\ no.h = a.h + 1 /\ TopOf(no) = A("nil") /\ no.flow = a.flow /\ no.env = a.env
      /\ no.held = a.held /\ a.h \in Nat /\ \A j \in 1 .. a.h : no.tag[j] = a.tag[j]
  BY <1>1, PushState
<1>5. /\ b \in State /\ b.h = a.h + 1 /\ TopOf(b) = A("string") /\ b.flow = a.flow /\ b.env = a.env
      /\ b.held = a.held /\ a.h \in Nat /\ \A j \in 1 .. a.h : b.tag[j] = a.tag[j]
  BY <1>1, PushState
<1>6. Ends(left, p1, open, heads, top)
  <2>1. left = Noted(c, "Call", arg, 0, 1)
    BY EmitNotes
  <2>2. Fits("Call", arg, a)
    BY DEF Fits
  <2>3. After("Call", arg, a) = p1
    <3>1. After("Call", arg, a) = Push(Pop(a, 0), A("maybe"))
      BY DEF After
    <3>2. Pop(a, 0) = a
      BY <1>3 DEF Pop, State
    <3> QED BY <3>1, <3>2
  <2>4. /\ "Call" \in Ops \ Jumps /\ "Call" # "StoreLocal" /\ p1.h = a.h - 0 + 1 /\ 0 <= a.h /\ arg \in Args
        /\ Leads(p1, p1)
    BY <1>3, LeadsSelf DEF Ops, Jumps, Args
  <2> HIDE DEF left, p1, arg
  <2> QED BY <1>3, <2>1, <2>2, <2>3, <2>4, EndsNext
<1> HIDE DEF left, p1
<1>7. Ends(MarkTop(left, "Owned"), p1, open, heads, top)
  BY <1>3, <1>6, EndsMarked DEF Marks
<1>8. /\ p2 \in State /\ p2.h = p1.h + 1 /\ TopOf(p2) = A("copy") /\ p2.flow = p1.flow /\ p2.env = p1.env
      /\ p2.held = p1.held /\ \A j \in 1 .. p1.h : p2.tag[j] = p1.tag[j]
  BY <1>1, <1>3, PushState
<1>9. /\ p3 \in State /\ p3.h = p1.h + 1 /\ TopOf(p3) = A("isnil") /\ p3.flow = p1.flow /\ p3.env = p1.env
      /\ p3.held = p1.held /\ \A j \in 1 .. p1.h : p3.tag[j] = p1.tag[j]
  BY <1>1, <1>3, PushState
<1>10. Ends(copy, p2, open, heads, top)
  <2>1. copy = Noted(MarkTop(left, "Owned"), "Dup", 0, 0, 1)
    BY EmitNotes
  <2>2. Fits("Dup", 0, p1) /\ After("Dup", 0, p1) = p2
    BY <1>1, <1>3 DEF Fits, After
  <2>3. "Dup" \in Ops \ Jumps /\ "Dup" # "StoreLocal" /\ p2.h = p1.h - 0 + 1 /\ 0 <= p1.h /\ 0 \in Args /\ Leads(p2, p2)
    BY <1>3, <1>8, LeadsSelf DEF Ops, Jumps, Args
  <2> HIDE DEF p2, copy
  <2> QED BY <1>3, <1>7, <1>8, <2>1, <2>2, <2>3, EndsNext
<1> HIDE DEF p2, p3, copy, no, b
<1>11. Under(p2) = A("maybe") /\ Under(p3) = A("maybe")
  <2>1. p2.h - 1 = p1.h /\ p3.h - 1 = p1.h /\ p1.h \in 1 .. p1.h /\ p1.tag[p1.h] = A("maybe")
    BY <1>3, <1>8, <1>9 DEF TopOf
  <2> QED BY <1>8, <1>9, <2>1 DEF Under
<1>12. Ends(isnil, p3, open, heads, top)
  <2>1. isnil = Noted(copy, "IsNil", 0, 1, 1)
    BY EmitNotes
  <2>2. Fits("IsNil", 0, p2)
    BY <1>1, <1>3, <1>8, <1>11 DEF Fits
  <2>3. Leads(After("IsNil", 0, p2), p3)
    <3> DEFINE x == After("IsNil", 0, p2)
    <3>1. x = Named(p2, A("isnil"))
      BY DEF After
    <3>2. x.flow = p2.flow /\ x.h = p2.h /\ x.env = p2.env /\ x.held = p2.held /\ x.tag = [p2.tag EXCEPT ![p2.h] = A("isnil")]
      BY <3>1, <1>8 DEF Named, State
    <3>3. p2.tag \in [Nat -> Entry] /\ p3.tag[p3.h] = A("isnil") /\ p2.h \in Nat
      BY <1>3, <1>8, <1>9 DEF State, TopOf
    <3> HIDE DEF x
    <3>4. \A j \in 1 .. p1.h : p3.tag[j] = p2.tag[j]
      BY <1>8, <1>9
    <3>5. \A j \in 1 .. p1.h + 1 : p3.tag[j] = x.tag[j]
      BY <1>3, <1>8, <1>9, <3>2, <3>3, <3>4
    <3>6. x.h = p1.h + 1 /\ x.flow = p3.flow /\ x.env = p3.env /\ x.held = p3.held
      BY <1>8, <1>9, <3>2
    <3>7. Leads(x, p3)
      BY <1>9, <3>5, <3>6 DEF Leads, Live
    <3> QED BY <3>7 DEF x
  <2>4. "IsNil" \in Ops \ Jumps /\ "IsNil" # "StoreLocal" /\ p3.h = p2.h - 1 + 1 /\ 1 <= p2.h /\ 0 \in Args
    BY <1>3, <1>8, <1>9 DEF Ops, Jumps, Args
  <2> HIDE DEF isnil
  <2> QED BY <1>8, <1>9, <1>10, <2>1, <2>2, <2>3, <2>4, EndsNext
<1> HIDE DEF isnil
<1>13. Ends(test, no, open2, heads, top)
  <2>1. test = Noted(isnil, "JumpIfFalse", 0, 1, 0)
    BY EmitNotes
  <2>2. Fits("JumpIfFalse", 0, p3)
    BY <1>1, <1>3, <1>9, <1>11 DEF Fits
  <2>3. /\ Taken("JumpIfFalse", p3) = Named(Pop(p3, 1), A("string"))
        /\ After("JumpIfFalse", 0, p3) = Named(Pop(p3, 1), A("nil"))
    BY <1>1, <1>9 DEF Taken, After
  <2>4. ASSUME NEW k \in {"nil", "string"}, NEW z \in State, z.h = a.h + 1, TopOf(z) = A(k), z.flow = a.flow,
               z.env = a.env, z.held = a.held, \A j \in 1 .. a.h : z.tag[j] = a.tag[j]
        PROVE  Leads(Named(Pop(p3, 1), A(k)), z)
    <3> DEFINE x == Named(Pop(p3, 1), A(k))
    <3>1. /\ x.flow = p3.flow /\ x.h = p3.h - 1 /\ x.env = p3.env /\ x.held = p3.held
          /\ x.tag = [p3.tag EXCEPT ![p3.h - 1] = A(k)]
      BY <1>9 DEF Named, Pop, State
    <3>2. p3.tag \in [Nat -> Entry] /\ z.tag[a.h + 1] = A(k) /\ p3.h - 1 = a.h + 1
      BY <1>3, <1>9, <2>4 DEF State, TopOf
    <3>3. \A j \in 1 .. a.h : z.tag[j] = p3.tag[j]
      BY <1>3, <1>9, <2>4
    <3> HIDE DEF x
    <3>4. \A j \in 1 .. a.h + 1 : z.tag[j] = x.tag[j]
      BY <3>1, <3>2, <3>3, <1>3
    <3>5. x.h = a.h + 1 /\ x.flow = z.flow /\ x.env = z.env /\ x.held = z.held
      BY <1>3, <1>9, <2>4, <3>1, <3>2
    <3>6. Leads(x, z)
      BY <2>4, <3>4, <3>5 DEF Leads, Live
    <3> QED BY <3>6 DEF x
  <2>5. Leads(Taken("JumpIfFalse", p3), b) /\ Leads(After("JumpIfFalse", 0, p3), no)
    BY <1>4, <1>5, <2>3, <2>4
  <2>6. "JumpIfFalse" \in Jumps /\ no.h = p3.h - 1 /\ 1 <= p3.h /\ 1 \in Nat
    BY <1>3, <1>4, <1>9 DEF Jumps
  <2> HIDE DEF test
  <2> QED BY <1>4, <1>5, <1>9, <1>12, <2>1, <2>2, <2>5, <2>6, EndsOpen
<1>14. Len(test.code) = h /\ h \notin DOMAIN open
  <2>1. test = Noted(isnil, "JumpIfFalse", 0, 1, 0)
    BY EmitNotes
  <2> HIDE DEF test
  <2> QED BY <1>12, <2>1, NotedCode
<1> HIDE DEF test
<1>15. Ends(popped, a, open2, heads, top)
  <2>1. "nil" \notin {"string", "strs", "maybe"}
    OBVIOUS
  <2> HIDE DEF open2
  <2> QED BY <1>1, <1>13, <2>1, EndsPop DEF no
<1>16. Ends(right, b, open2, heads, top)
  <2> HIDE DEF popped, open2
  <2> QED BY <1>1, <1>15, EndsConst DEF b
<1> HIDE DEF right
<1>17. Ends(PatchTo(right, h, Here(right)), b, [p \in DOMAIN open2 \ {h} |-> open2[p]], heads, top)
  <2>1. h \in DOMAIN open2 /\ open2[h] = b
    BY DEF Opened
  <2>2. Leads(open2[h], b)
    BY <1>5, <2>1, LeadsSelf
  <2> HIDE DEF open2, h
  <2> QED BY <1>16, <2>1, <2>2, EndsPatchedOne
<1>18. [p \in DOMAIN open2 \ {h} |-> open2[p]] = open
  <2>1. DOMAIN open2 \ {h} = DOMAIN open
    BY <1>14 DEF Opened
  <2>2. [p \in DOMAIN open2 \ {h} |-> open2[p]] = [p \in DOMAIN open |-> open[p]]
    BY <2>1, <1>14 DEF Opened
  <2> QED BY <2>2
<1> HIDE DEF open2, h
<1> QED BY <1>2, <1>14, <1>17, <1>18 DEF b

\* An expression of a type that the body may use, where what it reads is there.
Readable(a, e, type) ==
  \/ e = [form |-> "condition", type |-> "bool"] /\ type = "bool"
  \/ e \in [form : {"literal", "call", "call_arg", "coalesce"}, type : {"string"}] /\ type = "string"
  \/ e = [form |-> "array", type |-> "strs"] /\ type = "strs"
  \/ /\ e.form = "name" /\ slots.of[e.name] \in Nat \ {0} /\ slots.types[slots.of[e.name]] = type
     /\ type \in {"int", "bool", "row"}
     /\ Live(a) => a.env[slots.of[e.name]] = "data"

\* An expression leaves its value on the stack.
LEMMA EndsExpr ==
  ASSUME NEW c, NEW a \in State, NEW open, NEW heads, NEW top, Ends(c, a, open, heads, top),
         open = [p \in DOMAIN open |-> open[p]], NEW e, NEW type, Readable(a, e, type)
  PROVE  Ends(EmitExpr(c, e), Push(a, A(Kind(type))), open, heads, top)
<1>1. Kind("string") = "string" /\ Kind("strs") = "strs" /\ Kind("bool") = "data" /\ Kind("int") = "data" /\ Kind("row") = "data"
  BY DEF Kind
<1>2. CASE e = [form |-> "condition", type |-> "bool"] /\ type = "bool"
  <2>1. EmitExpr(c, e) = Literal(c, "bool")
    BY <1>2 DEF EmitExpr
  <2> QED BY <1>2, <2>1, EndsConst
<1>3. CASE e \in [form : {"literal", "call", "call_arg", "coalesce"}, type : {"string"}] /\ type = "string"
  <2>0. e.form \in {"literal", "call", "call_arg", "coalesce"} /\ e.type = "string"
    BY <1>3
  <2>1. CASE e.form = "literal"
    <3>1. EmitExpr(c, e) = Literal(c, "string")
      BY <2>0, <2>1 DEF EmitExpr
    <3> QED BY <1>3, <3>1, EndsConst
  <2>2. CASE e.form = "call"
    <3>1. EmitExpr(c, e) = EmitCall(c, 0, "string")
      BY <2>0, <2>2 DEF EmitExpr
    <3> QED BY <1>1, <1>3, <3>1, EndsCall
  <2>3. CASE e.form = "call_arg"
    <3>1. EmitExpr(c, e) = EmitCall(Literal(c, "string"), 1, "string")
      BY <2>0, <2>3 DEF EmitExpr
    <3>2. Ends(Literal(c, "string"), Push(a, A("string")), open, heads, top)
      BY <1>1, EndsConst
    <3> QED BY <1>1, <1>3, <3>1, <3>2, EndsCall
  <2>4. CASE e.form = "coalesce"
    <3>1. EmitExpr(c, e) = EmitCoalesce(c)
      BY <2>0, <2>4 DEF EmitExpr
    <3> QED BY <1>1, <1>3, <3>1, EndsCoalesce
  <2> QED BY <2>0, <2>1, <2>2, <2>3, <2>4
<1>4. CASE e = [form |-> "array", type |-> "strs"] /\ type = "strs"
  <2>1. EmitExpr(c, e) = EmitArrayLiteral(c)
    BY <1>4 DEF EmitExpr
  <2> QED BY <1>1, <1>4, <2>1, EndsArray
<1>5. CASE /\ e.form = "name" /\ slots.of[e.name] \in Nat \ {0} /\ slots.types[slots.of[e.name]] = type
           /\ type \in {"int", "bool", "row"}
           /\ Live(a) => a.env[slots.of[e.name]] = "data"
  <2> DEFINE s == slots.of[e.name]
  <2>1. EmitExpr(c, e) = MarkIfOwner(Emit(c, "LoadLocal", s), type)
    BY <1>5 DEF EmitExpr
  <2>2. MarkIfOwner(Emit(c, "LoadLocal", s), type) = Emit(c, "LoadLocal", s)
    BY <1>5 DEF MarkIfOwner, NeedsDrop, DropKind
  <2>3. Kind(type) = "data" /\ "data" \in Kinds \ {"unset"}
    BY <1>1, <1>5 DEF Kinds
  <2>4. Ends(Emit(c, "LoadLocal", s), Push(a, A("data")), open, heads, top)
    <3>1. s \in Nat \ {0} /\ (Live(a) => a.env[s] = "data")
      BY <1>5
    <3> HIDE DEF s
    <3> DEFINE kind == "data"
    <3>2. kind \in Kinds \ {"unset"} /\ (Live(a) => a.env[s] = kind)
      BY <2>3, <3>1
    <3>3. Ends(Emit(c, "LoadLocal", s), Push(a, IF kind = "data" THEN A("data") ELSE SlotOf(s)), open, heads, top)
      <4> HIDE DEF kind
      <4> QED BY <3>1, <3>2, EndsLoad
    <3> QED BY <3>3
  <2> QED BY <2>1, <2>2, <2>3, <2>4
<1> QED BY <1>2, <1>3, <1>4, <1>5 DEF Readable

-----------------------------------------------------------------------------
(* The ends of statements                                                  *)

\* A placeholder jumps, always or on a condition; what follows it is not reached
\* after a jump that is always taken.
LEMMA EndsJump ==
  ASSUME NEW c, NEW a \in State, NEW open, NEW heads, NEW top, Ends(c, a, open, heads, top),
         NEW to \in State, Leads(a, to), NEW b \in State, b.h = a.h
  PROVE  /\ Ends(Emit(c, "Jump", 0), b, Opened(open, Here(c), to), heads, top)
         /\ Len(Emit(c, "Jump", 0).code) = Here(c) /\ Here(c) \notin DOMAIN open
<1>1. Emit(c, "Jump", 0) = Noted(c, "Jump", 0, 0, 0)
  BY EmitNotes
<1>2. /\ "Jump" \in Jumps /\ "Jump" \in Stops /\ 0 \in Nat /\ 0 <= a.h /\ b.h = a.h - 0
      /\ a.h \in Nat /\ b.h \in Nat
  BY DEF Jumps, Stops, State
<1>3. /\ Fits("Jump", 0, a) /\ Leads(Taken("Jump", a), to)
      /\ "Jump" \notin Stops => Leads(After("Jump", 0, a), b)
  BY DEF Fits, Taken, Stops
<1>4. Ends(Noted(c, "Jump", 0, 0, 0), b, Opened(open, Here(c), to), heads, top)
  BY <1>2, <1>3, EndsOpen
<1>5. Len(Noted(c, "Jump", 0, 0, 0).code) = Here(c) /\ Here(c) \notin DOMAIN open
  BY NotedCode
<1> QED BY <1>1, <1>4, <1>5

\* A condition is popped, and the jump is still to be patched.
LEMMA EndsBranch ==
  ASSUME NEW c, NEW a \in State, NEW open, NEW heads, NEW top,
         Ends(c, Push(a, A("data")), open, heads, top), NEW to \in State, Leads(a, to)
  PROVE  /\ Ends(Emit(c, "JumpIfFalse", 0), a, Opened(open, Here(c), to), heads, top)
         /\ Len(Emit(c, "JumpIfFalse", 0).code) = Here(c) /\ Here(c) \notin DOMAIN open
<1> DEFINE p == Push(a, A("data"))
<1>1. Emit(c, "JumpIfFalse", 0) = Noted(c, "JumpIfFalse", 0, 1, 0)
  BY EmitNotes
<1>2. A("data") \in Entry /\ A("data").k = "data"
  BY Entries
<1>3. /\ p \in State /\ p.h = a.h + 1 /\ TopOf(p) = A("data") /\ p.flow = a.flow /\ p.env = a.env
      /\ p.held = a.held /\ a.h \in Nat /\ \A j \in 1 .. a.h : p.tag[j] = a.tag[j]
  BY <1>2, PushState
<1> HIDE DEF p
<1>4. Fits("JumpIfFalse", 0, p) /\ Taken("JumpIfFalse", p) = Pop(p, 1) /\ After("JumpIfFalse", 0, p) = Pop(p, 1)
  BY <1>2, <1>3 DEF Fits, Taken, After
<1>5. Leads(Pop(p, 1), a)
  <2> DEFINE x == Pop(p, 1)
  <2>1. x.h = a.h /\ x.tag = p.tag /\ x.env = p.env /\ x.held = p.held /\ x.flow = p.flow
    BY <1>3 DEF Pop, State
  <2> HIDE DEF x
  <2>2. Leads(x, a)
    BY <1>3, <2>1 DEF Leads, Live
  <2> QED BY <2>2 DEF x
<1>9. Leads(Pop(p, 1), to)
  <2>1. Pop(p, 1) \in State
    BY <1>3 DEF Pop, State
  <2> QED BY <1>5, <2>1, LeadsTrans
<1>6. "JumpIfFalse" \in Jumps /\ 1 \in Nat /\ 1 <= p.h /\ a.h = p.h - 1
  BY <1>3 DEF Jumps
<1>7. Ends(Noted(c, "JumpIfFalse", 0, 1, 0), a, Opened(open, Here(c), to), heads, top)
  BY <1>3, <1>4, <1>5, <1>6, <1>9, EndsOpen DEF p
<1>8. Len(Noted(c, "JumpIfFalse", 0, 1, 0).code) = Here(c) /\ Here(c) \notin DOMAIN open
  BY NotedCode DEF p
<1> QED BY <1>1, <1>7, <1>8

\* An instruction that replaces the top entry, or the two of them, by data.
LEMMA EndsData ==
  ASSUME NEW c, NEW a \in State, NEW open, NEW heads, NEW top, NEW op \in {"LoadRow", "LoadField"},
         Ends(c, Push(a, A("data")), open, heads, top)
  PROVE  Ends(Emit(c, op, 0), Push(a, A("data")), open, heads, top)
<1> DEFINE p == Push(a, A("data"))
<1>1. Emit(c, op, 0) = Noted(c, op, 0, 1, 1)
  BY EmitNotes
<1>2. A("data") \in Entry /\ A("data").k = "data"
  BY Entries
<1>3. p \in State /\ p.h = a.h + 1 /\ TopOf(p) = A("data") /\ a.h \in Nat
  BY <1>2, PushState
<1> HIDE DEF p
<1>4. Fits(op, 0, p) /\ After(op, 0, p) = p
  BY <1>2, <1>3 DEF Fits, After
<1>5. op \in Ops \ Jumps /\ op # "StoreLocal" /\ 0 \in Args /\ 1 \in Nat /\ 1 <= p.h /\ p.h = p.h - 1 + 1 /\ Leads(p, p)
  BY <1>3, LeadsSelf DEF Ops, Jumps, Args
<1>6. Ends(Noted(c, op, 0, 1, 1), p, open, heads, top)
  BY <1>3, <1>4, <1>5, EndsNext DEF p
<1> QED BY <1>1, <1>6 DEF p

\* A table's row count is pushed.
LEMMA EndsCount ==
  ASSUME NEW c, NEW a \in State, NEW open, NEW heads, NEW top, Ends(c, a, open, heads, top)
  PROVE  Ends(Emit(c, "TableCount", 0), Push(a, A("data")), open, heads, top)
<1> DEFINE p == Push(a, A("data"))
<1>1. Emit(c, "TableCount", 0) = Noted(c, "TableCount", 0, 0, 1)
  BY EmitNotes
<1>2. A("data") \in Entry
  BY Entries
<1>3. p \in State /\ p.h = a.h + 1 /\ a.h \in Nat
  BY <1>2, PushState
<1>4. Fits("TableCount", 0, a) /\ After("TableCount", 0, a) = p
  BY DEF Fits, After
<1> HIDE DEF p
<1>5. /\ "TableCount" \in Ops \ Jumps /\ "TableCount" # "StoreLocal" /\ 0 \in Args /\ 0 <= a.h /\ p.h = a.h - 0 + 1
      /\ Leads(p, p)
  BY <1>3, LeadsSelf DEF Ops, Jumps, Args
<1>6. Ends(Noted(c, "TableCount", 0, 0, 1), p, open, heads, top)
  BY <1>3, <1>4, <1>5, EndsNext
<1> QED BY <1>1, <1>6 DEF p

\* Two operands become a result.
LEMMA EndsPair ==
  ASSUME NEW c, NEW a \in State, NEW open, NEW heads, NEW top, NEW op \in {"Compare", "Add"},
         Ends(c, Push(Push(a, A("data")), A("data")), open, heads, top)
  PROVE  Ends(Emit(c, op, 0), Push(a, A("data")), open, heads, top)
<1> DEFINE p == Push(a, A("data"))
           q == Push(p, A("data"))
<1>1. Emit(c, op, 0) = Noted(c, op, 0, 2, 1)
  BY EmitNotes
<1>2. A("data") \in Entry /\ A("data").k = "data"
  BY Entries
<1>3. p \in State /\ p.h = a.h + 1 /\ TopOf(p) = A("data") /\ a.h \in Nat
  BY <1>2, PushState
<1> HIDE DEF p
<1>4. /\ q \in State /\ q.h = p.h + 1 /\ TopOf(q) = A("data") /\ q.flow = p.flow /\ q.env = p.env
      /\ q.held = p.held /\ \A j \in 1 .. p.h : q.tag[j] = p.tag[j]
  BY <1>2, <1>3, PushState
<1> HIDE DEF q
<1>5. Under(q) = A("data")
  <2>1. q.h - 1 = p.h /\ p.h \in 1 .. p.h
    BY <1>3, <1>4
  <2> QED BY <1>3, <1>4, <2>1 DEF Under, TopOf
<1>6. Fits(op, 0, q) /\ After(op, 0, q) = Pop(q, 1)
  BY <1>2, <1>3, <1>4, <1>5 DEF Fits, After
<1>7. Leads(Pop(q, 1), p)
  <2> DEFINE x == Pop(q, 1)
  <2>1. x.h = p.h /\ x.tag = q.tag /\ x.env = q.env /\ x.held = q.held /\ x.flow = q.flow
    BY <1>3, <1>4 DEF Pop, State
  <2> HIDE DEF x
  <2>2. Leads(x, p)
    BY <1>4, <2>1 DEF Leads, Live
  <2> QED BY <2>2 DEF x
<1>8. op \in Ops \ Jumps /\ op # "StoreLocal" /\ 0 \in Args /\ 2 \in Nat /\ 1 \in Nat /\ 2 <= q.h /\ p.h = q.h - 2 + 1
  BY <1>3, <1>4 DEF Ops, Jumps, Args
<1>9. Ends(c, q, open, heads, top)
  BY DEF q, p
<1>10. Ends(Noted(c, op, 0, 2, 1), p, open, heads, top)
  BY <1>3, <1>4, <1>6, <1>7, <1>8, <1>9, EndsNext
<1> QED BY <1>1, <1>10 DEF p

\* The test of a counting loop.
LEMMA EndsCounterTest ==
  ASSUME NEW c, NEW a \in State, NEW open, NEW heads, NEW top,
         Ends(c, Push(Push(a, A("data")), A("data")), open, heads, top),
         NEW to \in State, Leads(a, to)
  PROVE  \E at : /\ Ends(EmitCounterTest(c), a, Opened(open, at, to), heads, top)
                 /\ Len(EmitCounterTest(c).code) = at /\ at \notin DOMAIN open
<1> DEFINE d == Emit(c, "Compare", 0)
<1>1. Ends(d, Push(a, A("data")), open, heads, top)
  BY EndsPair
<1>2. EmitCounterTest(c) = Emit(d, "JumpIfFalse", 0)
  BY DEF EmitCounterTest
<1> HIDE DEF d
<1>3. /\ Ends(Emit(d, "JumpIfFalse", 0), a, Opened(open, Here(d), to), heads, top)
      /\ Len(Emit(d, "JumpIfFalse", 0).code) = Here(d) /\ Here(d) \notin DOMAIN open
  BY <1>1, EndsBranch
<1> QED BY <1>2, <1>3

\* A slot of data, which is in the state, is stored to.
LEMMA EndsStoreData ==
  ASSUME NEW c, NEW a \in State, NEW open, NEW heads, NEW top \in Nat,
         Ends(c, Push(a, A("data")), open, heads, top), a.h = 0, NEW s \in 1 .. top,
         Live(a) => a.env[s] = "data" /\ a.held \cap ({s} \X Nat) = {}
  PROVE  Ends(Emit(c, "StoreLocal", s), a, open, heads, top)
<1>1. Ends(Emit(c, "StoreLocal", s), Stored(a, s, "data"), open, heads, top)
  BY EndsStore
<1>2. s \in Nat /\ "data" \in Kinds
  BY DEF Kinds
<1> DEFINE b == Stored(a, s, "data")
<1>3. /\ b \in State /\ b.h = a.h /\ b.flow = a.flow /\ b.tag = a.tag /\ b.env = [a.env EXCEPT ![s] = "data"]
      /\ b.held = a.held \union Places(s, "data")
  BY <1>2, StoredState
<1>4. Places(s, "data") = {}
  BY DEF Places
<1> HIDE DEF b
<1>5. Leads(b, a)
  BY <1>3, <1>4 DEF Leads, Live, State
<1>6. Ends(Emit(c, "StoreLocal", s), b, open, heads, top)
  BY <1>1 DEF b
<1> QED BY <1>3, <1>5, <1>6, EndsLess

\* The counter's step.
LEMMA EndsCounterStep ==
  ASSUME NEW c, NEW a \in State, NEW open, NEW heads, NEW top \in Nat, Ends(c, a, open, heads, top),
         a.h = 0, NEW s \in 1 .. top, Live(a) => a.env[s] = "data" /\ a.held \cap ({s} \X Nat) = {}
  PROVE  Ends(EmitCounterStep(c, s), a, open, heads, top)
<1> DEFINE p == Push(a, A("data"))
           d == Emit(c, "LoadLocal", s)
           e == Emit(d, "LoadConst", "int")
           g == Emit(e, "Add", 0)
<1>1. Ends(d, p, open, heads, top)
  <2> DEFINE kind == "data"
  <2>1. kind \in Kinds \ {"unset"} /\ (Live(a) => a.env[s] = kind) /\ s \in Nat \ {0}
    BY DEF Kinds
  <2>2. Ends(d, Push(a, IF kind = "data" THEN A("data") ELSE SlotOf(s)), open, heads, top)
    <3> HIDE DEF kind
    <3> QED BY <2>1, EndsLoad
  <2> QED BY <2>2
<1>2. EmitCounterStep(c, s) = Emit(g, "StoreLocal", s)
  BY DEF EmitCounterStep
<1>3. A("data") \in Entry /\ Kind("int") = "data"
  BY Entries DEF Kind
<1>4. p \in State
  BY <1>3, PushState
<1> HIDE DEF d
<1>5. Ends(e, Push(p, A("data")), open, heads, top)
  <2>1. Literal(d, "int") = e
    BY DEF Literal, MarkIfOwner, NeedsDrop, DropKind
  <2> HIDE DEF e, p
  <2>2. Ends(Literal(d, "int"), Push(p, A(Kind("int"))), open, heads, top)
    BY <1>1, <1>4, EndsConst
  <2> QED BY <1>3, <2>1, <2>2
<1> HIDE DEF e
<1>6. Ends(g, p, open, heads, top)
  BY <1>5, EndsPair
<1> HIDE DEF g
<1> QED BY <1>2, <1>6, EndsStoreData

\* A value that owns nothing, or a string, is discarded.
LEMMA EndsDiscard ==
  ASSUME NEW c, NEW a \in State, NEW open, NEW heads, NEW top, NEW type \in {"bool", "string"},
         Ends(c, Push(a, A(Kind(type))), open, heads, top)
  PROVE  Ends(IF NeedsDrop(type) THEN EmitDrop(c, type) ELSE Emit(c, "Pop", 0), a, open, heads, top)
<1>1. CASE type = "bool"
  <2>1. ~NeedsDrop(type) /\ Kind(type) = "data"
    BY <1>1 DEF NeedsDrop, DropKind, Kind
  <2>2. A("data") \in Entry /\ A("data").k = "data"
    BY Entries
  <2>3. Ends(Emit(c, "Pop", 0), a, open, heads, top)
    BY <2>1, <2>2, EndsPop
  <2> QED BY <2>1, <2>3
<1>2. CASE type = "string"
  <2>1. NeedsDrop(type) /\ Kind(type) = "string" /\ EmitDrop(c, type) = EmitRtCall(c, "FreeString")
    BY <1>2 DEF NeedsDrop, DropKind, Kind, EmitDrop, EmitPlainDrop
  <2>2. Ends(EmitRtCall(c, "FreeString"), a, open, heads, top)
    BY <2>1, EndsFreeOwned
  <2> QED BY <2>1, <2>2
<1> QED BY <1>1, <1>2

\* A new value replaces that of a slot, which is dropped.
LEMMA EndsStoreIntoPlace ==
  ASSUME NEW c, NEW a \in State, NEW open, NEW heads, NEW top \in Nat, NEW s \in 1 .. top,
         NEW type \in {"string", "strs", "int", "bool", "row"}, slots.types[s] = type,
         Ends(c, Push(a, A(Kind(type))), open, heads, top), a.h = 0,
         Live(a) => a.env[s] = Kind(type) /\ a.held \cap ({s} \X Nat) = Places(s, Kind(type))
  PROVE  Ends(EmitStoreIntoPlace(c, s), a, open, heads, top)
<1> DEFINE P == Places(s, Kind(type))
           dropped == IF NeedsDrop(type)
                        THEN EmitDropIfOwned(MarkTop(Emit(c, "LoadLocal", s), "Owned"), type) ELSE c
           x == Without(a, P)
           t == A(Kind(type))
           b == Stored(x, s, Kind(type))
<1>1. EmitStoreIntoPlace(c, s) = Emit(dropped, "StoreLocal", s)
  BY DEF EmitStoreIntoPlace
<1>2. Kind(type) \in {"data", "string", "strs"} /\ t \in Entry /\ s \in Nat \ {0} /\ Kind(type) \in Kinds
  BY Entries DEF Kind, Kinds
<1>3. /\ x \in State /\ x.h = a.h /\ x.flow = a.flow /\ x.tag = a.tag /\ x.env = a.env /\ x.held = a.held \ P
      /\ Push(x, t) = Without(Push(a, t), P)
  BY WithoutState, WithoutPush
<1>4. Push(a, t) \in State /\ Push(a, t).flow = a.flow /\ Push(a, t).env = a.env /\ Push(a, t).held = a.held
  BY <1>2, PushState
<1> HIDE DEF x
<1>5. Ends(dropped, Push(x, t), open, heads, top)
  <2>1. CASE type \in {"string", "strs"}
    <3>1. NeedsDrop(type)
      BY <2>1 DEF NeedsDrop, DropKind
    <3>2. Live(Push(a, t)) => Push(a, t).env[s] = Kind(type) /\ P \subseteq Push(a, t).held
      BY <1>4 DEF Live
    <3> HIDE DEF t
    <3>3. Ends(EmitDropIfOwned(MarkTop(Emit(c, "LoadLocal", s), "Owned"), type), Without(Push(a, t), P), open, heads, top)
      BY <1>2, <1>4, <2>1, <3>2, EndsDropLocal DEF t
    <3> QED BY <1>3, <3>1, <3>3
  <2>2. CASE type \in {"int", "bool", "row"}
    <3>1. ~NeedsDrop(type) /\ P = {}
      BY <2>2 DEF NeedsDrop, DropKind, Kind, Places
    <3>2. x = a
      BY <3>1 DEF Without, State, x
    <3> QED BY <3>1, <3>2
  <2> QED BY <2>1, <2>2
<1> HIDE DEF dropped
<1>6. Live(x) => x.held \cap ({s} \X Nat) = {}
  <2> SUFFICES ASSUME Live(x) PROVE x.held \cap ({s} \X Nat) = {}
    OBVIOUS
  <2>1. a.held \cap ({s} \X Nat) = P
    BY <1>3 DEF Live
  <2> HIDE DEF P
  <2> QED BY <1>3, <2>1
<1>7. Ends(Emit(dropped, "StoreLocal", s), b, open, heads, top)
  BY <1>2, <1>3, <1>5, <1>6, EndsStore
<1>8. /\ b \in State /\ b.h = x.h /\ b.flow = x.flow /\ b.tag = x.tag
      /\ b.env = [x.env EXCEPT ![s] = Kind(type)] /\ b.held = x.held \union P
  BY <1>2, <1>3, StoredState
<1> HIDE DEF b
<1>9. Leads(b, a)
  <2> SUFFICES ASSUME Live(b) PROVE Leads(b, a)
    BY DEF Leads
  <2>1. Live(a) /\ a.env[s] = Kind(type) /\ a.held \cap ({s} \X Nat) = P
    BY <1>3, <1>8 DEF Live
  <2>2. b.held = a.held
    <3> HIDE DEF P
    <3> QED BY <1>3, <1>8, <2>1
  <2>3. \A j \in Nat : b.env[j] = a.env[j]
    BY <1>2, <1>3, <1>8, <2>1 DEF State
  <2> QED BY <1>3, <1>8, <2>1, <2>2, <2>3 DEF Leads
<1> QED BY <1>1, <1>3, <1>7, <1>8, <1>9, EndsLess

\* The slots that own what they hold, in h scopes and the parameter's.
Owners(scopes, h) == Within(scopes, 1, h) \union {1}

\* Everything is dropped before a return.
LEMMA EndsReturnDrops ==
  ASSUME NEW c, NEW a \in State, NEW open, NEW heads, NEW top, Ends(c, a, open, heads, top),
         NEW s, Apart(s.types, s.scopes), s.params = << 1 >>, s.types[1] = "string",
         1 \notin Within(s.scopes, 1, Len(s.scopes)), Holds(a, s.types, Owners(s.scopes, Len(s.scopes)))
  PROVE  Ends(EmitReturnDrops(c, s), Without(a, HeldBy(s.types, Owners(s.scopes, Len(s.scopes)))), open, heads, top)
<1> DEFINE W == Within(s.scopes, 1, Len(s.scopes))
           x == Without(a, HeldBy(s.types, W))
<1>1. /\ x \in State /\ x.h = a.h /\ x.flow = a.flow /\ x.tag = a.tag /\ x.env = a.env
      /\ x.held = a.held \ HeldBy(s.types, W)
  BY WithoutState
<1>2. Ends(DropScopes(c, s, 0), x, open, heads, top)
  <2> DEFINE target == 0
  <2>1. target \in 0 .. Len(s.scopes) /\ target + 1 = 1
    BY DEF Apart
  <2>2. Holds(a, s.types, Within(s.scopes, target + 1, Len(s.scopes)))
    BY DEF Holds, Owners
  <2>3. Ends(DropScopes(c, s, target),
             Without(a, HeldBy(s.types, Within(s.scopes, target + 1, Len(s.scopes)))), open, heads, top)
    <3> HIDE DEF target
    <3> QED BY <2>1, <2>2, EndsDropScopes
  <2> QED BY <2>3
<1>3. Live(a) => a.env[1] = Kind(s.types[1]) /\ Places(1, Kind(s.types[1])) \subseteq a.held
  BY DEF Holds, Owners
<1>4. Places(1, Kind(s.types[1])) \cap HeldBy(s.types, W) = {}
  <2>1. 1 \notin W
    OBVIOUS
  <2> HIDE DEF W
  <2> QED BY <2>1, HeldApart
<1> HIDE DEF x
<1>5. Droppable(x, s.types, s.params)
  <2>1. s.params \in Seq(Nat \ {0}) /\ Len(s.params) = 1 /\ s.params[1] = 1
    OBVIOUS
  <2>2. Live(x) => x.env[1] = Kind(s.types[1]) /\ Places(1, Kind(s.types[1])) \subseteq x.held
    <3> HIDE DEF W
    <3> QED BY <1>1, <1>3, <1>4 DEF Live
  <2> QED BY <2>1, <2>2 DEF Droppable
<1>6. Range(s.params) = {1}
  BY DEF Range
<1>7. Ends(EmitReturnDrops(c, s), Without(x, HeldBy(s.types, Range(s.params))), open, heads, top)
  <2> DEFINE d == DropScopes(c, s, 0)
  <2>1. EmitReturnDrops(c, s) = DropSlots(d, s, s.params)
    BY DEF EmitReturnDrops
  <2> HIDE DEF d
  <2>2. Ends(d, x, open, heads, top)
    BY <1>2 DEF d
  <2> QED BY <1>1, <1>5, <2>1, <2>2, EndsDropSlots
<1>8. Without(x, HeldBy(s.types, Range(s.params))) = Without(a, HeldBy(s.types, Owners(s.scopes, Len(s.scopes))))
  <2>1. HeldBy(s.types, Owners(s.scopes, Len(s.scopes))) = HeldBy(s.types, W) \union HeldBy(s.types, {1})
    BY HeldTogether DEF Owners
  <2> HIDE DEF W
  <2>2. Without(x, HeldBy(s.types, {1})) = Without(a, HeldBy(s.types, W) \union HeldBy(s.types, {1}))
    BY WithoutTwice DEF x
  <2> QED BY <1>6, <2>1, <2>2
<1> QED BY <1>7, <1>8

\* A function returns, with the string on the stack or with nothing.
LEMMA EndsReturn ==
  ASSUME NEW c, NEW a \in State, NEW open, NEW heads, NEW top,
         Ends(c, Push(a, A("string")), open, heads, top), a.h = 0, a.held = {}, NEW b \in State, b.h = 0
  PROVE  Ends(Emit(c, "Return", 0), b, open, heads, top)
<1> DEFINE p == Push(a, A("string"))
<1>1. Emit(c, "Return", 0) = Noted(c, "Return", 0, 1, 0)
  BY EmitNotes
<1>2. A("string") \in Entry /\ A("string").k = "string"
  BY Entries
<1>3. p \in State /\ p.h = 1 /\ TopOf(p) = A("string") /\ p.held = {}
  BY <1>2, PushState
<1> HIDE DEF p
<1>4. Fits("Return", 0, p)
  BY <1>2, <1>3 DEF Fits
<1>5. /\ "Return" \in Ops \ Jumps /\ "Return" # "StoreLocal" /\ "Return" \in Stops /\ 0 \in Args
      /\ 1 \in Nat /\ 0 \in Nat /\ 1 <= p.h /\ b.h = p.h - 1 + 0
  BY <1>3 DEF Ops, Jumps, Args, Stops
<1>6. Ends(c, p, open, heads, top)
  BY DEF p
<1>7. Live(p) => (Fits("Return", 0, p) /\ ("Return" \notin Stops => Leads(After("Return", 0, p), b)))
  BY <1>4, <1>5
<1>8. Ends(Noted(c, "Return", 0, 1, 0), b, open, heads, top)
  BY <1>3, <1>5, <1>6, <1>7, EndsNext
<1> QED BY <1>1, <1>8

\* A return without a value, where nothing is left.
LEMMA EndsReturnVoid ==
  ASSUME NEW c, NEW a \in State, NEW open, NEW heads, NEW top, Ends(c, a, open, heads, top),
         a.h = 0, Live(a) => a.held = {}, NEW b \in State, b.h = 0
  PROVE  Ends(Emit(c, "ReturnVoid", 0), b, open, heads, top)
<1>1. Emit(c, "ReturnVoid", 0) = Noted(c, "ReturnVoid", 0, 0, 0)
  BY EmitNotes
<1>2. /\ "ReturnVoid" \in Ops \ Jumps /\ "ReturnVoid" # "StoreLocal" /\ "ReturnVoid" \in Stops /\ 0 \in Args
      /\ 0 \in Nat /\ 0 <= a.h /\ b.h = a.h - 0 + 0
  BY DEF Ops, Jumps, Args, Stops
<1>3. Live(a) => (Fits("ReturnVoid", 0, a) /\ ("ReturnVoid" \notin Stops => Leads(After("ReturnVoid", 0, a), b)))
  BY <1>2 DEF Fits
<1>4. Ends(Noted(c, "ReturnVoid", 0, 0, 0), b, open, heads, top)
  BY <1>2, <1>3, EndsNext
<1> QED BY <1>1, <1>4

-----------------------------------------------------------------------------
(* What holds of the blocks that are being emitted.  A level describes one: *)
(* the scopes, the names' scopes and the loops that are open once it is,    *)
(* what is known where its statements begin, where the jumps out of it are  *)
(* to go, and at the place that its loop jumps back to.                     *)

SlotTypes == {"string", "strs", "int", "bool", "row"}
SlotsOK(s) ==
  /\ s \in [types : Seq(SlotTypes), of : [Names -> Nat], scopes : Seq(Seq(Nat \ {0})), params : {<<1>>}]
  /\ Len(s.types) >= 1 /\ s.types[1] = "string"
  /\ Apart(s.types, s.scopes)
  /\ \A i \in 1 .. Len(s.scopes) : \A m \in 1 .. Len(s.scopes[i]) : s.scopes[i][m] \in 2 .. Len(s.types)
  /\ \A nm \in Names : s.of[nm] \in 0 .. Len(s.types)

\* The slot that a name was declared with is still the name's.
DeclaredOK(s, decls) ==
  /\ decls \in Seq([Names -> Nat])
  /\ \A i \in 1 .. Len(decls), nm \in Names :
       decls[i][nm] # 0 => decls[i][nm] = s.of[nm] /\ decls[i][nm] \in 1 .. Len(s.types)

Level == [h : Nat, d : Nat, n : Nat, base : State, exit : State, head : State]

\* Slot x has been stored to, and its objects are allocated.
Stores(b, types, x) == b.env[x] = Kind(types[x]) /\ Places(x, Kind(types[x])) \subseteq b.held

\* What is known of the slots at a level.
LevelOK(s, decls, r) ==
  /\ Live(r.base) /\ r.base.h = 0
  /\ r.h \in 1 .. Len(s.scopes) /\ r.d \in 1 .. Len(decls)
  /\ r.base.held = HeldBy(s.types, Owners(s.scopes, r.h))
  /\ \A x \in Owners(s.scopes, r.h) : r.base.env[x] = Kind(s.types[x])
  /\ \A i \in 1 .. r.d, nm \in Names :
       decls[i][nm] # 0 => Stores(r.base, s.types, decls[i][nm])
  /\ \A x \in Nat : r.base.env[x] # "unset" => x \in 1 .. Len(s.types)

LoopKinds == {"while", "for", "rows"}
Counting == {"for", "rows"}
BlockKinds == {"block", "then", "else", "default"} \union LoopKinds
ScopesOf(k) == IF k = "rows" THEN 3 ELSE IF k = "for" THEN 2 ELSE 1
DeclsOf(k) == IF k \in Counting THEN 2 ELSE 1
LoopsOf(k) == IF k \in LoopKinds THEN 1 ELSE 0

Todo == [k : {"body"} \union BlockKinds, transfers : BOOLEAN, jump : Nat, back : Nat, counter : Nat,
         then : BOOLEAN]
Loops == [kind : LoopKinds, continueTarget : Nat, body : Nat, breaks : SUBSET Nat]

Dead == [Start EXCEPT !.flow = "dead"]

\* What the outer state knows, the inner one knows.
Inner(a, b) == \A x \in Nat : b.env[x] # "unset" => a.env[x] = b.env[x]

\* The block t, of level r, in one of level q.
Above(s, ls, t, r, q) ==
  /\ t.k \in BlockKinds
  /\ r.h = q.h + ScopesOf(t.k) /\ r.d = q.d + DeclsOf(t.k) /\ r.n = q.n + LoopsOf(t.k)
  /\ r.exit = IF t.k = "else" /\ t.then THEN Dead ELSE q.base
  /\ \A i \in q.h + 1 .. r.h - 1 : s.scopes[i] = << >>
  /\ t.k \in LoopKinds =>
       /\ ls[r.n].kind = t.k /\ ls[r.n].body = q.h + 1
       /\ t.k = "while" => ls[r.n].continueTarget = t.back
       /\ Live(r.head) /\ r.head.h = 0 /\ r.head.held = q.base.held /\ Inner(r.base, r.head)
  /\ t.k \in Counting =>
       /\ t.counter \in 1 .. Len(s.types) /\ s.types[t.counter] = "int"
       /\ r.base.env[t.counter] = "data"

\* The placeholders that the end of the block patches.
Pending(ls, t, r) ==
  {p \in Nat : \/ t.k \in {"then", "else"} \union LoopKinds /\ p = t.jump
               \/ t.k \in LoopKinds /\ p \in ls[r.n].breaks}

Shaped(ls, todos, g) ==
  /\ todos \in Seq(Todo) /\ ls \in Seq(Loops) /\ g \in Seq(Level)
  /\ Len(g) = Len(todos) /\ Len(todos) >= 1
  /\ todos[1].k = "body" /\ g[1].h = 1 /\ g[1].d = 1 /\ g[1].n = 0

Ordered(todos, g) ==
  \A j, k \in 1 .. Len(g) : j < k =>
    /\ ~todos[j].transfers
    /\ g[j].h < g[k].h /\ g[j].d < g[k].d /\ g[j].n + LoopsOf(todos[k].k) <= g[k].n
    /\ Inner(g[k].base, g[j].base)

\* Which level a placeholder belongs to.
Placed(ls, todos, g, lvl) ==
  /\ lvl = [p \in DOMAIN lvl |-> lvl[p]]
  /\ \A p \in DOMAIN lvl : lvl[p] \in 2 .. Len(g) /\ p \in Nat
  /\ \A k \in 2 .. Len(g) : {p \in DOMAIN lvl : lvl[p] = k} = Pending(ls, todos[k], g[k])

Nest(s, ls, todos, decls, g, lvl) ==
  /\ SlotsOK(s) /\ DeclaredOK(s, decls) /\ Shaped(ls, todos, g)
  /\ g[Len(g)].h = Len(s.scopes) /\ g[Len(g)].d = Len(decls) /\ g[Len(g)].n = Len(ls)
  /\ \A k \in 1 .. Len(g) : LevelOK(s, decls, g[k])
  /\ \A k \in 2 .. Len(g) : Above(s, ls, todos[k], g[k], g[k - 1])
  /\ Ordered(todos, g)
  /\ \A l \in 1 .. Len(ls) : \E k \in 2 .. Len(g) : todos[k].k \in LoopKinds /\ g[k].n = l
  /\ Placed(ls, todos, g, lvl)

\* What slots that a frame has more of hold.
LEMMA HeldSame ==
  ASSUME NEW types, NEW types2, NEW S, \A x \in S : types2[x] = types[x]
  PROVE  HeldBy(types2, S) = HeldBy(types, S)
BY DEF HeldBy

\* The owners are among the slots.
LEMMA OwnersSlots ==
  ASSUME NEW s, SlotsOK(s), NEW h \in 0 .. Len(s.scopes)
  PROVE  Owners(s.scopes, h) \subseteq 1 .. Len(s.types)
<1> SUFFICES ASSUME NEW x \in Owners(s.scopes, h) PROVE x \in 1 .. Len(s.types)
  OBVIOUS
<1>1. s.types \in Seq(SlotTypes) /\ Len(s.types) >= 1 /\ Len(s.types) \in Nat /\ s.scopes \in Seq(Seq(Nat \ {0}))
  BY DEF SlotsOK
<1>2. CASE x = 1
  BY <1>1, <1>2
<1>3. CASE x \in Within(s.scopes, 1, h)
  <2>1. PICK l \in 1 .. h : x \in Range(s.scopes[l])
    BY <1>3 DEF Within
  <2>2. l \in 1 .. Len(s.scopes)
    BY <1>1, <2>1
  <2>3. s.scopes[l] \in Seq(Nat \ {0})
    BY <1>1, <2>2
  <2>4. PICK m \in 1 .. Len(s.scopes[l]) : x = s.scopes[l][m]
    BY <2>1, <2>3 DEF Range
  <2>5. x \in 2 .. Len(s.types)
    BY <2>2, <2>4 DEF SlotsOK
  <2> QED BY <1>1, <2>5
<1> QED BY <1>2, <1>3 DEF Owners

\* The owners of scopes that are the same.
LEMMA OwnersSame ==
  ASSUME NEW scopes, NEW scopes2, NEW h \in Nat, \A i \in 1 .. h : scopes2[i] = scopes[i]
  PROVE  Owners(scopes2, h) = Owners(scopes, h)
<1>1. Within(scopes2, 1, h) = Within(scopes, 1, h)
  BY DEF Within
<1> QED BY <1>1 DEF Owners

\* Scopes without slots of their own add no owner.
LEMMA OwnersEmpty ==
  ASSUME NEW scopes, NEW h \in Nat, NEW i \in Nat, h <= i, \A j \in h + 1 .. i : scopes[j] = << >>
  PROVE  Owners(scopes, i) = Owners(scopes, h)
<1>1. 1 .. i = (1 .. h) \union (h + 1 .. i)
  OBVIOUS
<1>2. \A j \in h + 1 .. i : Range(scopes[j]) = {}
  BY DEF Range
<1>3. Within(scopes, 1, i) = Within(scopes, 1, h)
  BY <1>1, <1>2 DEF Within
<1> QED BY <1>3 DEF Owners

\* A level stays what it is while its own scopes and names do.
LEMMA LevelKept ==
  ASSUME NEW s, NEW s2, NEW decls, NEW decls2, NEW r \in Level, SlotsOK(s), DeclaredOK(s, decls),
         LevelOK(s, decls, r),
         Len(s2.types) \in Nat, Len(s.types) <= Len(s2.types),
         \A i \in 1 .. Len(s.types) : s2.types[i] = s.types[i],
         Len(s2.scopes) \in Nat, r.h <= Len(s2.scopes), \A i \in 1 .. r.h : s2.scopes[i] = s.scopes[i],
         Len(decls2) \in Nat, r.d <= Len(decls2), \A i \in 1 .. r.d : decls2[i] = decls[i]
  PROVE  LevelOK(s2, decls2, r)
<1>1. /\ r.h \in Nat /\ r.d \in Nat /\ r.h >= 1 /\ r.d >= 1 /\ r.h \in 0 .. Len(s.scopes) /\ r.h \in 1 .. Len(s2.scopes)
      /\ r.d \in 1 .. Len(decls2) /\ Len(s.types) \in Nat /\ r.d <= Len(decls) /\ Len(decls) \in Nat
  BY DEF LevelOK, Level, SlotsOK, DeclaredOK
<1>2. Owners(s2.scopes, r.h) = Owners(s.scopes, r.h)
  BY <1>1, OwnersSame
<1>3. \A x \in Owners(s.scopes, r.h) : x \in 1 .. Len(s.types) /\ s2.types[x] = s.types[x]
  BY <1>1, OwnersSlots
<1>4. HeldBy(s2.types, Owners(s.scopes, r.h)) = HeldBy(s.types, Owners(s.scopes, r.h))
  BY <1>3, HeldSame
<1>5. \A i \in 1 .. r.d, nm \in Names : decls2[i][nm] # 0 => Stores(r.base, s2.types, decls2[i][nm])
  <2> SUFFICES ASSUME NEW i \in 1 .. r.d, NEW nm \in Names, decls[i][nm] # 0
               PROVE  Stores(r.base, s2.types, decls[i][nm])
    OBVIOUS
  <2>1. i \in 1 .. Len(decls)
    BY <1>1
  <2>2. decls[i][nm] \in 1 .. Len(s.types)
    BY <2>1 DEF DeclaredOK
  <2>3. Stores(r.base, s.types, decls[i][nm]) /\ s2.types[decls[i][nm]] = s.types[decls[i][nm]]
    BY <2>2 DEF LevelOK
  <2> QED BY <2>3 DEF Stores
<1>6. \A x \in Nat : r.base.env[x] # "unset" => x \in 1 .. Len(s2.types)
  BY <1>1 DEF LevelOK
<1>7. /\ Live(r.base) /\ r.base.h = 0 /\ r.base.held = HeldBy(s.types, Owners(s.scopes, r.h))
      /\ \A x \in Owners(s.scopes, r.h) : r.base.env[x] = Kind(s.types[x])
  BY DEF LevelOK
<1> QED BY <1>1, <1>2, <1>3, <1>4, <1>5, <1>6, <1>7 DEF LevelOK

\* And a block, while its loop does too.
LEMMA AboveKept ==
  ASSUME NEW s, NEW s2, NEW ls, NEW ls2, NEW t, NEW r, NEW q, Above(s, ls, t, r, q),
         r.h \in Nat, q.h \in Nat,
         Len(s.types) \in Nat, Len(s2.types) \in Nat, Len(s.types) <= Len(s2.types),
         \A i \in 1 .. Len(s.types) : s2.types[i] = s.types[i],
         \A i \in q.h + 1 .. r.h - 1 : s2.scopes[i] = s.scopes[i],
         t.k \in LoopKinds => ls2[r.n].kind = ls[r.n].kind /\ ls2[r.n].body = ls[r.n].body
                              /\ ls2[r.n].continueTarget = ls[r.n].continueTarget
  PROVE  Above(s2, ls2, t, r, q)
<1>1. t.k \in Counting => t.counter \in 1 .. Len(s2.types) /\ s2.types[t.counter] = "int"
  BY DEF Above
<1>2. \A i \in q.h + 1 .. r.h - 1 : s2.scopes[i] = << >>
  BY DEF Above
<1> QED BY <1>1, <1>2 DEF Above

\* Whether a block transfers control is not part of how it nests.
LEMMA Transferring ==
  ASSUME NEW t \in Todo, NEW b \in BOOLEAN
  PROVE  LET u == [t EXCEPT !.transfers = b]
         IN  /\ u \in Todo /\ u.transfers = b /\ u.k = t.k
             /\ \A s, ls, r, q : Above(s, ls, t, r, q) => Above(s, ls, u, r, q)
             /\ \A ls, r : Pending(ls, u, r) = Pending(ls, t, r)
<1> DEFINE u == [t EXCEPT !.transfers = b]
<1>1. /\ u \in Todo /\ u.transfers = b /\ u.k = t.k /\ u.jump = t.jump /\ u.back = t.back
      /\ u.counter = t.counter /\ u.then = t.then
  BY DEF Todo
<1> HIDE DEF u
<1>2. \A s, ls, r, q : Above(s, ls, t, r, q) => Above(s, ls, u, r, q)
  BY <1>1 DEF Above
<1>3. \A ls, r : Pending(ls, u, r) = Pending(ls, t, r)
  BY <1>1 DEF Pending
<1> QED BY <1>1, <1>2, <1>3 DEF u

\* Where the placeholders are to jump.
Exits(g, lvl) == [p \in DOMAIN lvl |-> g[lvl[p]].exit]

\* The types of what nests.
LEMMA NestTypes ==
  ASSUME NEW s, NEW ls, NEW todos, NEW decls, NEW g, NEW lvl, Nest(s, ls, todos, decls, g, lvl)
  PROVE  /\ Len(g) \in Nat \ {0} /\ Len(todos) = Len(g) /\ Len(ls) \in Nat /\ Len(decls) \in Nat
         /\ Len(s.scopes) \in Nat /\ Len(s.types) \in Nat \ {0}
         /\ \A k \in 1 .. Len(g) : /\ g[k] \in Level /\ todos[k] \in Todo
                                   /\ g[k].h \in 1 .. Len(s.scopes) /\ g[k].d \in 1 .. Len(decls)
                                   /\ g[k].n \in 0 .. Len(ls)
         /\ \A l \in 1 .. Len(ls) : ls[l] \in Loops
         /\ \A k \in 2 .. Len(g) : g[k - 1] \in Level /\ todos[k].k \in BlockKinds
<1>1. /\ todos \in Seq(Todo) /\ ls \in Seq(Loops) /\ g \in Seq(Level)
      /\ Len(g) = Len(todos) /\ Len(todos) >= 1 /\ decls \in Seq([Names -> Nat])
      /\ s.scopes \in Seq(Seq(Nat \ {0})) /\ s.types \in Seq(SlotTypes) /\ Len(s.types) >= 1
  BY DEF Nest, Shaped, SlotsOK, DeclaredOK
<1>2. \A k \in 1 .. Len(g) : g[k] \in Level /\ todos[k] \in Todo
  BY <1>1
<1>3. \A k \in 1 .. Len(g) : g[k].h \in 1 .. Len(s.scopes) /\ g[k].d \in 1 .. Len(decls)
  BY DEF Nest, LevelOK
<1>4. ASSUME NEW k \in 1 .. Len(g) PROVE g[k].n \in 0 .. Len(ls)
  <2>1. g[k].n \in Nat /\ LoopsOf(todos[Len(g)].k) \in Nat
    BY <1>2 DEF Level, LoopsOf
  <2>2. CASE k = Len(g)
    BY <1>1, <2>1, <2>2 DEF Nest
  <2>3. CASE k < Len(g)
    <3>1. Len(g) \in 1 .. Len(g) /\ k < Len(g)
      BY <1>1, <2>3
    <3>2. g[k].n + LoopsOf(todos[Len(g)].k) <= g[Len(g)].n
      BY <3>1 DEF Nest, Ordered
    <3>3. g[Len(g)].n = Len(ls) /\ Len(ls) \in Nat
      BY <1>1 DEF Nest
    <3> QED BY <2>1, <3>2, <3>3
  <2> QED BY <1>1, <2>2, <2>3
<1>5. \A k \in 2 .. Len(g) : g[k - 1] \in Level /\ todos[k].k \in BlockKinds
  <2> TAKE k \in 2 .. Len(g)
  <2>1. k - 1 \in 1 .. Len(g)
    BY <1>1
  <2>2. todos[k].k \in BlockKinds
    BY DEF Nest, Above
  <2> QED BY <1>2, <2>1, <2>2
<1>6. \A l \in 1 .. Len(ls) : ls[l] \in Loops
  BY <1>1
<1>7. /\ Len(g) \in Nat \ {0} /\ Len(todos) = Len(g) /\ Len(ls) \in Nat /\ Len(decls) \in Nat
      /\ Len(s.scopes) \in Nat /\ Len(s.types) \in Nat \ {0}
  BY <1>1
<1> QED BY <1>2, <1>3, <1>4, <1>5, <1>6, <1>7

\* And where its levels lie.
LEMMA NestBounds ==
  ASSUME NEW s, NEW ls, NEW todos, NEW decls, NEW g, NEW lvl, Nest(s, ls, todos, decls, g, lvl)
  PROVE  /\ \A k \in 1 .. Len(g) : /\ g[k].h \in Nat /\ g[k].h <= Len(s.scopes)
                                   /\ g[k].d \in Nat /\ g[k].d <= Len(decls)
                                   /\ g[k].n \in Nat /\ g[k].n <= Len(ls)
                                   /\ 1 .. g[k].h \subseteq 1 .. Len(s.scopes)
                                   /\ 1 .. g[k].d \subseteq 1 .. Len(decls)
         /\ \A k \in 2 .. Len(g) : /\ k \in 1 .. Len(g) /\ k - 1 \in 1 .. Len(g)
                                   /\ g[k - 1].h + 1 .. g[k].h - 1 \subseteq 1 .. Len(s.scopes)
                                   /\ todos[k].k \in LoopKinds => g[k].n \in 1 .. Len(ls) /\ g[k].n = g[k - 1].n + 1
<1>1. /\ Len(g) \in Nat /\ Len(ls) \in Nat /\ Len(decls) \in Nat /\ Len(s.scopes) \in Nat
      /\ \A k \in 1 .. Len(g) : /\ g[k].h \in 1 .. Len(s.scopes) /\ g[k].d \in 1 .. Len(decls)
                                /\ g[k].n \in 0 .. Len(ls)
  BY NestTypes
<1>2. ASSUME NEW k \in 1 .. Len(g)
      PROVE  /\ g[k].h \in Nat /\ g[k].h <= Len(s.scopes)
             /\ g[k].d \in Nat /\ g[k].d <= Len(decls)
             /\ g[k].n \in Nat /\ g[k].n <= Len(ls)
             /\ 1 .. g[k].h \subseteq 1 .. Len(s.scopes)
             /\ 1 .. g[k].d \subseteq 1 .. Len(decls)
  <2>1. PICK h, d, m, lh, ld, lm : h = g[k].h /\ d = g[k].d /\ m = g[k].n /\ lh = Len(s.scopes) /\ ld = Len(decls) /\ lm = Len(ls)
    OBVIOUS
  <2>2. /\ lh \in Nat /\ ld \in Nat /\ lm \in Nat /\ h \in 1 .. lh /\ d \in 1 .. ld /\ m \in 0 .. lm
    BY <1>1, <2>1
  <2>3. h \in Nat /\ h <= lh /\ d \in Nat /\ d <= ld /\ m \in Nat /\ m <= lm /\ 1 .. h \subseteq 1 .. lh /\ 1 .. d \subseteq 1 .. ld
    BY <2>2
  <2> QED BY <2>1, <2>3
<1>3. ASSUME NEW k \in 2 .. Len(g)
      PROVE  /\ k \in 1 .. Len(g) /\ k - 1 \in 1 .. Len(g)
             /\ g[k - 1].h + 1 .. g[k].h - 1 \subseteq 1 .. Len(s.scopes)
             /\ todos[k].k \in LoopKinds => g[k].n \in 1 .. Len(ls) /\ g[k].n = g[k - 1].n + 1
  <2>1. k \in 1 .. Len(g) /\ k - 1 \in 1 .. Len(g)
    BY <1>1
  <2>2. todos[k].k \in LoopKinds => g[k].n = g[k - 1].n + 1
    BY DEF Nest, Above, LoopsOf
  <2>3. PICK h, i, m, j, lh, lm : h = g[k].h /\ i = g[k - 1].h /\ m = g[k].n /\ j = g[k - 1].n /\ lh = Len(s.scopes) /\ lm = Len(ls)
    OBVIOUS
  <2>4. h \in Nat /\ i \in Nat /\ m \in Nat /\ j \in Nat /\ h <= lh /\ m <= lm /\ lh \in Nat /\ lm \in Nat
    BY <1>1, <1>2, <2>1, <2>3
  <2>5. i + 1 .. h - 1 \subseteq 1 .. lh
    BY <2>4
  <2>6. todos[k].k \in LoopKinds => m \in 1 .. lm
    BY <2>2, <2>3, <2>4
  <2> QED BY <2>1, <2>2, <2>3, <2>5, <2>6
<1> QED BY <1>2, <1>3

\* The allocator s2 has what s has, and more.
Grown(s, s2, h) ==
  /\ Len(s.types) <= Len(s2.types) /\ \A i \in 1 .. Len(s.types) : s2.types[i] = s.types[i]
  /\ h <= Len(s2.scopes) /\ \A i \in 1 .. h : s2.scopes[i] = s.scopes[i]

\* Placeholders that are to jump to the same state.
Opens(open, ats, to) == [p \in DOMAIN open \union ats |-> IF p \in ats THEN to ELSE open[p]]

\* A block is entered.
Entered(g, lvl, pending) == [p \in DOMAIN lvl \union pending |-> IF p \in DOMAIN lvl THEN lvl[p] ELSE Len(g) + 1]

\* What nests already, and a block t of level r in it.
Pushes(s, ls, todos, decls, g, lvl, s2, decls2, t, r, ls2, pending) ==
  /\ Nest(s, ls, todos, decls, g, lvl) /\ ~todos[Len(todos)].transfers
  /\ SlotsOK(s2) /\ Grown(s, s2, Len(s.scopes))
  /\ DeclaredOK(s2, decls2) /\ Len(decls) <= Len(decls2)
  /\ \A i \in 1 .. Len(decls) : decls2[i] = decls[i]
  /\ t \in Todo /\ r \in Level /\ LevelOK(s2, decls2, r)
  /\ ls2 \in Seq(Loops) /\ Len(ls2) = Len(ls) + LoopsOf(t.k) /\ \A l \in 1 .. Len(ls) : ls2[l] = ls[l]
  /\ r.h = Len(s2.scopes) /\ r.d = Len(decls2) /\ r.n = Len(ls2)
  /\ Above(s2, ls2, t, r, g[Len(g)]) /\ Inner(r.base, g[Len(g)].base)
  /\ pending = Pending(ls2, t, r) /\ pending \cap DOMAIN lvl = {}

\* Where a block is entered, the levels nest as before.
LEMMA NestPush ==
  ASSUME NEW s, NEW ls, NEW todos, NEW decls, NEW g, NEW lvl, NEW s2, NEW decls2, NEW t, NEW r, NEW ls2,
         NEW pending, Pushes(s, ls, todos, decls, g, lvl, s2, decls2, t, r, ls2, pending)
  PROVE  /\ Nest(s2, ls2, Append(todos, t), decls2, Append(g, r), Entered(g, lvl, pending))
         /\ Exits(Append(g, r), Entered(g, lvl, pending)) = Opens(Exits(g, lvl), pending, r.exit)
<1> DEFINE n == Len(g)
           g2 == Append(g, r)
           todos2 == Append(todos, t)
           lvl2 == Entered(g, lvl, pending)
<1> /\ Nest(s, ls, todos, decls, g, lvl) /\ ~todos[Len(todos)].transfers
    /\ SlotsOK(s2) /\ Grown(s, s2, Len(s.scopes))
    /\ DeclaredOK(s2, decls2) /\ Len(decls) <= Len(decls2)
    /\ \A i \in 1 .. Len(decls) : decls2[i] = decls[i]
    /\ t \in Todo /\ r \in Level /\ LevelOK(s2, decls2, r)
    /\ ls2 \in Seq(Loops) /\ Len(ls2) = Len(ls) + LoopsOf(t.k) /\ \A l \in 1 .. Len(ls) : ls2[l] = ls[l]
    /\ r.h = Len(s2.scopes) /\ r.d = Len(decls2) /\ r.n = Len(ls2)
    /\ Above(s2, ls2, t, r, g[Len(g)]) /\ Inner(r.base, g[Len(g)].base)
    /\ pending = Pending(ls2, t, r) /\ pending \cap DOMAIN lvl = {}
  BY DEF Pushes
<1>1. /\ n \in Nat \ {0} /\ Len(todos) = n /\ Len(ls) \in Nat /\ Len(decls) \in Nat
      /\ Len(s.scopes) \in Nat /\ Len(s.types) \in Nat \ {0}
      /\ \A k \in 1 .. n : /\ g[k] \in Level /\ todos[k] \in Todo
                           /\ g[k].h \in 1 .. Len(s.scopes) /\ g[k].d \in 1 .. Len(decls)
                           /\ g[k].n \in 0 .. Len(ls)
  BY NestTypes
<1>2. /\ todos \in Seq(Todo) /\ g \in Seq(Level) /\ SlotsOK(s) /\ DeclaredOK(s, decls)
      /\ todos[1].k = "body" /\ g[1].h = 1 /\ g[1].d = 1 /\ g[1].n = 0
      /\ g[n].h = Len(s.scopes) /\ g[n].d = Len(decls) /\ g[n].n = Len(ls)
  BY DEF Nest, Shaped
<1>3. /\ todos2 \in Seq(Todo) /\ Len(todos2) = n + 1 /\ todos2[n + 1] = t
      /\ \A k \in 1 .. n : todos2[k] = todos[k]
  BY <1>1, <1>2
<1>4. /\ g2 \in Seq(Level) /\ Len(g2) = n + 1 /\ g2[n + 1] = r
      /\ \A k \in 1 .. n : g2[k] = g[k]
  BY <1>1, <1>2
<1>5. /\ Len(s2.types) \in Nat /\ Len(s2.scopes) \in Nat /\ Len(decls2) \in Nat /\ Len(ls2) \in Nat
      /\ LoopsOf(t.k) \in Nat
  BY DEF SlotsOK, DeclaredOK, LoopsOf
<1>0. /\ n \in Nat /\ Len(ls) \in Nat /\ Len(decls) \in Nat /\ Len(s.scopes) \in Nat /\ Len(s.types) \in Nat
      /\ g[n].h = Len(s.scopes) /\ g[n].d = Len(decls) /\ g[n].n = Len(ls)
  BY <1>1, <1>2
<1>17. /\ Len(s.types) <= Len(s2.types) /\ \A i \in 1 .. Len(s.types) : s2.types[i] = s.types[i]
       /\ Len(s.scopes) <= Len(s2.scopes) /\ \A i \in 1 .. Len(s.scopes) : s2.scopes[i] = s.scopes[i]
  BY DEF Grown
<1> HIDE DEF g2, todos2
<1>6. Shaped(ls2, todos2, g2)
  BY <1>1, <1>2, <1>3, <1>4 DEF Shaped
<1>7. ASSUME NEW k \in 1 .. n + 1 PROVE LevelOK(s2, decls2, g2[k])
  <2>1. CASE k = n + 1
    BY <1>4, <2>1
  <2>2. CASE k \in 1 .. n
    <3>1. LevelOK(s, decls, g[k]) /\ g2[k] = g[k] /\ g[k] \in Level
      BY <1>1, <1>4, <2>2 DEF Nest
    <3>2. g[k].h \in 1 .. Len(s.scopes) /\ g[k].d \in 1 .. Len(decls)
      BY <1>1, <2>2
    <3>3. /\ Len(s.types) <= Len(s2.types) /\ \A i \in 1 .. Len(s.types) : s2.types[i] = s.types[i]
          /\ g[k].h <= Len(s2.scopes) /\ \A i \in 1 .. g[k].h : s2.scopes[i] = s.scopes[i]
      <4>1. 1 .. g[k].h \subseteq 1 .. Len(s.scopes) /\ g[k].h \in Nat /\ g[k].h <= Len(s.scopes)
        BY <2>2, NestBounds
      <4>2. g[k].h <= Len(s2.scopes)
        <5>1. PICK x, y, z : x = g[k].h /\ y = Len(s.scopes) /\ z = Len(s2.scopes)
          OBVIOUS
        <5>2. x \in Nat /\ y \in Nat /\ z \in Nat /\ x <= y /\ y <= z
          BY <1>0, <1>5, <1>17, <4>1, <5>1
        <5>3. x <= z
          BY <5>2
        <5> QED BY <5>1, <5>3
      <4> QED BY <1>17, <4>1, <4>2
    <3>4. g[k].d <= Len(decls2) /\ \A i \in 1 .. g[k].d : decls2[i] = decls[i]
      <4>1. 1 .. g[k].d \subseteq 1 .. Len(decls) /\ g[k].d \in Nat /\ g[k].d <= Len(decls)
        BY <2>2, NestBounds
      <4>2. g[k].d <= Len(decls2)
        <5>1. PICK x, y, z : x = g[k].d /\ y = Len(decls) /\ z = Len(decls2)
          OBVIOUS
        <5>2. x \in Nat /\ y \in Nat /\ z \in Nat /\ x <= y /\ y <= z
          BY <1>0, <1>5, <4>1, <5>1
        <5>3. x <= z
          BY <5>2
        <5> QED BY <5>1, <5>3
      <4> QED BY <4>1, <4>2
    <3> QED BY <1>2, <1>5, <3>1, <3>3, <3>4, LevelKept
  <2> QED BY <1>1, <2>1, <2>2
<1>8. ASSUME NEW k \in 2 .. n + 1 PROVE Above(s2, ls2, todos2[k], g2[k], g2[k - 1])
  <2>1. CASE k = n + 1
    BY <1>1, <1>3, <1>4, <2>1
  <2>2. CASE k \in 2 .. n
    <3>1. k \in 1 .. n /\ k - 1 \in 1 .. n
      BY <1>1, <2>2
    <3>2. g2[k] = g[k] /\ g2[k - 1] = g[k - 1] /\ todos2[k] = todos[k]
      BY <1>3, <1>4, <3>1
    <3>3. Above(s, ls, todos[k], g[k], g[k - 1])
      BY <2>2 DEF Nest
    <3>4. g[k].h \in 1 .. Len(s.scopes) /\ g[k - 1].h \in 1 .. Len(s.scopes) /\ g[k].n \in 0 .. Len(ls) /\ g[k - 1].n \in 0 .. Len(ls)
      BY <1>1, <3>1
    <3>5. \A i \in g[k - 1].h + 1 .. g[k].h - 1 : s2.scopes[i] = s.scopes[i]
      <4>1. g[k - 1].h + 1 .. g[k].h - 1 \subseteq 1 .. Len(s.scopes)
        BY <2>2, NestBounds
      <4> QED BY <1>17, <4>1
    <3>6. todos[k].k \in LoopKinds => ls2[g[k].n] = ls[g[k].n]
      <4>1. todos[k].k \in LoopKinds => g[k].n = g[k - 1].n + 1
        BY <3>3 DEF Above, LoopsOf
      <4> SUFFICES ASSUME todos[k].k \in LoopKinds PROVE ls2[g[k].n] = ls[g[k].n]
        OBVIOUS
      <4>2. g[k].n \in 1 .. Len(ls)
        BY <2>2, NestBounds
      <4> QED BY <4>2
    <3>7. Len(s.types) <= Len(s2.types) /\ \A i \in 1 .. Len(s.types) : s2.types[i] = s.types[i]
      BY DEF Grown
    <3>8. g[k].h \in Nat /\ g[k - 1].h \in Nat /\ Len(s.types) \in Nat
      BY <1>0, <3>1, NestBounds
    <3>9. Above(s2, ls2, todos[k], g[k], g[k - 1])
      <4>1. PICK tk, rk, qk : tk = todos[k] /\ rk = g[k] /\ qk = g[k - 1]
        OBVIOUS
      <4>2. Above(s, ls, tk, rk, qk) /\ rk.h \in Nat /\ qk.h \in Nat
        BY <3>3, <3>8, <4>1
      <4>3. \A i \in qk.h + 1 .. rk.h - 1 : s2.scopes[i] = s.scopes[i]
        BY <3>5, <4>1
      <4>4. tk.k \in LoopKinds => ls2[rk.n].kind = ls[rk.n].kind /\ ls2[rk.n].body = ls[rk.n].body
                                  /\ ls2[rk.n].continueTarget = ls[rk.n].continueTarget
        BY <3>6, <4>1
      <4>5. Above(s2, ls2, tk, rk, qk)
        BY <1>5, <3>7, <3>8, <4>2, <4>3, <4>4, AboveKept
      <4> QED BY <4>1, <4>5
    <3> QED BY <3>2, <3>9
  <2> QED BY <1>1, <2>1, <2>2
<1>9. Ordered(todos2, g2)
  <2> SUFFICES ASSUME NEW j \in 1 .. n + 1, NEW k \in 1 .. n + 1, j < k
               PROVE  /\ ~todos2[j].transfers
                      /\ g2[j].h < g2[k].h /\ g2[j].d < g2[k].d /\ g2[j].n + LoopsOf(todos2[k].k) <= g2[k].n
                      /\ Inner(g2[k].base, g2[j].base)
    BY <1>4 DEF Ordered
  <2>1. CASE k \in 1 .. n
    <3>1. j \in 1 .. n
      BY <1>1, <2>1
    <3>2. g2[k] = g[k] /\ g2[j] = g[j] /\ todos2[k] = todos[k] /\ todos2[j] = todos[j]
      BY <1>3, <1>4, <3>1, <2>1
    <3>3. /\ ~todos[j].transfers
          /\ g[j].h < g[k].h /\ g[j].d < g[k].d /\ g[j].n + LoopsOf(todos[k].k) <= g[k].n
          /\ Inner(g[k].base, g[j].base)
      BY <2>1, <3>1 DEF Nest, Ordered
    <3> QED BY <3>2, <3>3
  <2>2. CASE k = n + 1
    <3>1. j \in 1 .. n /\ n \in 1 .. n
      BY <1>1, <2>2
    <3>2. g2[k] = r /\ g2[j] = g[j] /\ todos2[k] = t /\ todos2[j] = todos[j]
      BY <1>3, <1>4, <3>1, <2>2
    <3>3. ~todos[j].transfers /\ Inner(g[n].base, g[j].base)
      <4>1. CASE j = n
        BY <1>1, <4>1 DEF Inner
      <4>2. CASE j < n
        BY <1>1, <3>1, <4>2 DEF Nest, Ordered
      <4> QED BY <1>1, <3>1, <4>1, <4>2
    <3>4. Inner(r.base, g[j].base)
      BY <3>3 DEF Inner
    <3>5. r.h = g[n].h + ScopesOf(t.k) /\ r.d = g[n].d + DeclsOf(t.k)
      BY DEF Above
    <3>6. ScopesOf(t.k) \in Nat \ {0} /\ DeclsOf(t.k) \in Nat \ {0}
      BY DEF ScopesOf, DeclsOf
    <3>7. /\ g[j].h \in Nat /\ g[j].h <= Len(s.scopes) /\ g[j].d \in Nat /\ g[j].d <= Len(decls) /\ g[j].n \in 0 .. Len(ls)
      BY <1>1, <3>1, NestBounds
    <3>8. g[j].h < r.h
      <4>1. PICK x, y, z, w : x = g[j].h /\ y = Len(s.scopes) /\ z = ScopesOf(t.k) /\ w = r.h
        OBVIOUS
      <4>2. x \in Nat /\ y \in Nat /\ z \in Nat \ {0} /\ x <= y /\ w = y + z
        BY <1>0, <3>5, <3>6, <3>7, <4>1
      <4>3. x < w
        BY <4>2
      <4> QED BY <4>1, <4>3
    <3>9. g[j].d < r.d
      <4>1. PICK x, y, z, w : x = g[j].d /\ y = Len(decls) /\ z = DeclsOf(t.k) /\ w = r.d
        OBVIOUS
      <4>2. x \in Nat /\ y \in Nat /\ z \in Nat \ {0} /\ x <= y /\ w = y + z
        BY <1>0, <3>5, <3>6, <3>7, <4>1
      <4>3. x < w
        BY <4>2
      <4> QED BY <4>1, <4>3
    <3>10. g[j].n + LoopsOf(t.k) <= r.n
      <4>1. PICK x, y, z, w : x = g[j].n /\ y = Len(ls) /\ z = LoopsOf(t.k) /\ w = r.n
        OBVIOUS
      <4>2. x \in 0 .. y /\ y \in Nat /\ z \in Nat /\ w = y + z
        BY <1>0, <1>5, <3>7, <4>1
      <4>3. x + z <= w
        BY <4>2
      <4> QED BY <4>1, <4>3
    <3> QED BY <3>2, <3>3, <3>4, <3>8, <3>9, <3>10
  <2>3. k \in 1 .. n \/ k = n + 1
    <3>1. PICK m : m = n
      OBVIOUS
    <3>2. m \in Nat /\ k \in 1 .. m + 1
      BY <1>0, <3>1
    <3>3. k \in 1 .. m \/ k = m + 1
      BY <3>2
    <3> QED BY <3>1, <3>3
  <2> QED BY <2>1, <2>2, <2>3
<1>10. ASSUME NEW l \in 1 .. Len(ls2)
       PROVE  \E k \in 2 .. n + 1 : todos2[k].k \in LoopKinds /\ g2[k].n = l
  <2>1. CASE l \in 1 .. Len(ls)
    <3>1. PICK k \in 2 .. n : todos[k].k \in LoopKinds /\ g[k].n = l
      BY <2>1 DEF Nest
    <3>2. k \in 1 .. n /\ k \in 2 .. n + 1
      BY <1>1, <3>1
    <3> QED BY <1>3, <1>4, <3>1, <3>2
  <2>2. CASE l \notin 1 .. Len(ls)
    <3>1. t.k \in LoopKinds /\ l = Len(ls2)
      BY <1>1, <1>5, <2>2 DEF LoopsOf
    <3>2. n + 1 \in 2 .. n + 1
      BY <1>1
    <3> QED BY <1>3, <1>4, <3>1, <3>2
  <2> QED BY <2>1, <2>2
<1>11. /\ lvl = [p \in DOMAIN lvl |-> lvl[p]]
       /\ \A p \in DOMAIN lvl : lvl[p] \in 2 .. n /\ p \in Nat
       /\ \A k \in 2 .. n : {p \in DOMAIN lvl : lvl[p] = k} = Pending(ls, todos[k], g[k])
  BY DEF Nest, Placed
<1>12. /\ DOMAIN lvl2 = DOMAIN lvl \union pending
       /\ \A p \in DOMAIN lvl : lvl2[p] = lvl[p]
       /\ \A p \in pending : lvl2[p] = n + 1
       /\ lvl2 = [p \in DOMAIN lvl2 |-> lvl2[p]]
  BY DEF Entered
<1> HIDE DEF lvl2
<1>13. ASSUME NEW k \in 2 .. n + 1
       PROVE  {p \in DOMAIN lvl2 : lvl2[p] = k} = Pending(ls2, todos2[k], g2[k])
  <2>1. CASE k = n + 1
    <3>1. {p \in DOMAIN lvl2 : lvl2[p] = k} = pending
      BY <1>1, <1>11, <1>12, <2>1
    <3> QED BY <1>3, <1>4, <2>1, <3>1
  <2>2. CASE k \in 2 .. n
    <3>1. {p \in DOMAIN lvl2 : lvl2[p] = k} = {p \in DOMAIN lvl : lvl[p] = k}
      BY <1>1, <1>11, <1>12, <2>2
    <3>2. k \in 1 .. n /\ k - 1 \in 1 .. n
      BY <1>1, <2>2
    <3>3. todos[k].k \in LoopKinds => ls2[g[k].n] = ls[g[k].n]
      <4>1. todos[k].k \in LoopKinds => g[k].n = g[k - 1].n + 1
        BY <2>2 DEF Nest, Above, LoopsOf
      <4>2. g[k].n \in 0 .. Len(ls) /\ g[k - 1].n \in 0 .. Len(ls)
        BY <1>1, <3>2
      <4> SUFFICES ASSUME todos[k].k \in LoopKinds PROVE ls2[g[k].n] = ls[g[k].n]
        OBVIOUS
      <4>3. g[k].n \in 1 .. Len(ls)
        BY <2>2, NestBounds
      <4> QED BY <4>3
    <3>4. Pending(ls2, todos[k], g[k]) = Pending(ls, todos[k], g[k])
      BY <3>3 DEF Pending
    <3>5. Pending(ls, todos[k], g[k]) = {p \in DOMAIN lvl : lvl[p] = k}
      BY <1>11, <2>2
    <3> QED BY <1>3, <1>4, <3>1, <3>2, <3>4, <3>5
  <2> QED BY <1>1, <2>1, <2>2
<1>14. Placed(ls2, todos2, g2, lvl2)
  <2>1. \A p \in DOMAIN lvl2 : lvl2[p] \in 2 .. n + 1 /\ p \in Nat
    BY <1>1, <1>11, <1>12 DEF Pending
  <2> QED BY <1>4, <1>12, <1>13, <2>1 DEF Placed
<1>15. Nest(s2, ls2, todos2, decls2, g2, lvl2)
  BY <1>4, <1>6, <1>7, <1>8, <1>9, <1>10, <1>14 DEF Nest
<1>16. Exits(g2, lvl2) = Opens(Exits(g, lvl), pending, r.exit)
  <2>1. ASSUME NEW p \in DOMAIN lvl \union pending
        PROVE  g2[lvl2[p]].exit = IF p \in pending THEN r.exit ELSE Exits(g, lvl)[p]
    <3>1. CASE p \in pending
      BY <1>4, <1>12, <3>1
    <3>2. CASE p \notin pending
      <4>1. p \in DOMAIN lvl /\ lvl2[p] = lvl[p] /\ lvl[p] \in 1 .. n
        BY <1>1, <1>11, <1>12, <3>2
      <4>2. Exits(g, lvl)[p] = g[lvl[p]].exit
        BY <4>1 DEF Exits
      <4> QED BY <1>4, <3>2, <4>1, <4>2
    <3> QED BY <3>1, <3>2
  <2>2. DOMAIN Exits(g, lvl) = DOMAIN lvl
    BY DEF Exits
  <2>3. Exits(g2, lvl2) = [p \in DOMAIN lvl \union pending |-> IF p \in pending THEN r.exit ELSE Exits(g, lvl)[p]]
    BY <1>12, <2>1 DEF Exits
  <2> QED BY <2>2, <2>3 DEF Opens
<1> QED BY <1>15, <1>16 DEF g2, todos2, lvl2

\* The placeholders that are left once some are patched.
Unpatched(open, ats) == [p \in DOMAIN open \ ats |-> open[p]]

\* A block is left.
Left(lvl, n) == [p \in {x \in DOMAIN lvl : lvl[x] # n} |-> lvl[p]]

\* The indices below the last of n levels.
LEMMA Outward ==
  ASSUME NEW n \in Nat, n >= 2
  PROVE  LET m == n - 1 IN
         /\ m \in Nat \ {0} /\ m < n /\ m + 1 = n /\ m \in 1 .. n /\ n \in 1 .. n /\ m \in 1 .. m /\ 1 \in 1 .. m
         /\ n \in 2 .. n
         /\ \A k \in 1 .. m : k \in 1 .. n /\ k # n /\ (k = m \/ (k < m /\ k \in 1 .. n - 2))
         /\ \A k \in 2 .. m : k \in 1 .. m /\ k \in 2 .. n /\ k - 1 \in 1 .. m /\ k # n
         /\ \A k \in 2 .. n : k # n => k \in 2 .. m /\ k \in 1 .. m
         /\ \A j, k \in 1 .. m : j < k => j \in 1 .. n - 2
OBVIOUS

\* Where a bound lies below another.
LEMMA Below2 ==
  ASSUME NEW x \in Nat, NEW y \in Nat, x <= y
  PROVE  1 .. x \subseteq 1 .. y /\ \A i \in Nat : i + 1 .. x - 1 \subseteq 1 .. y
OBVIOUS

\* A loop's level is that of one loop more.
LEMMA NestLoop ==
  ASSUME NEW s, NEW ls, NEW todos, NEW decls, NEW g, NEW lvl, Nest(s, ls, todos, decls, g, lvl),
         NEW k \in 2 .. Len(g), todos[k].k \in LoopKinds
  PROVE  g[k].n = g[k - 1].n + 1
BY DEF Nest, Above, LoopsOf

\* The innermost of n levels goes.
Pops(n, s, ls, todos, decls, g, lvl, s2, decls2, ls2, todos2, b) ==
  /\ Nest(s, ls, todos, decls, g, lvl) /\ n = Len(g) /\ n >= 2
  /\ SlotsOK(s2) /\ s2.types = s.types /\ Len(s2.scopes) = g[n - 1].h
  /\ \A i \in 1 .. g[n - 1].h : s2.scopes[i] = s.scopes[i]
  /\ DeclaredOK(s2, decls2) /\ Len(decls2) = g[n - 1].d
  /\ \A i \in 1 .. g[n - 1].d : decls2[i] = decls[i]
  /\ ls2 \in Seq(Loops) /\ Len(ls2) = g[n - 1].n /\ \A l \in 1 .. g[n - 1].n : ls2[l] = ls[l]
  /\ todos2 \in Seq(Todo) /\ Len(todos2) = n - 1 /\ \A k \in 1 .. n - 2 : todos2[k] = todos[k]
  /\ b \in BOOLEAN /\ todos2[n - 1] = [todos[n - 1] EXCEPT !.transfers = b]

\* The rest of the levels stay as they were.
LEMMA NestPop ==
  ASSUME NEW s, NEW ls, NEW todos, NEW decls, NEW g, NEW lvl, NEW n, NEW s2, NEW decls2, NEW ls2,
         NEW todos2, NEW b, Pops(n, s, ls, todos, decls, g, lvl, s2, decls2, ls2, todos2, b)
  PROVE  \E g2, lvl2 :
           /\ Nest(s2, ls2, todos2, decls2, g2, lvl2)
           /\ Len(g2) = n - 1 /\ \A k \in 1 .. n - 1 : g2[k] = g[k]
           /\ Exits(g2, lvl2) = Unpatched(Exits(g, lvl), Pending(ls, todos[n], g[n]))
<1> DEFINE m == n - 1
           g2 == SubSeq(g, 1, m)
           lvl2 == Left(lvl, n)
<1> /\ Nest(s, ls, todos, decls, g, lvl) /\ n = Len(g) /\ n >= 2
    /\ SlotsOK(s2) /\ s2.types = s.types /\ Len(s2.scopes) = g[n - 1].h
    /\ \A i \in 1 .. g[n - 1].h : s2.scopes[i] = s.scopes[i]
    /\ DeclaredOK(s2, decls2) /\ Len(decls2) = g[n - 1].d
    /\ \A i \in 1 .. g[n - 1].d : decls2[i] = decls[i]
    /\ ls2 \in Seq(Loops) /\ Len(ls2) = g[n - 1].n /\ \A l \in 1 .. g[n - 1].n : ls2[l] = ls[l]
    /\ todos2 \in Seq(Todo) /\ Len(todos2) = n - 1 /\ \A k \in 1 .. n - 2 : todos2[k] = todos[k]
    /\ b \in BOOLEAN /\ todos2[n - 1] = [todos[n - 1] EXCEPT !.transfers = b]
  BY DEF Pops
<1>1. /\ n \in Nat /\ Len(todos) = n
      /\ Len(ls) \in Nat /\ Len(decls) \in Nat /\ Len(s.scopes) \in Nat /\ Len(s.types) \in Nat
  BY NestTypes
<1>0. /\ m \in Nat \ {0} /\ m < n /\ m + 1 = n /\ m \in 1 .. n /\ n \in 1 .. n /\ m \in 1 .. m /\ 1 \in 1 .. m
      /\ n \in 2 .. n
      /\ \A k \in 1 .. m : k \in 1 .. n /\ k # n /\ (k = m \/ (k < m /\ k \in 1 .. n - 2))
      /\ \A k \in 2 .. m : k \in 1 .. m /\ k \in 2 .. n /\ k - 1 \in 1 .. m /\ k # n
      /\ \A k \in 2 .. n : k # n => k \in 2 .. m /\ k \in 1 .. m
      /\ \A j, k \in 1 .. m : j < k => j \in 1 .. n - 2
  BY <1>1, Outward
<1>2. \A k \in 1 .. n : g[k] \in Level /\ todos[k] \in Todo
  BY NestTypes
<1>3. /\ todos \in Seq(Todo) /\ g \in Seq(Level) /\ SlotsOK(s) /\ DeclaredOK(s, decls)
      /\ todos[1].k = "body" /\ g[1].h = 1 /\ g[1].d = 1 /\ g[1].n = 0
  BY DEF Nest, Shaped
<1>4. g2 \in Seq(Level) /\ Len(g2) = m /\ \A k \in 1 .. m : g2[k] = g[k]
  <2>1. g \in Seq(Level) /\ m \in 1 .. Len(g)
    BY <1>0, <1>3
  <2> QED BY <2>1
<1> HIDE DEF g2, m
<1>5. \A k \in 1 .. m : /\ todos2[k] \in Todo /\ todos2[k].k = todos[k].k
                        /\ \A s3, l3, r, q : Above(s3, l3, todos[k], r, q) => Above(s3, l3, todos2[k], r, q)
                        /\ \A l3, r : Pending(l3, todos2[k], r) = Pending(l3, todos[k], r)
  <2> SUFFICES ASSUME NEW k \in 1 .. m
               PROVE  /\ todos2[k] \in Todo /\ todos2[k].k = todos[k].k
                      /\ \A s3, l3, r, q : Above(s3, l3, todos[k], r, q) => Above(s3, l3, todos2[k], r, q)
                      /\ \A l3, r : Pending(l3, todos2[k], r) = Pending(l3, todos[k], r)
    OBVIOUS
  <2>1. CASE k = m
    <3>1. todos[m] \in Todo /\ todos2[m] = [todos[m] EXCEPT !.transfers = b]
      BY <1>0, <1>2 DEF m
    <3>2. PICK t, u : t = todos[m] /\ u = todos2[m]
      OBVIOUS
    <3>3. t \in Todo /\ u = [t EXCEPT !.transfers = b]
      BY <3>1, <3>2
    <3>4. /\ u \in Todo /\ u.k = t.k
          /\ \A s3, l3, r, q : Above(s3, l3, t, r, q) => Above(s3, l3, u, r, q)
          /\ \A l3, r : Pending(l3, u, r) = Pending(l3, t, r)
      BY <3>3, Transferring
    <3> QED BY <2>1, <3>2, <3>4
  <2>2. CASE k # m
    <3>1. k \in 1 .. n - 2 /\ k \in 1 .. n
      BY <1>0, <2>2
    <3>2. todos2[k] = todos[k] /\ todos[k] \in Todo
      BY <1>2, <3>1
    <3> QED BY <3>2
  <2> QED BY <2>1, <2>2
<1>6. Shaped(ls2, todos2, g2)
  <2>1. todos2[1].k = todos[1].k /\ g2[1] = g[1]
    BY <1>0, <1>4, <1>5
  <2>2. Len(g2) = Len(todos2) /\ Len(todos2) >= 1
    BY <1>0, <1>4 DEF m
  <2> QED BY <1>3, <1>4, <2>1, <2>2 DEF Shaped
<1>7. ASSUME NEW k \in 1 .. m
      PROVE  /\ k \in 1 .. n /\ g[k].h \in Nat /\ g[k].d \in Nat /\ g[k].n \in Nat
             /\ g[k].h <= g[m].h /\ g[k].d <= g[m].d /\ g[k].n <= g[m].n
             /\ 1 .. g[k].h \subseteq 1 .. g[m].h /\ 1 .. g[k].d \subseteq 1 .. g[m].d
  <2>1. k \in 1 .. n
    BY <1>0
  <2>2. CASE k = m
    <3>1. g[m].h \in Nat /\ g[m].d \in Nat /\ g[m].n \in Nat
      BY <1>2, <2>1, <2>2 DEF Level
    <3> QED BY <2>1, <2>2, <3>1
  <2>3. CASE k < m
    <3>1. g[k].h < g[m].h /\ g[k].d < g[m].d /\ g[k].n + LoopsOf(todos[m].k) <= g[m].n
      BY <1>0, <2>1, <2>3 DEF Nest, Ordered
    <3>2. /\ g[k].h \in Nat /\ g[k].d \in Nat /\ g[k].n \in Nat /\ g[m].h \in Nat /\ g[m].d \in Nat /\ g[m].n \in Nat
          /\ LoopsOf(todos[m].k) \in Nat
      BY <1>0, <1>2, <2>1 DEF Level, LoopsOf
    <3>3. PICK x, y, z, u, v, w, o : /\ x = g[k].h /\ y = g[k].d /\ z = g[k].n
                                     /\ u = g[m].h /\ v = g[m].d /\ w = g[m].n /\ o = LoopsOf(todos[m].k)
      OBVIOUS
    <3>4. x \in Nat /\ y \in Nat /\ z \in Nat /\ u \in Nat /\ v \in Nat /\ w \in Nat /\ o \in Nat /\ x < u /\ y < v /\ z + o <= w
      BY <3>1, <3>2, <3>3
    <3>6. x <= u /\ y <= v /\ z <= w
      BY <3>4
    <3>5. x <= u /\ y <= v /\ z <= w /\ 1 .. x \subseteq 1 .. u /\ 1 .. y \subseteq 1 .. v
      BY <3>4, <3>6, Below2
    <3> QED BY <2>1, <3>3, <3>4, <3>5
  <2> QED BY <1>0, <2>2, <2>3
<1>8. ASSUME NEW k \in 1 .. m PROVE LevelOK(s2, decls2, g2[k])
  <2>1. k \in 1 .. n /\ g[k].h <= g[m].h /\ g[k].d <= g[m].d /\ 1 .. g[k].h \subseteq 1 .. g[m].h /\ 1 .. g[k].d \subseteq 1 .. g[m].d
    BY <1>7
  <2>2. LevelOK(s, decls, g[k]) /\ g[k] \in Level /\ g2[k] = g[k]
    BY <1>2, <1>4, <2>1 DEF Nest
  <2>6. Len(s2.scopes) \in Nat /\ Len(decls2) \in Nat
    BY DEF SlotsOK, DeclaredOK
  <2>3. /\ Len(s2.types) \in Nat /\ Len(s.types) <= Len(s2.types) /\ \A i \in 1 .. Len(s.types) : s2.types[i] = s.types[i]
        /\ Len(s2.scopes) \in Nat /\ Len(decls2) \in Nat
    BY <1>1, <2>6
  <2>4. g[k].h <= Len(s2.scopes) /\ \A i \in 1 .. g[k].h : s2.scopes[i] = s.scopes[i]
    BY <2>1 DEF m
  <2>5. g[k].d <= Len(decls2) /\ \A i \in 1 .. g[k].d : decls2[i] = decls[i]
    BY <2>1 DEF m
  <2> QED BY <1>3, <2>2, <2>3, <2>4, <2>5, LevelKept
<1>9. ASSUME NEW k \in 2 .. m
      PROVE  todos[k].k \in LoopKinds => ls2[g[k].n] = ls[g[k].n]
  <2>1. k \in 1 .. m /\ k \in 2 .. n
    BY <1>0
  <2>2. todos[k].k \in LoopKinds => g[k].n \in 1 .. Len(ls)
    BY <2>1, NestBounds
  <2>3. g[k].n <= g[m].n /\ g[m].n \in Nat
    BY <1>0, <1>7, <2>1
  <2>5. PICK x, y, z : x = g[k].n /\ y = g[m].n /\ z = Len(ls)
    OBVIOUS
  <2>6. y \in Nat /\ z \in Nat /\ x <= y /\ (todos[k].k \in LoopKinds => x \in 1 .. z)
    BY <1>1, <2>2, <2>3, <2>5
  <2>7. todos[k].k \in LoopKinds => x \in 1 .. y
    BY <2>6
  <2>4. todos[k].k \in LoopKinds => g[k].n \in 1 .. g[m].n
    BY <2>5, <2>7
  <2> QED BY <2>4 DEF m
<1>10. ASSUME NEW k \in 2 .. m PROVE Above(s2, ls2, todos2[k], g2[k], g2[k - 1])
  <2>1. k \in 1 .. m /\ k \in 2 .. n /\ k - 1 \in 1 .. m
    BY <1>0
  <2>2. g2[k] = g[k] /\ g2[k - 1] = g[k - 1]
    BY <1>4, <2>1
  <2>3. PICK t, r, q : t = todos[k] /\ r = g[k] /\ q = g[k - 1]
    OBVIOUS
  <2>4. Above(s, ls, t, r, q)
    BY <2>1, <2>3 DEF Nest
  <2>5. r.h \in Nat /\ q.h \in Nat /\ r.h <= g[m].h
    BY <1>7, <2>1, <2>3
  <2>6. /\ Len(s.types) \in Nat /\ Len(s2.types) \in Nat /\ Len(s.types) <= Len(s2.types)
        /\ \A i \in 1 .. Len(s.types) : s2.types[i] = s.types[i]
    BY <1>1
  <2>7. \A i \in q.h + 1 .. r.h - 1 : s2.scopes[i] = s.scopes[i]
    <3>1. g[m].h \in Nat
      BY <1>0, <1>7
    <3>3. PICK x, y, z : x = r.h /\ y = q.h /\ z = g[m].h
      OBVIOUS
    <3>4. x \in Nat /\ y \in Nat /\ z \in Nat /\ x <= z
      BY <2>5, <3>1, <3>3
    <3>5. y + 1 .. x - 1 \subseteq 1 .. z
      BY <3>4
    <3>2. q.h + 1 .. r.h - 1 \subseteq 1 .. g[m].h
      BY <3>3, <3>5
    <3> QED BY <3>2 DEF m
  <2>8. t.k \in LoopKinds => ls2[r.n].kind = ls[r.n].kind /\ ls2[r.n].body = ls[r.n].body
                             /\ ls2[r.n].continueTarget = ls[r.n].continueTarget
    BY <1>9, <2>3
  <2>9. Above(s2, ls2, t, r, q)
    BY <2>4, <2>5, <2>6, <2>7, <2>8, AboveKept
  <2> QED BY <1>5, <2>1, <2>2, <2>3, <2>9
<1>11. Ordered(todos2, g2)
  <2> SUFFICES ASSUME NEW j \in 1 .. m, NEW k \in 1 .. m, j < k
               PROVE  /\ ~todos2[j].transfers
                      /\ g2[j].h < g2[k].h /\ g2[j].d < g2[k].d /\ g2[j].n + LoopsOf(todos2[k].k) <= g2[k].n
                      /\ Inner(g2[k].base, g2[j].base)
    BY <1>4 DEF Ordered
  <2>1. j \in 1 .. n /\ k \in 1 .. n /\ j \in 1 .. n - 2
    BY <1>0
  <2>4. todos2[j] = todos[j]
    BY <2>1
  <2>5. todos2[k].k = todos[k].k
    BY <1>5
  <2>6. g2[j] = g[j] /\ g2[k] = g[k]
    BY <1>4
  <2>2. todos2[j] = todos[j] /\ todos2[k].k = todos[k].k /\ g2[j] = g[j] /\ g2[k] = g[k]
    BY <2>4, <2>5, <2>6
  <2>3. /\ ~todos[j].transfers
        /\ g[j].h < g[k].h /\ g[j].d < g[k].d /\ g[j].n + LoopsOf(todos[k].k) <= g[k].n
        /\ Inner(g[k].base, g[j].base)
    BY <2>1 DEF Nest, Ordered
  <2> QED BY <2>2, <2>3
<1>12. ASSUME NEW l \in 1 .. Len(ls2)
       PROVE  \E k \in 2 .. m : todos2[k].k \in LoopKinds /\ g2[k].n = l
  <2>1. g[m].n \in Nat /\ Len(ls2) = g[m].n
    BY <1>0, <1>7 DEF m
  <2>2. g[m].n <= Len(ls) /\ g[n].n = Len(ls)
    <3>1. m \in 1 .. Len(g) /\ Len(g) = n
      BY <1>0
    <3> QED BY <3>1, NestBounds DEF Nest
  <2>3. l \in 1 .. Len(ls)
    <3>1. 1 .. g[m].n \subseteq 1 .. Len(ls)
      BY <1>1, <2>1, <2>2, Below2
    <3> QED BY <2>1, <3>1
  <2>4. PICK k \in 2 .. n : todos[k].k \in LoopKinds /\ g[k].n = l
    BY <2>3 DEF Nest
  <2>5. k # n
    <3> SUFFICES ASSUME k = n PROVE FALSE
      OBVIOUS
    <3>1. g[n].n = g[m].n + 1
      <4>1. n \in 2 .. Len(g) /\ todos[n].k \in LoopKinds
        BY <1>0, <2>4
      <4> QED BY <4>1, NestLoop DEF m
    <3>2. PICK x, y : x = g[n].n /\ y = g[m].n
      OBVIOUS
    <3>3. x = y + 1 /\ y \in Nat /\ l = x /\ l <= y
      BY <2>1, <2>4, <3>1, <3>2
    <3> QED BY <3>3
  <2>6. k \in 2 .. m /\ k \in 1 .. m
    BY <1>0, <2>4, <2>5
  <2> QED BY <1>4, <1>5, <2>4, <2>6
<1>13. /\ lvl = [p \in DOMAIN lvl |-> lvl[p]]
       /\ \A p \in DOMAIN lvl : lvl[p] \in 2 .. n /\ p \in Nat
       /\ \A k \in 2 .. n : {p \in DOMAIN lvl : lvl[p] = k} = Pending(ls, todos[k], g[k])
  BY DEF Nest, Placed
<1>14. /\ DOMAIN lvl2 = {p \in DOMAIN lvl : lvl[p] # n}
       /\ \A p \in DOMAIN lvl2 : lvl2[p] = lvl[p]
       /\ lvl2 = [p \in DOMAIN lvl2 |-> lvl2[p]]
  BY DEF Left
<1> HIDE DEF lvl2
<1>15. ASSUME NEW k \in 2 .. m
       PROVE  {p \in DOMAIN lvl2 : lvl2[p] = k} = Pending(ls2, todos2[k], g2[k])
  <2>1. k \in 1 .. m /\ k \in 2 .. n /\ k # n
    BY <1>0
  <2>2. {p \in DOMAIN lvl2 : lvl2[p] = k} = {p \in DOMAIN lvl : lvl[p] = k}
    BY <1>14, <2>1
  <2>3. Pending(ls2, todos[k], g[k]) = Pending(ls, todos[k], g[k])
    BY <1>9 DEF Pending
  <2>4. Pending(ls, todos[k], g[k]) = {p \in DOMAIN lvl : lvl[p] = k}
    BY <1>13, <2>1
  <2>6. \A l3, r : Pending(l3, todos2[k], r) = Pending(l3, todos[k], r)
    BY <1>5, <2>1
  <2>7. g2[k] = g[k]
    BY <1>4, <2>1
  <2>5. g2[k] = g[k] /\ Pending(ls2, todos2[k], g[k]) = Pending(ls2, todos[k], g[k])
    BY <2>6, <2>7
  <2> QED BY <2>2, <2>3, <2>4, <2>5
<1>16. Placed(ls2, todos2, g2, lvl2)
  <2>1. \A p \in DOMAIN lvl2 : lvl2[p] \in 2 .. m /\ p \in Nat
    BY <1>0, <1>13, <1>14
  <2> QED BY <1>4, <1>14, <1>15, <2>1 DEF Placed
<1>17. g2[m].h = Len(s2.scopes) /\ g2[m].d = Len(decls2) /\ g2[m].n = Len(ls2)
  BY <1>0, <1>4 DEF m
<1>18. Nest(s2, ls2, todos2, decls2, g2, lvl2)
  BY <1>4, <1>6, <1>8, <1>10, <1>11, <1>12, <1>16, <1>17 DEF Nest
<1>19. Exits(g2, lvl2) = Unpatched(Exits(g, lvl), Pending(ls, todos[n], g[n]))
  <2>1. n \in 2 .. n
    BY <1>0
  <2>2. Pending(ls, todos[n], g[n]) = {p \in DOMAIN lvl : lvl[p] = n}
    BY <1>13, <2>1
  <2>3. DOMAIN lvl2 = DOMAIN lvl \ Pending(ls, todos[n], g[n])
    BY <1>14, <2>2
  <2>4. ASSUME NEW p \in DOMAIN lvl2 PROVE g2[lvl2[p]].exit = Exits(g, lvl)[p]
    <3>1. p \in DOMAIN lvl /\ lvl2[p] = lvl[p] /\ lvl[p] \in 1 .. m
      BY <1>0, <1>13, <1>14
    <3> QED BY <1>4, <3>1 DEF Exits
  <2>5. DOMAIN Exits(g, lvl) = DOMAIN lvl
    BY DEF Exits
  <2>6. Exits(g2, lvl2) = [p \in DOMAIN lvl2 |-> Exits(g, lvl)[p]]
    <3>1. Exits(g2, lvl2) = [p \in DOMAIN lvl2 |-> g2[lvl2[p]].exit]
      BY DEF Exits
    <3> QED BY <2>4, <3>1
  <2> QED BY <2>3, <2>5, <2>6 DEF Unpatched
<1> QED BY <1>4, <1>18, <1>19 DEF m

\* The innermost block transfers control.
LEMMA NestTransfer ==
  ASSUME NEW s, NEW ls, NEW todos, NEW decls, NEW g, NEW lvl, Nest(s, ls, todos, decls, g, lvl),
         NEW todos2, todos2 = [todos EXCEPT ![Len(todos)].transfers = TRUE]
  PROVE  /\ Nest(s, ls, todos2, decls, g, lvl)
         /\ Len(todos2) = Len(todos) /\ todos2[Len(todos)].transfers = TRUE
         /\ \A k \in 1 .. Len(todos) : todos2[k].k = todos[k].k /\ todos2[k].back = todos[k].back
<1> DEFINE n == Len(todos)
<1>1. /\ todos \in Seq(Todo) /\ n \in Nat \ {0} /\ Len(g) = n /\ n \in 1 .. n
      /\ \A k \in 1 .. n : todos[k] \in Todo
  BY DEF Nest, Shaped
<1>2. /\ todos2 \in Seq(Todo) /\ Len(todos2) = n /\ todos2[n] = [todos[n] EXCEPT !.transfers = TRUE]
      /\ \A k \in 1 .. n : k # n => todos2[k] = todos[k]
  <2>1. [todos[n] EXCEPT !.transfers = TRUE] \in Todo
    BY <1>1 DEF Todo
  <2>2. PICK e : e = [todos[n] EXCEPT !.transfers = TRUE]
    OBVIOUS
  <2>3. todos2 = [todos EXCEPT ![n] = e]
    BY <2>2
  <2>4. e \in Todo /\ n \in 1 .. Len(todos)
    BY <1>1, <2>1, <2>2
  <2>5. /\ [todos EXCEPT ![n] = e] \in Seq(Todo) /\ Len([todos EXCEPT ![n] = e]) = Len(todos)
        /\ \A j \in 1 .. Len(todos) : [todos EXCEPT ![n] = e][j] = IF j = n THEN e ELSE todos[j]
    BY <1>1, <2>4, ExceptSeq
  <2> QED BY <1>1, <2>2, <2>3, <2>5
<1> HIDE DEF n
<1>3. \A k \in 1 .. n : /\ todos2[k].k = todos[k].k /\ todos2[k].back = todos[k].back
                        /\ \A s3, l3, r, q : Above(s3, l3, todos[k], r, q) => Above(s3, l3, todos2[k], r, q)
                        /\ \A l3, r : Pending(l3, todos2[k], r) = Pending(l3, todos[k], r)
  <2> SUFFICES ASSUME NEW k \in 1 .. n
               PROVE  /\ todos2[k].k = todos[k].k /\ todos2[k].back = todos[k].back
                      /\ \A s3, l3, r, q : Above(s3, l3, todos[k], r, q) => Above(s3, l3, todos2[k], r, q)
                      /\ \A l3, r : Pending(l3, todos2[k], r) = Pending(l3, todos[k], r)
    OBVIOUS
  <2>1. CASE k = n
    <3>2. PICK t, u : t = todos[n] /\ u = todos2[n]
      OBVIOUS
    <3>6. PICK b \in BOOLEAN : b = TRUE
      OBVIOUS
    <3>3. t \in Todo /\ u = [t EXCEPT !.transfers = b]
      BY <1>1, <1>2, <3>2, <3>6
    <3>4. /\ u \in Todo /\ u.k = t.k
          /\ \A s3, l3, r, q : Above(s3, l3, t, r, q) => Above(s3, l3, u, r, q)
          /\ \A l3, r : Pending(l3, u, r) = Pending(l3, t, r)
      BY <3>3, Transferring
    <3>5. u.back = t.back
      BY <3>3 DEF Todo
    <3> QED BY <2>1, <3>2, <3>4, <3>5
  <2>2. CASE k # n
    <3>1. todos2[k] = todos[k]
      BY <1>2, <2>2
    <3> QED BY <3>1
  <2> QED BY <2>1, <2>2
<1>4. \A j, k \in 1 .. n : j < k => todos2[j] = todos[j]
  <2> SUFFICES ASSUME NEW j \in 1 .. n, NEW k \in 1 .. n, j < k PROVE j # n
    BY <1>2
  <2> QED BY <1>1
<1>5. Shaped(ls, todos2, g)
  <2>1. 1 \in 1 .. n
    BY <1>1
  <2>2. todos2[1].k = todos[1].k
    BY <1>3, <2>1
  <2> QED BY <1>1, <1>2, <2>2 DEF Nest, Shaped
<1>6. \A k \in 2 .. n : k \in 1 .. n
  BY <1>1
<1>7. \A k \in 2 .. n : Above(s, ls, todos2[k], g[k], g[k - 1])
  BY <1>1, <1>3, <1>6 DEF Nest
<1>8. Ordered(todos2, g)
  <2> SUFFICES ASSUME NEW j \in 1 .. n, NEW k \in 1 .. n, j < k
               PROVE  /\ ~todos2[j].transfers
                      /\ g[j].h < g[k].h /\ g[j].d < g[k].d /\ g[j].n + LoopsOf(todos2[k].k) <= g[k].n
                      /\ Inner(g[k].base, g[j].base)
    BY <1>1 DEF Ordered
  <2>1. /\ ~todos[j].transfers
        /\ g[j].h < g[k].h /\ g[j].d < g[k].d /\ g[j].n + LoopsOf(todos[k].k) <= g[k].n
        /\ Inner(g[k].base, g[j].base)
    BY <1>1 DEF Nest, Ordered
  <2>2. todos2[j] = todos[j] /\ todos2[k].k = todos[k].k
    BY <1>3, <1>4
  <2> QED BY <2>1, <2>2
<1>9. \A l \in 1 .. Len(ls) : \E k \in 2 .. n : todos2[k].k \in LoopKinds /\ g[k].n = l
  BY <1>1, <1>3, <1>6 DEF Nest
<1>10. Placed(ls, todos2, g, lvl)
  <2>1. ASSUME NEW k \in 2 .. n PROVE Pending(ls, todos2[k], g[k]) = Pending(ls, todos[k], g[k])
    <3>1. \A l3, r : Pending(l3, todos2[k], r) = Pending(l3, todos[k], r)
      BY <1>3, <1>6
    <3> QED BY <3>1
  <2> QED BY <1>1, <2>1 DEF Nest, Placed
<1>11. Nest(s, ls, todos2, decls, g, lvl)
  BY <1>1, <1>5, <1>7, <1>8, <1>9, <1>10 DEF Nest
<1>12. Len(todos2) = Len(todos) /\ todos2[Len(todos)].transfers = TRUE
  <2>1. todos2[n].transfers = TRUE
    BY <1>1, <1>2 DEF Todo
  <2> QED BY <1>2, <2>1 DEF n
<1> QED BY <1>3, <1>11, <1>12 DEF n

\* A loop is left: the placeholder belongs to the level of its body.
LEMMA NestBreak ==
  ASSUME NEW s, NEW ls, NEW todos, NEW decls, NEW g, NEW lvl, Nest(s, ls, todos, decls, g, lvl),
         NEW k \in 2 .. Len(g), todos[k].k \in LoopKinds, NEW at \in Nat, at \notin DOMAIN lvl,
         NEW ls2, ls2 = [ls EXCEPT ![g[k].n].breaks = @ \union {at}]
  PROVE  /\ Nest(s, ls2, todos, decls, g, Opened(lvl, at, k))
         /\ Exits(g, Opened(lvl, at, k)) = Opened(Exits(g, lvl), at, g[k].exit)
<1> DEFINE n == Len(g)
           l == g[k].n
           lvl2 == Opened(lvl, at, k)
<1>1. /\ n \in Nat \ {0} /\ Len(todos) = n /\ Len(ls) \in Nat /\ l \in 1 .. Len(ls) /\ ls \in Seq(Loops)
  BY NestTypes, NestBounds DEF Nest, Shaped
<1>2. /\ ls2 \in Seq(Loops) /\ Len(ls2) = Len(ls) /\ ls2[l].breaks = ls[l].breaks \union {at}
      /\ \A m \in 1 .. Len(ls) : /\ ls2[m].kind = ls[m].kind /\ ls2[m].body = ls[m].body
                                 /\ ls2[m].continueTarget = ls[m].continueTarget
                                 /\ m # l => ls2[m].breaks = ls[m].breaks
  <2>1. ls[l] \in Loops
    BY <1>1
  <2>2. [ls[l] EXCEPT !.breaks = @ \union {at}] \in Loops
    BY <2>1 DEF Loops
  <2>6. PICK e : e = [ls[l] EXCEPT !.breaks = @ \union {at}]
    OBVIOUS
  <2>3. ls2 = [ls EXCEPT ![l] = e] /\ e \in Loops
    BY <2>2, <2>6
  <2>7. /\ [ls EXCEPT ![l] = e] \in Seq(Loops) /\ Len([ls EXCEPT ![l] = e]) = Len(ls)
        /\ \A j \in 1 .. Len(ls) : [ls EXCEPT ![l] = e][j] = IF j = l THEN e ELSE ls[j]
    BY <1>1, <2>3, ExceptSeq
  <2>4. ls2 \in Seq(Loops) /\ Len(ls2) = Len(ls) /\ ls2[l] = [ls[l] EXCEPT !.breaks = @ \union {at}]
        /\ \A m \in 1 .. Len(ls) : m # l => ls2[m] = ls[m]
    BY <1>1, <2>3, <2>6, <2>7
  <2>8. e.breaks = ls[l].breaks \union {at} /\ e.kind = ls[l].kind /\ e.body = ls[l].body /\ e.continueTarget = ls[l].continueTarget
    BY <2>1, <2>6 DEF Loops
  <2>5. ASSUME NEW m \in 1 .. Len(ls)
        PROVE  /\ ls2[m].kind = ls[m].kind /\ ls2[m].body = ls[m].body
               /\ ls2[m].continueTarget = ls[m].continueTarget
               /\ m # l => ls2[m].breaks = ls[m].breaks
    <3>1. CASE m = l
      BY <2>4, <2>6, <2>8, <3>1
    <3>2. CASE m # l
      BY <2>4, <3>2
    <3> QED BY <3>1, <3>2
  <2>9. ls2[l].breaks = ls[l].breaks \union {at}
    BY <2>4, <2>6, <2>8
  <2> QED BY <2>4, <2>5, <2>9
<1> HIDE DEF l, n
<1>3. ASSUME NEW j \in 2 .. n, todos[j].k \in LoopKinds PROVE g[j].n \in 1 .. Len(ls) /\ (g[j].n = l => j = k)
  <2>1. j \in 1 .. n /\ k \in 1 .. n /\ j \in Nat /\ k \in Nat
    BY <1>1 DEF n
  <2>2. g[j].n \in 1 .. Len(ls)
    BY <1>3, NestBounds DEF n
  <2>3. g[j].n \in Nat /\ g[k].n \in Nat
    BY <1>1, <2>2 DEF l
  <2>4. CASE j < k
    <3>1. g[j].n + 1 <= g[k].n
      BY <2>1, <2>4 DEF Nest, Ordered, LoopsOf, n
    <3> QED BY <2>2, <2>3, <3>1 DEF l
  <2>5. CASE k < j
    <3>1. g[k].n + 1 <= g[j].n
      BY <1>3, <2>1, <2>5 DEF Nest, Ordered, LoopsOf, n
    <3> QED BY <2>2, <2>3, <3>1 DEF l
  <2> QED BY <2>1, <2>2, <2>4, <2>5
<1>4. Shaped(ls2, todos, g)
  BY <1>2 DEF Nest, Shaped
<1>5. ASSUME NEW j \in 2 .. n PROVE Above(s, ls2, todos[j], g[j], g[j - 1])
  <2>1. PICK t, r, q : t = todos[j] /\ r = g[j] /\ q = g[j - 1]
    OBVIOUS
  <2>2. Above(s, ls, t, r, q)
    BY <2>1 DEF Nest, n
  <2>3. t.k \in LoopKinds => ls2[r.n].kind = ls[r.n].kind /\ ls2[r.n].body = ls[r.n].body
                             /\ ls2[r.n].continueTarget = ls[r.n].continueTarget
    BY <1>2, <1>3, <2>1
  <2>4. Above(s, ls2, t, r, q)
    BY <2>2, <2>3 DEF Above
  <2> QED BY <2>1, <2>4
<1>6. /\ lvl = [p \in DOMAIN lvl |-> lvl[p]]
      /\ \A p \in DOMAIN lvl : lvl[p] \in 2 .. n /\ p \in Nat
      /\ \A j \in 2 .. n : {p \in DOMAIN lvl : lvl[p] = j} = Pending(ls, todos[j], g[j])
  BY DEF Nest, Placed, n
<1>7. /\ DOMAIN lvl2 = DOMAIN lvl \union {at} /\ lvl2[at] = k
      /\ \A p \in DOMAIN lvl : lvl2[p] = lvl[p]
      /\ lvl2 = [p \in DOMAIN lvl2 |-> lvl2[p]]
  BY DEF Opened
<1> HIDE DEF lvl2
<1>8. ASSUME NEW j \in 2 .. n PROVE {p \in DOMAIN lvl2 : lvl2[p] = j} = Pending(ls2, todos[j], g[j])
  <2>1. CASE j = k
    <3>1. {p \in DOMAIN lvl2 : lvl2[p] = j} = {p \in DOMAIN lvl : lvl[p] = j} \union {at}
      BY <1>7, <2>1
    <3>2. Pending(ls2, todos[j], g[j]) = Pending(ls, todos[j], g[j]) \union {at}
      BY <1>2, <2>1 DEF Pending, l
    <3> QED BY <1>6, <3>1, <3>2
  <2>2. CASE j # k
    <3>1. {p \in DOMAIN lvl2 : lvl2[p] = j} = {p \in DOMAIN lvl : lvl[p] = j}
      BY <1>7, <2>2
    <3>2. todos[j].k \in LoopKinds => ls2[g[j].n].breaks = ls[g[j].n].breaks
      BY <1>2, <1>3, <2>2
    <3>3. Pending(ls2, todos[j], g[j]) = Pending(ls, todos[j], g[j])
      BY <3>2 DEF Pending
    <3> QED BY <1>6, <3>1, <3>3
  <2> QED BY <2>1, <2>2
<1>9. Placed(ls2, todos, g, lvl2)
  BY <1>6, <1>7, <1>8 DEF Placed, n
<1>10. Nest(s, ls2, todos, decls, g, lvl2)
  BY <1>2, <1>4, <1>5, <1>9 DEF Nest, n
<1>11. Exits(g, lvl2) = Opened(Exits(g, lvl), at, g[k].exit)
  <2>1. DOMAIN Exits(g, lvl) = DOMAIN lvl /\ \A p \in DOMAIN lvl : Exits(g, lvl)[p] = g[lvl[p]].exit
    BY DEF Exits
  <2>2. Exits(g, lvl2) = [p \in DOMAIN lvl \union {at} |-> g[lvl2[p]].exit]
    BY <1>7 DEF Exits
  <2>3. \A p \in DOMAIN lvl \union {at} : g[lvl2[p]].exit = IF p = at THEN g[k].exit ELSE Exits(g, lvl)[p]
    BY <1>7, <2>1
  <2> QED BY <2>1, <2>2, <2>3 DEF Opened
<1> QED BY <1>10, <1>11 DEF lvl2

\* A sequence with one element more, and with the last one less.
LEMMA Appended ==
  ASSUME NEW S, NEW f \in Seq(S), NEW e \in S
  PROVE  /\ Append(f, e) \in Seq(S) /\ Len(Append(f, e)) = Len(f) + 1 /\ Append(f, e)[Len(f) + 1] = e
         /\ \A i \in 1 .. Len(f) : Append(f, e)[i] = f[i]
         /\ Len(f) \in Nat
OBVIOUS

\* The beginning of a sequence.
LEMMA Shortened ==
  ASSUME NEW S, NEW f \in Seq(S), NEW m \in 0 .. Len(f)
  PROVE  /\ SubSeq(f, 1, m) \in Seq(S) /\ Len(SubSeq(f, 1, m)) = m
         /\ \A i \in 1 .. m : SubSeq(f, 1, m)[i] = f[i]
OBVIOUS

\* A scope is opened.
LEMMA SlotsPush ==
  ASSUME NEW s, SlotsOK(s)
  PROVE  /\ SlotsOK(PushScope(s)) /\ PushScope(s).types = s.types /\ PushScope(s).of = s.of
         /\ Len(s.scopes) \in Nat /\ Len(PushScope(s).scopes) = Len(s.scopes) + 1
         /\ PushScope(s).scopes[Len(s.scopes) + 1] = << >>
         /\ \A i \in 1 .. Len(s.scopes) : PushScope(s).scopes[i] = s.scopes[i]
<1> DEFINE s2 == PushScope(s)
<1>1. /\ s \in [types : Seq(SlotTypes), of : [Names -> Nat], scopes : Seq(Seq(Nat \ {0})), params : {<<1>>}]
      /\ s.scopes \in Seq(Seq(Nat \ {0})) /\ << >> \in Seq(Nat \ {0})
  BY DEF SlotsOK
<1>2. s2.scopes = Append(s.scopes, << >>) /\ s2.types = s.types /\ s2.of = s.of /\ s2.params = s.params
  BY <1>1 DEF PushScope
<1>3. /\ s2.scopes \in Seq(Seq(Nat \ {0})) /\ Len(s2.scopes) = Len(s.scopes) + 1
      /\ s2.scopes[Len(s.scopes) + 1] = << >> /\ Len(s.scopes) \in Nat
      /\ \A i \in 1 .. Len(s.scopes) : s2.scopes[i] = s.scopes[i]
  BY <1>1, <1>2, Appended
<1>4. s2 \in [types : Seq(SlotTypes), of : [Names -> Nat], scopes : Seq(Seq(Nat \ {0})), params : {<<1>>}]
  BY <1>1, <1>3 DEF PushScope
<1> HIDE DEF s2
<1>5. ASSUME NEW i \in 1 .. Len(s2.scopes), NEW m \in 1 .. Len(s2.scopes[i])
      PROVE  i \in 1 .. Len(s.scopes) /\ s2.scopes[i] = s.scopes[i]
  <2>1. CASE i = Len(s.scopes) + 1
    BY <1>3, <2>1
  <2>2. CASE i # Len(s.scopes) + 1
    <3>1. i \in 1 .. Len(s.scopes)
      BY <1>3, <2>2
    <3> QED BY <1>3, <3>1
  <2> QED BY <2>1, <2>2
<1>6. Apart(s2.types, s2.scopes)
  <2>1. /\ \A i \in 1 .. Len(s.scopes) : \A m \in 1 .. Len(s.scopes[i]) : s.types[s.scopes[i][m]] \in {"string", "strs"}
        /\ \A i, j \in 1 .. Len(s.scopes) : \A m \in 1 .. Len(s.scopes[i]), n \in 1 .. Len(s.scopes[j]) :
             s.scopes[i][m] = s.scopes[j][n] => i = j /\ m = n
    BY DEF SlotsOK, Apart
  <2>2. ASSUME NEW i \in 1 .. Len(s2.scopes), NEW m \in 1 .. Len(s2.scopes[i])
        PROVE  s2.types[s2.scopes[i][m]] \in {"string", "strs"}
    BY <1>2, <1>3, <1>5, <2>1
  <2>3. ASSUME NEW i \in 1 .. Len(s2.scopes), NEW j \in 1 .. Len(s2.scopes),
               NEW m \in 1 .. Len(s2.scopes[i]), NEW n \in 1 .. Len(s2.scopes[j]), s2.scopes[i][m] = s2.scopes[j][n]
        PROVE  i = j /\ m = n
    <3>1. /\ i \in 1 .. Len(s.scopes) /\ s2.scopes[i] = s.scopes[i]
          /\ j \in 1 .. Len(s.scopes) /\ s2.scopes[j] = s.scopes[j]
      BY <1>3, <1>5
    <3> QED BY <2>1, <2>3, <3>1
  <2> QED BY <1>3, <2>2, <2>3 DEF Apart
<1>7. SlotsOK(s2)
  BY <1>2, <1>4, <1>5, <1>6 DEF SlotsOK
<1> QED BY <1>2, <1>3, <1>7 DEF s2

\* Scopes are closed: the first m stay.
LEMMA SlotsKept ==
  ASSUME NEW s, SlotsOK(s), NEW h \in 0 .. Len(s.scopes)
  PROVE  LET s2 == [s EXCEPT !.scopes = SubSeq(s.scopes, 1, h)]
         IN  /\ SlotsOK(s2) /\ s2.types = s.types /\ s2.of = s.of /\ Len(s2.scopes) = h
             /\ \A i \in 1 .. h : s2.scopes[i] = s.scopes[i]
<1> DEFINE s2 == [s EXCEPT !.scopes = SubSeq(s.scopes, 1, h)]
<1>1. /\ s \in [types : Seq(SlotTypes), of : [Names -> Nat], scopes : Seq(Seq(Nat \ {0})), params : {<<1>>}]
      /\ s.scopes \in Seq(Seq(Nat \ {0}))
  BY DEF SlotsOK
<1>2. s2.scopes = SubSeq(s.scopes, 1, h) /\ s2.types = s.types /\ s2.of = s.of /\ s2.params = s.params
  BY <1>1
<1>3. /\ s2.scopes \in Seq(Seq(Nat \ {0})) /\ Len(s2.scopes) = h
      /\ \A i \in 1 .. h : s2.scopes[i] = s.scopes[i]
  BY <1>1, <1>2, Shortened
<1>4. s2 \in [types : Seq(SlotTypes), of : [Names -> Nat], scopes : Seq(Seq(Nat \ {0})), params : {<<1>>}]
  BY <1>1, <1>2, <1>3
<1> HIDE DEF s2
<1>5. 1 .. h \subseteq 1 .. Len(s.scopes)
  BY <1>1
<1>6. Apart(s2.types, s2.scopes)
  <2>1. /\ \A i \in 1 .. Len(s.scopes) : \A m \in 1 .. Len(s.scopes[i]) : s.types[s.scopes[i][m]] \in {"string", "strs"}
        /\ \A i, j \in 1 .. Len(s.scopes) : \A m \in 1 .. Len(s.scopes[i]), n \in 1 .. Len(s.scopes[j]) :
             s.scopes[i][m] = s.scopes[j][n] => i = j /\ m = n
    BY DEF SlotsOK, Apart
  <2>2. ASSUME NEW i \in 1 .. Len(s2.scopes), NEW m \in 1 .. Len(s2.scopes[i])
        PROVE  s2.types[s2.scopes[i][m]] \in {"string", "strs"}
    BY <1>2, <1>3, <1>5, <2>1
  <2>3. ASSUME NEW i \in 1 .. Len(s2.scopes), NEW j \in 1 .. Len(s2.scopes),
               NEW m \in 1 .. Len(s2.scopes[i]), NEW n \in 1 .. Len(s2.scopes[j]), s2.scopes[i][m] = s2.scopes[j][n]
        PROVE  i = j /\ m = n
    <3>1. /\ i \in 1 .. Len(s.scopes) /\ s2.scopes[i] = s.scopes[i]
          /\ j \in 1 .. Len(s.scopes) /\ s2.scopes[j] = s.scopes[j]
      BY <1>3, <1>5
    <3> QED BY <2>1, <2>3, <3>1
  <2> QED BY <1>3, <2>2, <2>3 DEF Apart
<1>7. \A i \in 1 .. h : \A j \in 1 .. Len(s2.scopes[i]) : s2.scopes[i][j] \in 2 .. Len(s.types)
  BY <1>3, <1>5 DEF SlotsOK
<1>8. SlotsOK(s2)
  BY <1>2, <1>3, <1>4, <1>6, <1>7 DEF SlotsOK
<1> QED BY <1>2, <1>3, <1>8 DEF s2

\* The slot of a new local is nobody's yet.
Allocated(s, s2, type) ==
  /\ Len(s2.types) = Len(s.types) + 1 /\ s2.types[Len(s.types) + 1] = type
  /\ \A i \in 1 .. Len(s.types) : s2.types[i] = s.types[i]
  /\ Len(s2.scopes) = Len(s.scopes)
  /\ \A i \in 1 .. Len(s.scopes) : i # Len(s.scopes) => s2.scopes[i] = s.scopes[i]
  /\ IF NeedsDrop(type)
       THEN Range(s2.scopes[Len(s.scopes)]) = Range(s.scopes[Len(s.scopes)]) \union {Len(s.types) + 1}
       ELSE s2.scopes[Len(s.scopes)] = s.scopes[Len(s.scopes)]

\* allocateLocal keeps the slots what they are, and adds one.
LEMMA SlotsAlloc ==
  ASSUME NEW s, SlotsOK(s), Len(s.scopes) >= 1, NEW name, NEW type \in SlotTypes
  PROVE  /\ SlotsOK(AllocateLocal(s, name, type)) /\ Allocated(s, AllocateLocal(s, name, type), type)
         /\ \A nm \in Names : AllocateLocal(s, name, type).of[nm] = IF nm = name THEN Len(s.types) + 1 ELSE s.of[nm]
<1> DEFINE s2 == AllocateLocal(s, name, type)
           slot == Len(s.types) + 1
           n == Len(s.scopes)
           last == IF NeedsDrop(type) THEN Append(s.scopes[n], slot) ELSE s.scopes[n]
<1>1. /\ s \in [types : Seq(SlotTypes), of : [Names -> Nat], scopes : Seq(Seq(Nat \ {0})), params : {<<1>>}]
      /\ s.scopes \in Seq(Seq(Nat \ {0})) /\ s.types \in Seq(SlotTypes) /\ n \in 1 .. n /\ n \in Nat
      /\ s.scopes[n] \in Seq(Nat \ {0}) /\ Len(s.types) \in Nat /\ slot \in Nat \ {0} /\ s.of \in [Names -> Nat]
      /\ Len(s.types) >= 1 /\ s.types[1] = "string"
  BY DEF SlotsOK
<1>2. last \in Seq(Nat \ {0})
  BY <1>1
<1>3. /\ s2.types = Append(s.types, type) /\ s2.of = [nm \in Names |-> IF nm = name THEN slot ELSE s.of[nm]]
      /\ s2.scopes = [s.scopes EXCEPT ![n] = last] /\ s2.params = s.params
      /\ s2 = [types |-> s2.types, of |-> s2.of, scopes |-> s2.scopes, params |-> s2.params]
  <2>1. PICK t, o, sc : /\ t = Append(s.types, type) /\ o = [nm \in Names |-> IF nm = name THEN slot ELSE s.of[nm]]
                        /\ sc = [s.scopes EXCEPT ![n] = last]
    OBVIOUS
  <2>2. s2 = [s EXCEPT !.types = t, !.of = o, !.scopes = sc]
    BY <2>1 DEF AllocateLocal, NextSlot
  <2>3. s2.types = t /\ s2.of = o /\ s2.scopes = sc /\ s2.params = s.params
    BY <1>1, <2>2
  <2>4. s2 = [types |-> s2.types, of |-> s2.of, scopes |-> s2.scopes, params |-> s2.params]
    BY <1>1, <2>2, <2>3
  <2> QED BY <2>1, <2>3, <2>4
<1> HIDE DEF s2, last
<1>4. /\ s2.scopes \in Seq(Seq(Nat \ {0})) /\ Len(s2.scopes) = n /\ s2.scopes[n] = last
      /\ \A i \in 1 .. n : i # n => s2.scopes[i] = s.scopes[i]
  <2>1. /\ [s.scopes EXCEPT ![n] = last] \in Seq(Seq(Nat \ {0})) /\ Len([s.scopes EXCEPT ![n] = last]) = Len(s.scopes)
        /\ \A j \in 1 .. Len(s.scopes) : [s.scopes EXCEPT ![n] = last][j] = IF j = n THEN last ELSE s.scopes[j]
    BY <1>1, <1>2, ExceptSeq
  <2> QED BY <1>1, <1>3, <2>1
<1>5. /\ s2.types \in Seq(SlotTypes) /\ Len(s2.types) = slot /\ s2.types[slot] = type
      /\ \A i \in 1 .. Len(s.types) : s2.types[i] = s.types[i]
  BY <1>1, <1>3, Appended
<1>6. s2 \in [types : Seq(SlotTypes), of : [Names -> Nat], scopes : Seq(Seq(Nat \ {0})), params : {<<1>>}]
  <2>1. s2.of \in [Names -> Nat]
    BY <1>1, <1>3
  <2>2. s2.params \in {<<1>>}
    BY <1>1, <1>3
  <2> QED BY <1>3, <1>4, <1>5, <2>1, <2>2
<1>7. /\ NeedsDrop(type) => /\ Len(last) = Len(s.scopes[n]) + 1 /\ last[Len(s.scopes[n]) + 1] = slot
                            /\ \A m \in 1 .. Len(s.scopes[n]) : last[m] = s.scopes[n][m]
      /\ ~NeedsDrop(type) => last = s.scopes[n]
      /\ Len(s.scopes[n]) \in Nat
  BY <1>1, Appended DEF last
\* An entry of the new scopes is an old one, or the new slot.
<1>8. ASSUME NEW i \in 1 .. n, NEW m \in 1 .. Len(s2.scopes[i])
      PROVE  \/ m \in 1 .. Len(s.scopes[i]) /\ s2.scopes[i][m] = s.scopes[i][m]
             \/ i = n /\ m = Len(s.scopes[n]) + 1 /\ s2.scopes[i][m] = slot /\ NeedsDrop(type)
  <2>1. CASE i # n
    BY <1>4, <2>1
  <2>2. CASE i = n /\ ~NeedsDrop(type)
    BY <1>4, <1>7, <2>2
  <2>3. CASE i = n /\ NeedsDrop(type)
    <3>1. m \in 1 .. Len(s.scopes[n]) + 1 /\ s2.scopes[n] = last
      BY <1>4, <1>7, <2>3
    <3>2. CASE m = Len(s.scopes[n]) + 1
      BY <1>7, <2>3, <3>1, <3>2
    <3>3. CASE m # Len(s.scopes[n]) + 1
      <4>1. m \in 1 .. Len(s.scopes[n])
        BY <1>7, <3>1, <3>3
      <4> QED BY <1>7, <2>3, <3>1, <4>1
    <3> QED BY <3>2, <3>3
  <2> QED BY <2>1, <2>2, <2>3
<1>9. \A i \in 1 .. n : \A m \in 1 .. Len(s.scopes[i]) :
        /\ s.scopes[i][m] \in 2 .. Len(s.types) /\ s.types[s.scopes[i][m]] \in {"string", "strs"}
        /\ s2.types[s.scopes[i][m]] \in {"string", "strs"} /\ s.scopes[i][m] # slot
  <2> SUFFICES ASSUME NEW i \in 1 .. n, NEW m \in 1 .. Len(s.scopes[i])
               PROVE  /\ s.scopes[i][m] \in 2 .. Len(s.types) /\ s.types[s.scopes[i][m]] \in {"string", "strs"}
                      /\ s2.types[s.scopes[i][m]] \in {"string", "strs"} /\ s.scopes[i][m] # slot
    OBVIOUS
  <2>1. s.scopes[i][m] \in 2 .. Len(s.types) /\ s.types[s.scopes[i][m]] \in {"string", "strs"}
    BY DEF SlotsOK, Apart
  <2>2. s.scopes[i][m] \in 1 .. Len(s.types) /\ s.scopes[i][m] # slot
    BY <1>1, <2>1
  <2> QED BY <1>5, <2>1, <2>2
<1>10. NeedsDrop(type) => type \in {"string", "strs"}
  BY DEF NeedsDrop, DropKind, SlotTypes
<1>11. \A i \in 1 .. n : \A m \in 1 .. Len(s2.scopes[i]) :
         /\ s2.scopes[i][m] \in 2 .. Len(s2.types) /\ s2.types[s2.scopes[i][m]] \in {"string", "strs"}
  <2>1. slot \in 2 .. slot /\ 2 .. Len(s.types) \subseteq 2 .. slot
    BY <1>1
  <2> QED BY <1>5, <1>8, <1>9, <1>10, <2>1
<1>12. ASSUME NEW i \in 1 .. n, NEW j \in 1 .. n, NEW m \in 1 .. Len(s2.scopes[i]), NEW k \in 1 .. Len(s2.scopes[j]),
              s2.scopes[i][m] = s2.scopes[j][k]
       PROVE  i = j /\ m = k
  <2>1. \/ m \in 1 .. Len(s.scopes[i]) /\ s2.scopes[i][m] = s.scopes[i][m]
        \/ i = n /\ m = Len(s.scopes[n]) + 1 /\ s2.scopes[i][m] = slot
    BY <1>8
  <2>2. \/ k \in 1 .. Len(s.scopes[j]) /\ s2.scopes[j][k] = s.scopes[j][k]
        \/ j = n /\ k = Len(s.scopes[n]) + 1 /\ s2.scopes[j][k] = slot
    BY <1>8
  <2>3. Apart(s.types, s.scopes)
    BY DEF SlotsOK
  <2> QED BY <1>9, <1>12, <2>1, <2>2, <2>3 DEF Apart
<1>13. Apart(s2.types, s2.scopes)
  BY <1>4, <1>11, <1>12 DEF Apart
<1>14. \A nm \in Names : s2.of[nm] \in 0 .. Len(s2.types)
  <2> TAKE nm \in Names
  <2>1. s.of[nm] \in 0 .. Len(s.types)
    BY DEF SlotsOK
  <2>2. s2.of[nm] = IF nm = name THEN slot ELSE s.of[nm]
    BY <1>3
  <2>3. slot \in 0 .. slot /\ 0 .. Len(s.types) \subseteq 0 .. slot
    BY <1>1
  <2> QED BY <1>5, <2>1, <2>2, <2>3
<1>15. SlotsOK(s2)
  <2>1. Len(s2.types) >= 1 /\ s2.types[1] = "string"
    BY <1>1, <1>5
  <2> QED BY <1>4, <1>6, <1>11, <1>13, <1>14, <2>1 DEF SlotsOK
<1>16. Allocated(s, s2, type)
  <2>1. NeedsDrop(type) => Range(s2.scopes[n]) = Range(s.scopes[n]) \union {slot}
    <3> SUFFICES ASSUME NeedsDrop(type) PROVE Range(last) = Range(s.scopes[n]) \union {slot}
      BY <1>4
    <3>1. last \in Seq(Nat \ {0}) /\ DOMAIN last = 1 .. Len(last) /\ DOMAIN s.scopes[n] = 1 .. Len(s.scopes[n])
      BY <1>1, <1>2
    <3>2. 1 .. Len(last) = (1 .. Len(s.scopes[n])) \union {Len(s.scopes[n]) + 1}
      BY <1>7
    <3> QED BY <1>7, <3>1, <3>2 DEF Range
  <2> QED BY <1>4, <1>5, <1>7, <2>1 DEF Allocated
<1> QED BY <1>3, <1>15, <1>16 DEF s2

\* What is known at the innermost level.
Knows(s, decls, b) ==
  /\ SlotsOK(s) /\ DeclaredOK(s, decls) /\ Len(s.scopes) >= 1 /\ Len(decls) >= 1
  /\ b \in State /\ Live(b) /\ b.h = 0
  /\ b.held = HeldBy(s.types, Owners(s.scopes, Len(s.scopes)))
  /\ \A x \in Owners(s.scopes, Len(s.scopes)) : b.env[x] = Kind(s.types[x])
  /\ \A i \in 1 .. Len(decls), nm \in Names : decls[i][nm] # 0 => Stores(b, s.types, decls[i][nm])
  /\ \A x \in Nat : b.env[x] # "unset" => x \in 1 .. Len(s.types)

\* It is what the innermost level says.
LEMMA LevelKnows ==
  ASSUME NEW s, NEW decls, SlotsOK(s), DeclaredOK(s, decls),
         NEW r \in Level, r.h = Len(s.scopes), r.d = Len(decls)
  PROVE  LevelOK(s, decls, r) <=> Knows(s, decls, r.base)
<1>1. r.h \in Nat /\ r.d \in Nat /\ r.base \in State
  BY DEF Level
<1>2. LevelOK(s, decls, r) => Knows(s, decls, r.base)
  <2> SUFFICES ASSUME LevelOK(s, decls, r) PROVE Knows(s, decls, r.base)
    OBVIOUS
  <2>1. Len(s.scopes) >= 1 /\ Len(decls) >= 1
    BY <1>1 DEF LevelOK
  <2> QED BY <1>1, <2>1 DEF LevelOK, Knows
<1>3. Knows(s, decls, r.base) => LevelOK(s, decls, r)
  <2> SUFFICES ASSUME Knows(s, decls, r.base) PROVE LevelOK(s, decls, r)
    OBVIOUS
  <2>1. r.h \in 1 .. Len(s.scopes) /\ r.d \in 1 .. Len(decls)
    <3>1. r.h >= 1 /\ r.d >= 1
      BY DEF Knows
    <3> QED BY <1>1, <3>1
  <2> QED BY <2>1 DEF LevelOK, Knows
<1> QED BY <1>2, <1>3

\* A new scope holds nothing.
LEMMA KnowsPush ==
  ASSUME NEW s, NEW decls, NEW b, Knows(s, decls, b)
  PROVE  Knows(PushScope(s), decls, b)
<1> DEFINE s2 == PushScope(s)
           n == Len(s.scopes)
<1>1. /\ SlotsOK(s2) /\ s2.types = s.types /\ s2.of = s.of
      /\ n \in Nat /\ Len(s2.scopes) = n + 1 /\ s2.scopes[n + 1] = << >>
      /\ \A i \in 1 .. n : s2.scopes[i] = s.scopes[i]
  BY SlotsPush DEF Knows
<1> HIDE DEF s2, n
<1>2. Owners(s2.scopes, n + 1) = Owners(s2.scopes, n)
  <2>1. \A j \in n + 1 .. n + 1 : s2.scopes[j] = << >>
    BY <1>1
  <2> QED BY <1>1, <2>1, OwnersEmpty
<1>3. Owners(s2.scopes, n) = Owners(s.scopes, n)
  BY <1>1, OwnersSame
<1>4. DeclaredOK(s2, decls)
  BY <1>1 DEF Knows, DeclaredOK
<1>5. Owners(s2.scopes, Len(s2.scopes)) = Owners(s.scopes, Len(s.scopes)) /\ Len(s2.scopes) >= 1
  BY <1>1, <1>2, <1>3 DEF n
<1> QED BY <1>1, <1>4, <1>5 DEF Knows, s2

\* Nor does a scope of names.
LEMMA KnowsDecls ==
  ASSUME NEW s, NEW decls, NEW b, Knows(s, decls, b)
  PROVE  /\ Knows(s, Append(decls, NoDecls), b)
         /\ Len(Append(decls, NoDecls)) = Len(decls) + 1 /\ Len(decls) \in Nat
         /\ \A i \in 1 .. Len(decls) : Append(decls, NoDecls)[i] = decls[i]
         /\ Append(decls, NoDecls)[Len(decls) + 1] = NoDecls
<1> DEFINE d2 == Append(decls, NoDecls)
           n == Len(decls)
<1>1. decls \in Seq([Names -> Nat]) /\ NoDecls \in [Names -> Nat] /\ \A nm \in Names : NoDecls[nm] = 0
  BY DEF Knows, DeclaredOK, NoDecls, NoSlot
<1>2. /\ d2 \in Seq([Names -> Nat]) /\ Len(d2) = n + 1 /\ d2[n + 1] = NoDecls
      /\ \A i \in 1 .. n : d2[i] = decls[i]
      /\ n \in Nat
  BY <1>1, Appended
<1> HIDE DEF d2
<1>3. \A i \in 1 .. Len(d2), nm \in Names : d2[i][nm] # 0 => i \in 1 .. n /\ d2[i] = decls[i]
  <2> SUFFICES ASSUME NEW i \in 1 .. n + 1, NEW nm \in Names, d2[i][nm] # 0 PROVE i \in 1 .. n
    BY <1>2
  <2>1. i # n + 1
    BY <1>1, <1>2
  <2> QED BY <1>2, <2>1
<1>4. DeclaredOK(s, d2)
  <2>1. ASSUME NEW i \in 1 .. Len(d2), NEW nm \in Names, d2[i][nm] # 0
        PROVE  d2[i][nm] = s.of[nm] /\ d2[i][nm] \in 1 .. Len(s.types)
    <3>1. i \in 1 .. n /\ d2[i] = decls[i]
      BY <1>3, <2>1
    <3> QED BY <2>1, <3>1 DEF Knows, DeclaredOK
  <2> QED BY <1>2, <2>1 DEF DeclaredOK
<1>5. \A i \in 1 .. Len(d2), nm \in Names : d2[i][nm] # 0 => Stores(b, s.types, d2[i][nm])
  BY <1>3 DEF Knows
<1>6. Knows(s, d2, b)
  <2>1. Len(d2) >= 1
    BY <1>2
  <2> QED BY <1>4, <1>5, <2>1 DEF Knows
<1> QED BY <1>2, <1>6 DEF d2

\* A new local, of a name that nothing declares, or of none.
Declares(s, decls, name, decls2) ==
  \/ name \notin Names /\ decls2 = decls
  \/ /\ name \in Names /\ decls2 = Declare(decls, name, NextSlot(s))
     /\ \A i \in 1 .. Len(decls) : decls[i][name] = 0

\* A declaration: what is known before it is known after it, with the new slot stored.
LEMMA KnowsAlloc ==
  ASSUME NEW s, NEW decls, NEW b, Knows(s, decls, b), NEW name, NEW type \in SlotTypes,
         NEW decls2, Declares(s, decls, name, decls2)
  PROVE  /\ Knows(AllocateLocal(s, name, type), decls2, Stored(b, NextSlot(s), Kind(type)))
         /\ Allocated(s, AllocateLocal(s, name, type), type)
         /\ Len(decls2) = Len(decls) /\ Len(decls) \in Nat
         /\ \A i \in 1 .. Len(decls) : i # Len(decls) => decls2[i] = decls[i]
         /\ b.env[NextSlot(s)] = "unset" /\ NextSlot(s) \in Nat \ {0}
         /\ b.held \cap ({NextSlot(s)} \X Nat) = {}
<1> DEFINE s2 == AllocateLocal(s, name, type)
           slot == NextSlot(s)
           h == Len(s.scopes)
           n == Len(decls)
           kind == Kind(type)
           b2 == Stored(b, slot, kind)
<1>1. /\ SlotsOK(s) /\ DeclaredOK(s, decls) /\ h >= 1 /\ n >= 1 /\ b \in State /\ Live(b) /\ b.h = 0
      /\ Len(s.types) \in Nat /\ slot = Len(s.types) + 1 /\ slot \in Nat \ {0} /\ h \in Nat /\ n \in Nat
      /\ decls \in Seq([Names -> Nat])
  BY DEF Knows, SlotsOK, DeclaredOK, NextSlot
<1>2. SlotsOK(s2) /\ Allocated(s, s2, type) /\ \A nm \in Names : s2.of[nm] = IF nm = name THEN slot ELSE s.of[nm]
  BY <1>1, SlotsAlloc
<1>3. /\ Len(s2.types) = slot /\ s2.types[slot] = type /\ \A i \in 1 .. Len(s.types) : s2.types[i] = s.types[i]
      /\ Len(s2.scopes) = h /\ \A i \in 1 .. h : i # h => s2.scopes[i] = s.scopes[i]
      /\ NeedsDrop(type) => Range(s2.scopes[h]) = Range(s.scopes[h]) \union {slot}
      /\ ~NeedsDrop(type) => s2.scopes[h] = s.scopes[h]
  BY <1>1, <1>2 DEF Allocated
<1>4. /\ kind \in Kinds /\ kind # "unset"
      /\ ~NeedsDrop(type) => kind = "data" /\ Places(slot, kind) = {}
  BY DEF Kind, Kinds, NeedsDrop, DropKind, Places
<1> HIDE DEF s2, slot, h, n, kind
<1>5. b.env[slot] = "unset"
  <2>1. slot \notin 1 .. Len(s.types)
    BY <1>1
  <2> QED BY <1>1, <2>1 DEF Knows
<1>6. /\ b2 \in State /\ b2.h = 0 /\ Live(b2) /\ b2.env = [b.env EXCEPT ![slot] = kind]
      /\ b2.held = b.held \union Places(slot, kind)
  BY <1>1, <1>4, StoredState DEF Live
<1>7. /\ b2.env[slot] = kind /\ \A x \in Nat : x # slot => b2.env[x] = b.env[x]
  BY <1>1, <1>6 DEF State
<1> HIDE DEF b2
<1>8. Owners(s2.scopes, h) = Owners(s.scopes, h) \union (IF NeedsDrop(type) THEN {slot} ELSE {})
  <2>4. 1 \in Int /\ h \in Int /\ 1 <= h
    BY <1>1
  <2>1. Within(s2.scopes, 1, h) = Within(s2.scopes, 1, h - 1) \union Range(s2.scopes[h])
    BY <2>4, WithinLess
  <2>2. Within(s.scopes, 1, h) = Within(s.scopes, 1, h - 1) \union Range(s.scopes[h])
    BY <2>4, WithinLess
  <2>3. Within(s2.scopes, 1, h - 1) = Within(s.scopes, 1, h - 1)
    <3>1. \A i \in 1 .. h - 1 : s2.scopes[i] = s.scopes[i]
      BY <1>1, <1>3
    <3> QED BY <3>1 DEF Within
  <2> QED BY <1>3, <2>1, <2>2, <2>3 DEF Owners
<1>9. \A x \in Owners(s.scopes, h) : x \in 1 .. Len(s.types) /\ x # slot /\ x \in Nat /\ s2.types[x] = s.types[x]
  <2>1. Owners(s.scopes, h) \subseteq 1 .. Len(s.types)
    <3>1. h \in 0 .. Len(s.scopes)
      BY <1>1 DEF h
    <3> QED BY <1>1, <3>1, OwnersSlots
  <2>2. \A x \in 1 .. Len(s.types) : x # slot /\ x \in Nat
    BY <1>1
  <2> QED BY <1>3, <2>1, <2>2
<1>10. b2.held = HeldBy(s2.types, Owners(s2.scopes, h))
  <2>1. b.held = HeldBy(s.types, Owners(s.scopes, h))
    BY DEF Knows, h
  <2>2. HeldBy(s2.types, Owners(s.scopes, h)) = HeldBy(s.types, Owners(s.scopes, h))
    BY <1>9, HeldSame
  <2>3. HeldBy(s2.types, {slot}) = Places(slot, kind)
    BY <1>3 DEF HeldBy, kind
  <2>4. HeldBy(s2.types, {}) = {}
    BY DEF HeldBy
  <2> QED BY <1>4, <1>6, <1>8, <2>1, <2>2, <2>3, <2>4, HeldTogether
<1>11. \A x \in Owners(s2.scopes, h) : b2.env[x] = Kind(s2.types[x])
  <2>1. \A x \in Owners(s.scopes, h) : b.env[x] = Kind(s.types[x])
    BY DEF Knows, h
  <2>2. b2.env[slot] = Kind(s2.types[slot])
    BY <1>3, <1>7 DEF kind
  <2> QED BY <1>7, <1>8, <1>9, <2>1, <2>2
<1>12. \A x \in Nat : b2.env[x] # "unset" => x \in 1 .. Len(s2.types)
  <2>1. \A x \in Nat : b.env[x] # "unset" => x \in 1 .. Len(s.types)
    BY DEF Knows
  <2>2. 1 .. Len(s.types) \subseteq 1 .. slot /\ slot \in 1 .. slot
    BY <1>1
  <2> QED BY <1>3, <1>7, <2>1, <2>2
\* A declaration of a name is the new one or one that was there.
<1>13. /\ decls2 \in Seq([Names -> Nat]) /\ Len(decls2) = n
       /\ \A i \in 1 .. n : i # n => decls2[i] = decls[i]
       /\ \A i \in 1 .. n, nm \in Names : decls2[i][nm] # 0 =>
            \/ nm = name /\ decls2[i][nm] = slot
            \/ nm # name /\ decls2[i][nm] = decls[i][nm]
  <2>1. CASE name \notin Names /\ decls2 = decls
    BY <1>1, <2>1 DEF n
  <2>2. CASE name \in Names /\ decls2 = Declare(decls, name, NextSlot(s)) /\ \A i \in 1 .. Len(decls) : decls[i][name] = 0
    <3>1. PICK e : e = [decls[n] EXCEPT ![name] = slot]
      OBVIOUS
    <3>2. decls2 = [decls EXCEPT ![n] = e] /\ n \in 1 .. Len(decls) /\ decls[n] \in [Names -> Nat]
      BY <1>1, <2>2, <3>1 DEF Declare, n, slot
    <3>3. e \in [Names -> Nat] /\ e[name] = slot /\ \A nm \in Names : nm # name => e[nm] = decls[n][nm]
      BY <1>1, <2>2, <3>1, <3>2
    <3>4. /\ [decls EXCEPT ![n] = e] \in Seq([Names -> Nat]) /\ Len([decls EXCEPT ![n] = e]) = Len(decls)
          /\ \A j \in 1 .. Len(decls) : [decls EXCEPT ![n] = e][j] = IF j = n THEN e ELSE decls[j]
      BY <1>1, <3>2, <3>3, ExceptSeq
    <3>5. \A i \in 1 .. n : decls2[i] = IF i = n THEN e ELSE decls[i]
      BY <3>2, <3>4 DEF n
    <3>6. \A i \in 1 .. n, nm \in Names : decls2[i][nm] # 0 =>
            \/ nm = name /\ decls2[i][nm] = slot
            \/ nm # name /\ decls2[i][nm] = decls[i][nm]
      BY <2>2, <3>3, <3>5 DEF n
    <3> QED BY <3>2, <3>4, <3>5, <3>6 DEF n
  <2> QED BY <2>1, <2>2 DEF Declares
<1>14. \A i \in 1 .. n, nm \in Names : decls[i][nm] # 0 =>
         /\ decls[i][nm] = s.of[nm] /\ decls[i][nm] \in 1 .. Len(s.types)
         /\ Stores(b, s.types, decls[i][nm])
  BY <1>1 DEF Knows, DeclaredOK, n
<1>15. ASSUME NEW i \in 1 .. n, NEW nm \in Names, decls2[i][nm] # 0
       PROVE  /\ decls2[i][nm] = s2.of[nm] /\ decls2[i][nm] \in 1 .. Len(s2.types)
              /\ Stores(b2, s2.types, decls2[i][nm])
  <2>1. CASE nm = name /\ decls2[i][nm] = slot
    <3>1. slot \in 1 .. slot
      BY <1>1
    <3>2. b2.env[slot] = Kind(s2.types[slot]) /\ Places(slot, Kind(s2.types[slot])) \subseteq b2.held
      BY <1>3, <1>6, <1>7 DEF kind
    <3> QED BY <1>2, <1>3, <2>1, <3>1, <3>2 DEF Stores
  <2>2. CASE nm # name /\ decls2[i][nm] = decls[i][nm]
    <3>1. PICK x : x = decls[i][nm]
      OBVIOUS
    <3>2. x = s.of[nm] /\ x \in 1 .. Len(s.types) /\ Stores(b, s.types, x)
      BY <1>14, <1>15, <2>2, <3>1
    <3>3. x \in 1 .. slot /\ x # slot /\ x \in Nat
      BY <1>1, <3>2
    <3>4. Stores(b2, s2.types, x)
      BY <1>3, <1>6, <1>7, <3>2, <3>3 DEF Stores
    <3> QED BY <1>2, <1>3, <2>2, <3>1, <3>2, <3>3, <3>4
  <2> QED BY <1>13, <1>15, <2>1, <2>2
<1>16. DeclaredOK(s2, decls2)
  BY <1>13, <1>15 DEF DeclaredOK
<1>17. Knows(s2, decls2, b2)
  BY <1>1, <1>2, <1>3, <1>6, <1>10, <1>11, <1>12, <1>13, <1>15, <1>16 DEF Knows
<1>18. b.held \cap ({slot} \X Nat) = {}
  <2> SUFFICES ASSUME NEW e \in b.held, e \in {slot} \X Nat PROVE FALSE
    OBVIOUS
  <2>1. b.held = HeldBy(s.types, Owners(s.scopes, h))
    BY DEF Knows, h
  <2>2. PICK x \in Owners(s.scopes, h) : e \in Places(x, Kind(s.types[x]))
    BY <2>1 DEF HeldBy
  <2>3. e[1] = x
    BY <2>2, PlacesApart
  <2> QED BY <1>9, <2>3
<1> QED BY <1>1, <1>2, <1>5, <1>13, <1>17, <1>18 DEF s2, slot, n, kind, b2

\* A name is declared in the innermost block.
LEMMA NestAlloc ==
  ASSUME NEW s, NEW ls, NEW todos, NEW decls, NEW g, NEW lvl, Nest(s, ls, todos, decls, g, lvl),
         NEW name, NEW type \in SlotTypes, NEW decls2, Declares(s, decls, name, decls2)
  PROVE  \E g2 :
           /\ Nest(AllocateLocal(s, name, type), ls, todos, decls2, g2, lvl)
           /\ Len(g2) = Len(g)
           /\ g2[Len(g)].base = Stored(g[Len(g)].base, NextSlot(s), Kind(type))
           /\ \A k \in 1 .. Len(g) : g2[k].head = g[k].head
           /\ Exits(g2, lvl) = Exits(g, lvl)
<1> DEFINE n == Len(g)
           s2 == AllocateLocal(s, name, type)
           slot == NextSlot(s)
           b == g[n].base
           b2 == Stored(b, slot, Kind(type))
           r == [g[n] EXCEPT !.base = b2]
           g2 == [g EXCEPT ![n] = r]
<1>1. /\ n \in Nat \ {0} /\ n \in 1 .. n /\ Len(todos) = n /\ g \in Seq(Level) /\ SlotsOK(s) /\ DeclaredOK(s, decls)
      /\ g[n] \in Level /\ g[n].h = Len(s.scopes) /\ g[n].d = Len(decls) /\ Len(s.types) \in Nat
      /\ slot = Len(s.types) + 1 /\ Len(s.scopes) \in Nat /\ Len(decls) \in Nat
  <2>1. n \in Nat \ {0} /\ Len(todos) = n /\ Len(s.types) \in Nat /\ Len(s.scopes) \in Nat /\ Len(decls) \in Nat
    BY NestTypes
  <2>2. n \in 1 .. n
    BY <2>1
  <2>3. g \in Seq(Level) /\ SlotsOK(s) /\ DeclaredOK(s, decls) /\ g[n].h = Len(s.scopes) /\ g[n].d = Len(decls)
    BY DEF Nest, Shaped
  <2> QED BY <2>1, <2>2, <2>3 DEF NextSlot
<1>2. Knows(s, decls, b)
  <2>1. LevelOK(s, decls, g[n])
    BY <1>1 DEF Nest
  <2> QED BY <1>1, <2>1, LevelKnows
<1>3. /\ Knows(s2, decls2, b2) /\ Allocated(s, s2, type) /\ Len(decls2) = Len(decls)
      /\ \A i \in 1 .. Len(decls) : i # Len(decls) => decls2[i] = decls[i]
      /\ b.env[slot] = "unset" /\ slot \in Nat
  BY <1>2, KnowsAlloc
<1>4. /\ SlotsOK(s2) /\ DeclaredOK(s2, decls2) /\ Len(s2.scopes) = Len(s.scopes)
      /\ Len(s2.types) = Len(s.types) + 1 /\ \A i \in 1 .. Len(s.types) : s2.types[i] = s.types[i]
      /\ \A i \in 1 .. Len(s.scopes) : i # Len(s.scopes) => s2.scopes[i] = s.scopes[i]
      /\ b2 \in State
  BY <1>3 DEF Knows, Allocated
<1>5. b \in State /\ Kind(type) \in Kinds
  BY <1>2 DEF Knows, Kind, Kinds
<1>6. \A x \in Nat : x # slot => b2.env[x] = b.env[x]
  <2>1. b2.env = [b.env EXCEPT ![slot] = Kind(type)]
    BY <1>3, <1>5, StoredState
  <2>2. b.env \in [Nat -> Kinds]
    BY <1>5 DEF State
  <2> HIDE DEF b, b2, slot
  <2> QED BY <2>1, <2>2
<1> HIDE DEF b2, s2, slot
<1>7. r \in Level /\ r.h = g[n].h /\ r.d = g[n].d /\ r.n = g[n].n /\ r.base = b2 /\ r.exit = g[n].exit /\ r.head = g[n].head
  BY <1>1, <1>4 DEF Level
<1> HIDE DEF r
<1>8. g2 \in Seq(Level) /\ Len(g2) = n /\ g2[n] = r /\ \A k \in 1 .. n : k # n => g2[k] = g[k]
  BY <1>1, <1>7, ExceptSeq
<1> HIDE DEF g2
<1>9. \A k \in 1 .. n : /\ g2[k].h = g[k].h /\ g2[k].d = g[k].d /\ g2[k].n = g[k].n
                        /\ g2[k].exit = g[k].exit /\ g2[k].head = g[k].head
  BY <1>7, <1>8
\* The new slot is known at no other level.
<1>10. \A a : Inner(b, a) => Inner(b2, a)
  BY <1>3, <1>6 DEF Inner
<1>11. \A j, k \in 1 .. n : j < k => j # n
  BY <1>1
<1>12. Ordered(todos, g2)
  <2> SUFFICES ASSUME NEW j \in 1 .. n, NEW k \in 1 .. n, j < k
               PROVE  /\ ~todos[j].transfers
                      /\ g2[j].h < g2[k].h /\ g2[j].d < g2[k].d /\ g2[j].n + LoopsOf(todos[k].k) <= g2[k].n
                      /\ Inner(g2[k].base, g2[j].base)
    BY <1>8 DEF Ordered
  <2>1. /\ ~todos[j].transfers
        /\ g[j].h < g[k].h /\ g[j].d < g[k].d /\ g[j].n + LoopsOf(todos[k].k) <= g[k].n
        /\ Inner(g[k].base, g[j].base)
    BY DEF Nest, Ordered
  <2>2. g2[j] = g[j]
    BY <1>8, <1>11
  <2>3. Inner(g2[k].base, g[j].base)
    <3>1. CASE k = n
      BY <1>7, <1>8, <1>10, <2>1, <3>1
    <3>2. CASE k # n
      BY <1>8, <2>1, <3>2
    <3> QED BY <3>1, <3>2
  <2> QED BY <1>9, <2>1, <2>2, <2>3
<1>13. ASSUME NEW k \in 1 .. n PROVE LevelOK(s2, decls2, g2[k])
  <2>1. CASE k = n
    BY <1>1, <1>3, <1>4, <1>7, <1>8, <2>1, LevelKnows
  <2>2. CASE k # n
    <3>1. g2[k] = g[k] /\ LevelOK(s, decls, g[k]) /\ k < n
      BY <1>1, <1>8, <2>2 DEF Nest
    <3>2. g[k].h < g[n].h /\ g[k].d < g[n].d
      BY <1>1, <3>1 DEF Nest, Ordered
    <3>3. g[k] \in Level /\ g[k].h \in Nat /\ g[k].d \in Nat
      <4>1. g[k] \in Level
        BY <1>1
      <4> QED BY <4>1 DEF Level
    <3>4. PICK x, y, u, v : x = g[k].h /\ y = g[k].d /\ u = Len(s.scopes) /\ v = Len(decls)
      OBVIOUS
    <3>5. x \in Nat /\ y \in Nat /\ u \in Nat /\ v \in Nat /\ x < u /\ y < v
      BY <1>1, <3>2, <3>3, <3>4
    <3>6. x <= u /\ y <= v /\ (\A i \in 1 .. x : i \in 1 .. u /\ i # u) /\ (\A i \in 1 .. y : i \in 1 .. v /\ i # v)
      BY <3>5
    <3>7. g[k].h <= Len(s2.scopes) /\ \A i \in 1 .. g[k].h : s2.scopes[i] = s.scopes[i]
      BY <1>4, <3>4, <3>6
    <3>8. g[k].d <= Len(decls2) /\ \A i \in 1 .. g[k].d : decls2[i] = decls[i]
      BY <1>3, <3>4, <3>6
    <3>9. /\ Len(s2.types) \in Nat /\ Len(s.types) <= Len(s2.types) /\ \A i \in 1 .. Len(s.types) : s2.types[i] = s.types[i]
          /\ Len(s2.scopes) \in Nat /\ Len(decls2) \in Nat
      BY <1>1, <1>3, <1>4
    <3> QED BY <1>1, <3>1, <3>3, <3>7, <3>8, <3>9, LevelKept
  <2> QED BY <2>1, <2>2
<1>14. ASSUME NEW k \in 2 .. n PROVE Above(s2, ls, todos[k], g2[k], g2[k - 1])
  <2>1. k \in 1 .. n /\ k - 1 \in 1 .. n /\ k - 1 # n
    BY <1>1
  <2>2. g2[k - 1] = g[k - 1]
    BY <1>8, <2>1
  <2>3. PICK t, q, u, v : t = todos[k] /\ q = g[k - 1] /\ u = g[k] /\ v = g2[k]
    OBVIOUS
  <2>4. Above(s, ls, t, u, q)
    BY <2>3 DEF Nest
  <2>5. v.h = u.h /\ v.d = u.d /\ v.n = u.n /\ v.exit = u.exit /\ v.head = u.head
    BY <1>9, <2>1, <2>3
  <2>6. u.h \in Nat /\ q.h \in Nat /\ u.h <= Len(s.scopes)
    BY <2>1, <2>3, NestBounds
  <2>7. Above(s2, ls, t, u, q)
    <3>1. \A i \in q.h + 1 .. u.h - 1 : s2.scopes[i] = s.scopes[i]
      <4>1. \A i \in q.h + 1 .. u.h - 1 : i \in 1 .. Len(s.scopes) /\ i # Len(s.scopes)
        <5>1. PICK x, y, z : x = q.h /\ y = u.h /\ z = Len(s.scopes)
          OBVIOUS
        <5>2. x \in Nat /\ y \in Nat /\ z \in Nat /\ y <= z
          BY <1>1, <2>6, <5>1
        <5>3. \A i \in x + 1 .. y - 1 : i \in 1 .. z /\ i # z
          BY <5>2
        <5> QED BY <5>1, <5>3
      <4> QED BY <1>4, <4>1
    <3>2. Len(s2.types) \in Nat /\ Len(s.types) <= Len(s2.types)
      BY <1>1, <1>4
    <3> QED BY <1>1, <1>4, <2>4, <2>6, <3>1, <3>2, AboveKept
  <2>8. t.k \in LoopKinds => Inner(v.base, v.head)
    <3> SUFFICES ASSUME t.k \in LoopKinds PROVE Inner(v.base, v.head)
      OBVIOUS
    <3>1. Inner(u.base, u.head)
      BY <2>7 DEF Above
    <3>2. CASE k = n
      BY <1>7, <1>8, <1>10, <2>3, <2>5, <3>1, <3>2
    <3>3. CASE k # n
      BY <1>8, <2>1, <2>3, <3>1, <3>3
    <3> QED BY <3>2, <3>3
  <2>9. t.k \in Counting => v.base.env[t.counter] = "data"
    <3> SUFFICES ASSUME t.k \in Counting PROVE v.base.env[t.counter] = "data"
      OBVIOUS
    <3>1. u.base.env[t.counter] = "data" /\ t.counter \in 1 .. Len(s.types)
      BY <2>4 DEF Above
    <3>2. CASE k = n
      <4>1. t.counter \in Nat /\ t.counter # slot
        BY <1>1, <3>1
      <4>2. v.base = b2 /\ u.base = b
        BY <1>7, <1>8, <2>3, <3>2
      <4> QED BY <1>6, <3>1, <4>1, <4>2
    <3>3. CASE k # n
      BY <1>8, <2>1, <2>3, <3>1, <3>3
    <3> QED BY <3>2, <3>3
  <2>10. Above(s2, ls, t, v, q)
    BY <2>5, <2>7, <2>8, <2>9 DEF Above
  <2> QED BY <2>2, <2>3, <2>10
<1>15. Shaped(ls, todos, g2)
  <2>1. 1 \in 1 .. n
    BY <1>1
  <2>2. g2[1].h = g[1].h /\ g2[1].d = g[1].d /\ g2[1].n = g[1].n
    BY <1>9, <2>1
  <2> QED BY <1>1, <1>8, <2>2 DEF Nest, Shaped
<1>16. \A k \in 2 .. n : k \in 1 .. n
  BY <1>1
<1>17. Placed(ls, todos, g2, lvl)
  <2>1. \A k \in 2 .. n : Pending(ls, todos[k], g2[k]) = Pending(ls, todos[k], g[k])
    BY <1>9, <1>16 DEF Pending
  <2> QED BY <1>8, <2>1 DEF Nest, Placed
<1>18. \A l \in 1 .. Len(ls) : \E k \in 2 .. n : todos[k].k \in LoopKinds /\ g2[k].n = l
  BY <1>9, <1>16 DEF Nest
<1>19. g2[n].h = Len(s2.scopes) /\ g2[n].d = Len(decls2) /\ g2[n].n = Len(ls)
  BY <1>1, <1>3, <1>4, <1>9 DEF Nest
<1>20. Nest(s2, ls, todos, decls2, g2, lvl)
  BY <1>4, <1>8, <1>12, <1>13, <1>14, <1>15, <1>17, <1>18, <1>19 DEF Nest
<1>21. Exits(g2, lvl) = Exits(g, lvl)
  <2>1. \A p \in DOMAIN lvl : lvl[p] \in 1 .. n
    BY <1>16 DEF Nest, Placed
  <2> QED BY <1>9, <2>1 DEF Exits
<1> QED BY <1>7, <1>8, <1>9, <1>20, <1>21 DEF s2, b2, slot

-----------------------------------------------------------------------------
(* What holds while a body is emitted.                                     *)

HeadsOK(todos, g, heads) ==
  /\ <<1, Start>> \in heads
  /\ \A k \in 2 .. Len(g) : todos[k].k \in LoopKinds => <<todos[k].back, g[k].head>> \in heads

Now(todos, g) == IF todos[Len(todos)].transfers THEN Dead ELSE g[Len(g)].base

Emits(c, s, ls, todos, decls, g, lvl, heads) ==
  /\ Nest(s, ls, todos, decls, g, lvl) /\ HeadsOK(todos, g, heads)
  /\ Ends(c, Now(todos, g), Exits(g, lvl), heads, Len(s.types))

Emitting(c, s, ls, todos, decls) ==
  \E g, lvl, heads : Emits(c, s, ls, todos, decls, g, lvl, heads)

\* Code that is not reached leads anywhere.
LEMMA DeadState ==
  /\ Start \in State /\ Live(Start) /\ Start.h = 0
  /\ Dead \in State /\ ~Live(Dead) /\ Dead.h = 0
  /\ \A a, b : ~Live(a) => Leads(a, b)
<1>1. Start \in State
  BY Entries DEF Start, State, Kinds
<1> QED BY <1>1 DEF Dead, State, Live, Leads, Start

\* A state without a stack leads to what knows no more, of the same objects.
LEMMA LeadsInner ==
  ASSUME NEW a \in State, NEW b \in State, Live(b), a.h = 0, b.h = 0, a.held = b.held, Inner(a, b)
  PROVE  Leads(a, b)
BY DEF Leads, Inner

\* What Resolve finds.
LEMMA Resolving ==
  ASSUME NEW s, DeclaredOK(s, declared), NEW nm \in Names
  PROVE  /\ Resolve(nm) = 0 => \A i \in 1 .. Len(declared) : declared[i][nm] = 0
         /\ Resolve(nm) # 0 => \E i \in 1 .. Len(declared) : declared[i][nm] = Resolve(nm)
<1> DEFINE levels == {i \in DOMAIN declared : declared[i][nm] # NoSlot}
<1>1. declared \in Seq([Names -> Nat]) /\ DOMAIN declared = 1 .. Len(declared) /\ Len(declared) \in Nat
  BY DEF DeclaredOK
<1>2. CASE levels = {}
  BY <1>1, <1>2 DEF Resolve, NoSlot
<1>3. CASE levels # {}
  <2> DEFINE n == Len(declared)
             T == {j \in Nat : \E i \in levels : j = n - i}
  <2>1. levels \subseteq 1 .. n
    BY <1>1
  <2> HIDE DEF levels, n
  <2>2. n \in Nat /\ T \in SUBSET Nat
    BY <1>1 DEF n
  <2>3. PICK i0 \in levels : TRUE
    BY <1>3
  <2>4. n - i0 \in T
    <3>1. i0 \in 1 .. n
      BY <2>1
    <3>2. n - i0 \in Nat
      BY <2>2, <3>1
    <3> QED BY <2>3, <3>2
  <2>5. PICK m \in T : \A k \in T : m <= k
    BY <2>2, <2>4, Least
  <2>6. PICK i \in levels : m = n - i
    BY <2>5
  <2>7. \A j \in levels : j <= i
    <3> SUFFICES ASSUME NEW j \in levels PROVE j <= i
      OBVIOUS
    <3>1. i \in 1 .. n /\ j \in 1 .. n
      BY <2>1
    <3>2. n - j \in T
      BY <2>2, <3>1
    <3>3. n - i <= n - j
      BY <2>5, <2>6, <3>2
    <3> QED BY <2>2, <3>1, <3>3
  <2>8. PICK x : x = CHOOSE i1 \in levels : \A j \in levels : j <= i1
    OBVIOUS
  <2>9. x \in levels
    BY <2>6, <2>7, <2>8
  <2>10. Resolve(nm) = declared[x][nm]
    BY <1>3, <2>8 DEF Resolve, levels
  <2> QED BY <1>1, <2>9, <2>10 DEF levels, NoSlot
<1> QED BY <1>2, <1>3

\* A name's slot is its declaration's, and is known to hold a value of its type.
LEMMA Known ==
  ASSUME NEW b, Knows(slots, declared, b), NEW nm \in Names, Resolve(nm) # 0
  PROVE  /\ slots.of[nm] = Resolve(nm) /\ Resolve(nm) \in 1 .. Len(slots.types)
         /\ slots.types[Resolve(nm)] \in SlotTypes
         /\ Stores(b, slots.types, Resolve(nm))
<1>1. DeclaredOK(slots, declared) /\ SlotsOK(slots)
  BY DEF Knows
<1>2. PICK i \in 1 .. Len(declared) : declared[i][nm] = Resolve(nm)
  BY <1>1, Resolving
<1>3. slots.of[nm] = Resolve(nm) /\ Resolve(nm) \in 1 .. Len(slots.types)
  BY <1>1, <1>2 DEF DeclaredOK
<1>4. slots.types \in Seq(SlotTypes)
  BY <1>1 DEF SlotsOK
<1>5. Stores(b, slots.types, Resolve(nm))
  BY <1>2 DEF Knows
<1> QED BY <1>3, <1>4, <1>5

\* The expressions of a body that uses no known gap can be emitted.
LEMMA Readables ==
  ASSUME Gaps = {}, NEW b, Knows(slots, declared, b), NEW use, NEW type, NEW e \in Expressions(use, type)
  PROVE  Readable(b, e, type) /\ type \in SlotTypes
<1>1. CASE e \in [form : Forms(use, type), type : {type}]
  <2>1. e = [form |-> e.form, type |-> type] /\ e.form \in Forms(use, type)
    BY <1>1
  <2>2. \/ e.form = "condition" /\ type = "bool"
        \/ e.form = "literal" /\ type = "string"
        \/ e.form = "array" /\ type = "strs"
        \/ e.form \in {"call", "call_arg", "coalesce"} /\ type = "string"
    BY <2>1 DEF Forms
  <2> QED BY <2>1, <2>2 DEF Readable, SlotTypes
<1>2. CASE e \notin [form : Forms(use, type), type : {type}]
  <2>1. ~NeedsDrop(type)
    BY <1>2 DEF Expressions
  <2>2. e \in [form : {"name"}, type : {type},
               name : {n \in Names : Resolve(n) # NoSlot /\ slots.types[Resolve(n)] = type}]
    BY <1>2, <2>1 DEF Expressions
  <2>3. e.form = "name" /\ e.name \in Names /\ Resolve(e.name) # 0 /\ slots.types[Resolve(e.name)] = type
    BY <2>2 DEF NoSlot
  <2>4. /\ slots.of[e.name] = Resolve(e.name) /\ Resolve(e.name) \in 1 .. Len(slots.types)
        /\ type \in SlotTypes
        /\ b.env[Resolve(e.name)] = Kind(type)
    BY <2>3, Known DEF Stores
  <2>5. type \in {"int", "bool", "row"} /\ Kind(type) = "data"
    BY <2>1, <2>4 DEF SlotTypes, NeedsDrop, DropKind, Kind
  <2>6. Resolve(e.name) \in Nat \ {0}
    BY <2>4
  <2> QED BY <2>3, <2>4, <2>5, <2>6 DEF Readable, SlotTypes
<1> QED BY <1>1, <1>2

\* What is known where a statement is emitted.
LEMMA EmitsAlive ==
  ASSUME NEW c, NEW s, NEW ls, NEW todos, NEW decls, NEW g, NEW lvl, NEW heads,
         Emits(c, s, ls, todos, decls, g, lvl, heads), ~todos[Len(todos)].transfers,
         NEW b, b = g[Len(g)].base
  PROVE  /\ Ends(c, b, Exits(g, lvl), heads, Len(s.types))
         /\ Exits(g, lvl) = [p \in DOMAIN Exits(g, lvl) |-> Exits(g, lvl)[p]]
         /\ Knows(s, decls, b)
         /\ Now(todos, g) = b
<1>1. Nest(s, ls, todos, decls, g, lvl)
  BY DEF Emits
<1>2. Len(g) \in Nat \ {0} /\ Len(g) \in 1 .. Len(g)
  <2>1. Len(g) \in Nat \ {0}
    BY <1>1, NestTypes
  <2> QED BY <2>1
<1>3. LevelOK(s, decls, g[Len(g)]) /\ SlotsOK(s) /\ DeclaredOK(s, decls) /\ g[Len(g)].h = Len(s.scopes) /\ g[Len(g)].d = Len(decls)
  BY <1>1, <1>2 DEF Nest
<1>4. g[Len(g)] \in Level
  BY <1>1, <1>2, NestTypes
<1>5. Knows(s, decls, b)
  BY <1>3, <1>4, LevelKnows
<1>6. Now(todos, g) = b
  BY DEF Now
<1>7. Ends(c, b, Exits(g, lvl), heads, Len(s.types))
  BY <1>6 DEF Emits
<1> QED BY <1>5, <1>6, <1>7 DEF Exits

\* Statements that open and close nothing.
LEMMA EmitsSame ==
  ASSUME NEW c, NEW s, NEW ls, NEW todos, NEW decls, NEW g, NEW lvl, NEW heads,
         Emits(c, s, ls, todos, decls, g, lvl, heads), ~todos[Len(todos)].transfers,
         NEW c2, Ends(c2, g[Len(g)].base, Exits(g, lvl), heads, Len(s.types))
  PROVE  Emitting(c2, s, ls, todos, decls)
<1>1. Now(todos, g) = g[Len(g)].base
  BY DEF Now
<1>2. Emits(c2, s, ls, todos, decls, g, lvl, heads)
  BY <1>1 DEF Emits
<1> QED BY <1>2 DEF Emitting

\* Statements that transfer control.
LEMMA EmitsTransfer ==
  ASSUME NEW c, NEW s, NEW ls, NEW todos, NEW decls, NEW g, NEW lvl, NEW heads,
         Emits(c, s, ls, todos, decls, g, lvl, heads),
         NEW c2, Ends(c2, Dead, Exits(g, lvl), heads, Len(s.types))
  PROVE  Emitting(c2, s, ls, [todos EXCEPT ![Len(todos)].transfers = TRUE], decls)
<1> DEFINE todos2 == [todos EXCEPT ![Len(todos)].transfers = TRUE]
<1>1. Nest(s, ls, todos, decls, g, lvl) /\ HeadsOK(todos, g, heads)
  BY DEF Emits
<1>2. /\ Nest(s, ls, todos2, decls, g, lvl)
      /\ Len(todos2) = Len(todos) /\ todos2[Len(todos)].transfers = TRUE
      /\ \A k \in 1 .. Len(todos) : todos2[k].k = todos[k].k /\ todos2[k].back = todos[k].back
  <2>1. PICK u : u = [todos EXCEPT ![Len(todos)].transfers = TRUE]
    OBVIOUS
  <2>2. /\ Nest(s, ls, u, decls, g, lvl)
        /\ Len(u) = Len(todos) /\ u[Len(todos)].transfers = TRUE
        /\ \A k \in 1 .. Len(todos) : u[k].k = todos[k].k /\ u[k].back = todos[k].back
    <3>1. Nest(s, ls, u, decls, g, lvl)
      BY <1>1, <2>1, NestTransfer
    <3>2. Len(u) = Len(todos)
      BY <1>1, <2>1, NestTransfer
    <3>3. u[Len(todos)].transfers = TRUE
      BY <1>1, <2>1, NestTransfer
    <3>4. \A k \in 1 .. Len(todos) : u[k].k = todos[k].k /\ u[k].back = todos[k].back
      BY <1>1, <2>1, NestTransfer
    <3> QED BY <3>1, <3>2, <3>3, <3>4
  <2> QED BY <2>1, <2>2
<1> HIDE DEF todos2
<1>3. Len(todos) = Len(g) /\ \A k \in 2 .. Len(g) : k \in 1 .. Len(g)
  BY <1>1, NestTypes
<1>4. HeadsOK(todos2, g, heads)
  BY <1>1, <1>2, <1>3 DEF HeadsOK
<1>5. Now(todos2, g) = Dead
  BY <1>2 DEF Now
<1>6. Emits(c2, s, ls, todos2, decls, g, lvl, heads)
  BY <1>2, <1>4, <1>5 DEF Emits
<1> QED BY <1>6 DEF Emitting, todos2

\* The compiler's own assertions hold where what is known is kept.
LEMMA EndsOk ==
  ASSUME NEW c, NEW a, NEW open, NEW heads, NEW top, Ends(c, a, open, heads, top)
  PROVE  /\ c.ok /\ c.depth = a.h /\ Len(c.owned) = c.depth /\ c \in Ctx /\ Len(c.at) = Len(c.code)
         /\ (phase = "emit" => (IF c.ok THEN phase ELSE "abort") = "emit")
<1>1. PICK notes : Sound(c, notes, open, heads, top) /\ notes[Here(c)] = a
  BY DEF Ends
<1>2. Balanced(c) /\ c.depth = a.h
  BY <1>1 DEF Sound
<1>3. c \in Ctx /\ c.ok = TRUE /\ Len(c.owned) = c.depth /\ Len(c.at) = Len(c.code)
  BY <1>2 DEF Balanced, Ctx
<1> QED BY <1>2, <1>3

\* The compiler's state between two of its steps.
Compiling == phase = "emit" /\ todo # << >> /\ Emitting(ctx, slots, loops, todo, declared)

\* emitVarDecl.
LEMMA VarDeclCompiles ==
  ASSUME Gaps = {}, Compiling, NEW name \in Names, NEW type, NEW e \in Expressions("let", type),
         VarDecl(name, type, e)
  PROVE  Compiling'
<1> DEFINE s2 == AllocateLocal(slots, name, type)
           d2 == Declare(declared, name, NextSlot(slots))
<1>1. /\ ~todo[Len(todo)].transfers /\ Resolve(name) = 0
      /\ ctx' = Emit(EmitExpr(ctx, e), "StoreLocal", NextSlot(slots))
      /\ phase' = IF ctx'.ok THEN phase ELSE "abort"
      /\ slots' = s2 /\ declared' = d2 /\ loops' = loops /\ todo' = todo
  BY DEF VarDecl, Statement, Settle, MayEmit, MayDeclare, NoSlot, Last
<1>2. PICK g, lvl, heads : Emits(ctx, slots, loops, todo, declared, g, lvl, heads)
  BY DEF Compiling, Emitting
<1>3. PICK b : b = g[Len(g)].base
  OBVIOUS
<1>4. /\ Ends(ctx, b, Exits(g, lvl), heads, Len(slots.types))
      /\ Exits(g, lvl) = [p \in DOMAIN Exits(g, lvl) |-> Exits(g, lvl)[p]]
      /\ Knows(slots, declared, b)
  BY <1>1, <1>2, <1>3, EmitsAlive
<1>5. Readable(b, e, type) /\ type \in SlotTypes
  BY <1>4, Readables
<1>6. b \in State /\ b.h = 0 /\ Len(slots.types) \in Nat /\ NextSlot(slots) = Len(slots.types) + 1 /\ NextSlot(slots) \in 1 .. NextSlot(slots)
  BY <1>4 DEF Knows, SlotsOK, NextSlot
<1>7. Ends(EmitExpr(ctx, e), Push(b, A(Kind(type))), Exits(g, lvl), heads, Len(slots.types))
  BY <1>4, <1>5, <1>6, EndsExpr
<1>8. Ends(EmitExpr(ctx, e), Push(b, A(Kind(type))), Exits(g, lvl), heads, NextSlot(slots))
  <2>1. NextSlot(slots) \in Nat /\ Len(slots.types) <= NextSlot(slots)
    BY <1>6
  <2> QED BY <1>6, <1>7, <2>1, EndsMore
<1>9. Declares(slots, declared, name, d2)
  <2>1. \A i \in 1 .. Len(declared) : declared[i][name] = 0
    BY <1>1, <1>4, Resolving DEF Knows
  <2> QED BY <2>1 DEF Declares
<1>10. /\ Knows(s2, d2, Stored(b, NextSlot(slots), Kind(type))) /\ Allocated(slots, s2, type)
       /\ b.held \cap ({NextSlot(slots)} \X Nat) = {}
  BY <1>4, <1>5, <1>9, KnowsAlloc
<1>11. Ends(ctx', Stored(b, NextSlot(slots), Kind(type)), Exits(g, lvl), heads, NextSlot(slots))
  <2>1. Kind(type) \in {"data", "string", "strs"}
    BY DEF Kind
  <2>2. NextSlot(slots) \in Nat
    BY <1>6
  <2> QED BY <1>1, <1>6, <1>8, <1>10, <2>1, <2>2, EndsStore
<1>12. Nest(slots, loops, todo, declared, g, lvl) /\ HeadsOK(todo, g, heads)
  BY <1>2 DEF Emits
<1>13. PICK g2 :
         /\ Nest(s2, loops, todo, d2, g2, lvl) /\ Len(g2) = Len(g)
         /\ g2[Len(g)].base = Stored(b, NextSlot(slots), Kind(type))
         /\ \A k \in 1 .. Len(g) : g2[k].head = g[k].head
         /\ Exits(g2, lvl) = Exits(g, lvl)
  BY <1>3, <1>5, <1>9, <1>12, NestAlloc
<1>14. HeadsOK(todo, g2, heads)
  <2>1. \A k \in 2 .. Len(g) : k \in 1 .. Len(g)
    BY <1>12, NestTypes
  <2> QED BY <1>12, <1>13, <2>1 DEF HeadsOK
<1>15. Now(todo, g2) = Stored(b, NextSlot(slots), Kind(type))
  BY <1>1, <1>13 DEF Now
<1>16. Len(s2.types) = NextSlot(slots)
  BY <1>10 DEF Allocated, NextSlot
<1>17. Emitting(ctx', slots', loops', todo', declared')
  <2>1. Emits(ctx', s2, loops, todo, d2, g2, lvl, heads)
    BY <1>11, <1>13, <1>14, <1>15, <1>16 DEF Emits
  <2>2. Emitting(ctx', s2, loops, todo, d2)
    BY <2>1 DEF Emitting
  <2> QED BY <1>1, <2>2
<1>18. phase' = "emit"
  <2>1. phase = "emit"
    BY DEF Compiling
  <2> QED BY <1>1, <1>11, <2>1, EndsOk
<1> QED BY <1>1, <1>17, <1>18 DEF Compiling

\* The owners of the scopes that stay, and of those that are dropped.
LEMMA OwnersSplit ==
  ASSUME NEW s, SlotsOK(s), NEW t \in 0 .. Len(s.scopes)
  PROVE  /\ Owners(s.scopes, Len(s.scopes)) = Owners(s.scopes, t) \union Within(s.scopes, t + 1, Len(s.scopes))
         /\ Owners(s.scopes, t) \cap Within(s.scopes, t + 1, Len(s.scopes)) = {}
         /\ 1 \notin Within(s.scopes, 1, Len(s.scopes))
<1> DEFINE n == Len(s.scopes)
<1>1. n \in Nat /\ t \in Nat /\ t <= n /\ s.scopes \in Seq(Seq(Nat \ {0})) /\ Apart(s.types, s.scopes)
  BY DEF SlotsOK
<1> HIDE DEF n
<1>2. 1 .. n = (1 .. t) \union (t + 1 .. n)
  BY <1>1
<1>3. Within(s.scopes, 1, n) = Within(s.scopes, 1, t) \union Within(s.scopes, t + 1, n)
  BY <1>2 DEF Within
<1>4. 1 \notin Within(s.scopes, 1, n)
  <2> SUFFICES ASSUME NEW l \in 1 .. n, 1 \in Range(s.scopes[l]) PROVE FALSE
    BY DEF Within
  <2>1. s.scopes[l] \in Seq(Nat \ {0})
    BY <1>1 DEF n
  <2>2. PICK m \in 1 .. Len(s.scopes[l]) : s.scopes[l][m] = 1
    BY <2>1 DEF Range
  <2>3. s.scopes[l][m] \in 2 .. Len(s.types)
    BY <2>2 DEF SlotsOK, n
  <2> QED BY <2>2, <2>3
<1>5. Within(s.scopes, 1, t) \cap Within(s.scopes, t + 1, n) = {}
  <2> SUFFICES ASSUME NEW l \in 1 .. t, NEW x \in Range(s.scopes[l]), x \in Within(s.scopes, t + 1, n) PROVE FALSE
    BY DEF Within
  <2>1. l \in 1 .. Len(s.scopes) /\ t + 1 \in Int /\ n \in Int /\ 1 <= t + 1 /\ n <= Len(s.scopes) /\ l \notin t + 1 .. n
    BY <1>1 DEF n
  <2>2. Range(s.scopes[l]) \cap Within(s.scopes, t + 1, n) = {}
    BY <1>1, <2>1, ScopesApart
  <2> QED BY <2>2
<1> QED BY <1>3, <1>4, <1>5 DEF Owners, n

\* What the owners hold once the scopes inside scope t are dropped.
LEMMA HeldAfter ==
  ASSUME NEW s, NEW decls, NEW b, Knows(s, decls, b), NEW t \in 0 .. Len(s.scopes),
         NEW a, a = Without(b, HeldBy(s.types, Within(s.scopes, t + 1, Len(s.scopes))))
  PROVE  /\ Holds(b, s.types, Owners(s.scopes, Len(s.scopes)))
         /\ Holds(b, s.types, Within(s.scopes, t + 1, Len(s.scopes)))
         /\ a \in State /\ Live(a) /\ a.h = 0 /\ a.env = b.env
         /\ a.held = HeldBy(s.types, Owners(s.scopes, t))
<1> DEFINE n == Len(s.scopes)
           W == Within(s.scopes, t + 1, n)
<1>1. Owners(s.scopes, n) = Owners(s.scopes, t) \union W /\ Owners(s.scopes, t) \cap W = {}
  BY OwnersSplit DEF Knows
<1>2. /\ b \in State /\ Live(b) /\ b.h = 0 /\ b.held = HeldBy(s.types, Owners(s.scopes, n))
      /\ \A x \in Owners(s.scopes, n) : b.env[x] = Kind(s.types[x])
  BY DEF Knows
<1> HIDE DEF n, W
<1>3. Holds(b, s.types, Owners(s.scopes, n))
  BY <1>2 DEF Holds, HeldBy
<1>4. Holds(b, s.types, W)
  BY <1>1, <1>3 DEF Holds
<1>5. a \in State /\ a.h = b.h /\ a.flow = b.flow /\ a.env = b.env /\ a.held = b.held \ HeldBy(s.types, W)
  BY <1>2, WithoutState DEF W, n
<1>6. HeldBy(s.types, Owners(s.scopes, t) \union W) = HeldBy(s.types, Owners(s.scopes, t)) \union HeldBy(s.types, W)
  BY HeldTogether
<1>7. HeldBy(s.types, Owners(s.scopes, t)) \cap HeldBy(s.types, W) = {}
  BY <1>1, SetsApart
<1>8. a.held = HeldBy(s.types, Owners(s.scopes, t))
  BY <1>1, <1>2, <1>5, <1>6, <1>7
<1> QED BY <1>2, <1>3, <1>4, <1>5, <1>8 DEF Live, n, W

\* A slot's own objects.
LEMMA HeldOf ==
  ASSUME NEW s, NEW decls, NEW b, Knows(s, decls, b), NEW x
  PROVE  b.held \cap ({x} \X Nat) \subseteq Places(x, Kind(s.types[x]))
<1> SUFFICES ASSUME NEW e \in b.held, e \in {x} \X Nat PROVE e \in Places(x, Kind(s.types[x]))
  OBVIOUS
<1>1. b.held = HeldBy(s.types, Owners(s.scopes, Len(s.scopes)))
  BY DEF Knows
<1>2. PICK y : e \in Places(y, Kind(s.types[y]))
  BY <1>1 DEF HeldBy
<1>3. e[1] = y /\ e[1] = x
  BY <1>2, PlacesApart
<1> QED BY <1>2, <1>3

\* What is inside is inside what is outside that.
LEMMA InnerTrans ==
  ASSUME NEW a, NEW b, NEW c, Inner(a, b), Inner(b, c)
  PROVE  Inner(a, c)
BY DEF Inner

\* The drops before a jump out of a loop, or to where it goes on.
LEMMA ExitDrops ==
  ASSUME NEW c, NEW s, NEW ls, NEW todos, NEW decls, NEW g, NEW lvl, NEW heads,
         Emits(c, s, ls, todos, decls, g, lvl, heads), ~todos[Len(todos)].transfers,
         NEW k \in 2 .. Len(g), todos[k].k \in LoopKinds, NEW loop, loop = ls[g[k].n],
         loop.kind = "while" => s.scopes[loop.body] = << >>
  PROVE  \E a \in State :
           /\ Ends(EmitLoopExitDrops(c, s, loop.body), a, Exits(g, lvl), heads, Len(s.types))
           /\ a.h = 0 /\ Leads(a, g[k - 1].base) /\ Leads(a, g[k].head)
<1> DEFINE n == Len(g)
           b == g[n].base
           q == g[k - 1]
           r == g[k]
           t == q.h + 1
           m == Len(s.scopes)
           a == Without(b, HeldBy(s.types, Within(s.scopes, t + 1, m)))
<1>1. Nest(s, ls, todos, decls, g, lvl)
  BY DEF Emits
<1>2. Ends(c, b, Exits(g, lvl), heads, Len(s.types)) /\ Knows(s, decls, b)
  BY EmitsAlive
<1>3. /\ n \in Nat /\ k \in 1 .. n /\ k - 1 \in 1 .. n /\ n \in 1 .. n /\ k - 1 < n /\ (k < n \/ k = n) /\ m \in Nat
  <2>1. n \in Nat \ {0} /\ m \in Nat
    BY <1>1, NestTypes
  <2> QED BY <2>1
<1>4. /\ q \in Level /\ r \in Level /\ Above(s, ls, todos[k], r, q) /\ LevelOK(s, decls, q) /\ LevelOK(s, decls, r)
  <2>1. q \in Level /\ r \in Level
    BY <1>1, <1>3, NestTypes
  <2>2. Above(s, ls, todos[k], r, q) /\ LevelOK(s, decls, q) /\ LevelOK(s, decls, r)
    BY <1>1, <1>3 DEF Nest
  <2> QED BY <2>1, <2>2
<1>5. q.h \in Nat /\ r.h \in Nat /\ r.h <= m
  BY <1>1, <1>3, NestBounds
<1> HIDE DEF n, q, r, b, m
<1>6. loop.body = t /\ loop.kind = todos[k].k /\ r.h = q.h + ScopesOf(todos[k].k)
  BY <1>4 DEF Above, r
<1>7. ScopesOf(todos[k].k) \in Nat /\ ScopesOf(todos[k].k) >= 1 /\ (todos[k].k # "while" => ScopesOf(todos[k].k) >= 2)
  BY DEF ScopesOf, LoopKinds
<1>8. t \in 0 .. m
  <2>1. PICK x, y, z, w : x = q.h /\ y = r.h /\ z = ScopesOf(todos[k].k) /\ w = m
    OBVIOUS
  <2>2. x \in Nat /\ y \in Nat /\ z \in Nat /\ w \in Nat /\ y <= w /\ y = x + z /\ z >= 1
    BY <1>3, <1>5, <1>6, <1>7, <2>1
  <2>3. x + 1 \in 0 .. w
    BY <2>2
  <2> QED BY <2>1, <2>3
<1>9. s.scopes[t] = << >>
  <2>1. CASE todos[k].k = "while"
    BY <1>6, <2>1
  <2>2. CASE todos[k].k # "while"
    <3>1. t \in q.h + 1 .. r.h - 1
      BY <1>5, <1>6, <1>7, <2>2
    <3> QED BY <1>4, <3>1 DEF Above
  <2> QED BY <2>1, <2>2
<1>10. EmitLoopExitDrops(c, s, loop.body) = DropScopes(c, s, t)
  BY <1>5, <1>6, <1>8 DEF EmitLoopExitDrops, m
<1>11. /\ Holds(b, s.types, Within(s.scopes, t + 1, m))
       /\ a \in State /\ Live(a) /\ a.h = 0 /\ a.env = b.env /\ a.held = HeldBy(s.types, Owners(s.scopes, t))
  BY <1>2, <1>8, HeldAfter DEF m
<1>12. Ends(DropScopes(c, s, t), a, Exits(g, lvl), heads, Len(s.types))
  <2>1. Apart(s.types, s.scopes) /\ b \in State
    BY <1>2 DEF Knows, SlotsOK
  <2> QED BY <1>2, <1>8, <1>11, <2>1, EndsDropScopes DEF m
<1>13. Owners(s.scopes, t) = Owners(s.scopes, q.h)
  <2>1. \A j \in q.h + 1 .. t : s.scopes[j] = << >>
    BY <1>5, <1>9
  <2>2. t \in Nat /\ q.h <= t
    BY <1>5
  <2> QED BY <1>5, <2>1, <2>2, OwnersEmpty
<1>14. a.held = q.base.held /\ Live(q.base) /\ q.base.h = 0 /\ q.base \in State
  BY <1>4, <1>11, <1>13 DEF LevelOK, Level
<1>15. Live(r.head) /\ r.head.h = 0 /\ r.head.held = q.base.held /\ Inner(r.base, r.head) /\ r.head \in State
  BY <1>4 DEF Above, Level
<1>16. Inner(b, q.base)
  BY <1>1, <1>3 DEF Nest, Ordered, n, b, q
<1>17. Inner(b, r.base)
  <2>1. CASE k = n
    BY <2>1 DEF Inner, b, r
  <2>2. CASE k < n
    BY <1>1, <1>3, <2>2 DEF Nest, Ordered, n, b, r
  <2> QED BY <1>3, <2>1, <2>2
<1>18. Inner(a, q.base) /\ Inner(a, r.head)
  BY <1>11, <1>15, <1>16, <1>17, InnerTrans DEF Inner
<1> HIDE DEF a
<1>19. Leads(a, q.base) /\ Leads(a, r.head)
  BY <1>11, <1>14, <1>15, <1>18, LeadsInner
<1> QED BY <1>10, <1>11, <1>12, <1>19 DEF q, r

\* An assignment drops the old value before it stores the new one.
LEMMA AssignCompiles ==
  ASSUME Gaps = {}, Compiling, NEW name \in Names, Resolve(name) # NoSlot,
         NEW e \in Expressions("assign", slots.types[Resolve(name)]), Assign(name, e)
  PROVE  Compiling'
<1> DEFINE x == Resolve(name)
           type == slots.types[x]
<1>1. /\ ~todo[Len(todo)].transfers
      /\ ctx' = EmitStoreIntoPlace(EmitExpr(ctx, e), slots.of[name])
      /\ phase' = IF ctx'.ok THEN phase ELSE "abort"
      /\ slots' = slots /\ declared' = declared /\ loops' = loops /\ todo' = todo
  BY DEF Assign, Statement, Settle, MayEmit, Last
<1>2. PICK g, lvl, heads : Emits(ctx, slots, loops, todo, declared, g, lvl, heads)
  BY DEF Compiling, Emitting
<1>3. PICK b : b = g[Len(g)].base
  OBVIOUS
<1>4. /\ Ends(ctx, b, Exits(g, lvl), heads, Len(slots.types))
      /\ Exits(g, lvl) = [p \in DOMAIN Exits(g, lvl) |-> Exits(g, lvl)[p]]
      /\ Knows(slots, declared, b)
  BY <1>1, <1>2, <1>3, EmitsAlive
<1>5. Readable(b, e, type) /\ type \in SlotTypes
  BY <1>4, Readables
<1>6. b \in State /\ b.h = 0 /\ Len(slots.types) \in Nat
  BY <1>4 DEF Knows, SlotsOK
<1>7. Ends(EmitExpr(ctx, e), Push(b, A(Kind(type))), Exits(g, lvl), heads, Len(slots.types))
  BY <1>4, <1>5, <1>6, EndsExpr
<1>8. /\ slots.of[name] = x /\ x \in 1 .. Len(slots.types) /\ Stores(b, slots.types, x)
  BY <1>4, Known DEF NoSlot
<1>9. b.env[x] = Kind(type) /\ b.held \cap ({x} \X Nat) = Places(x, Kind(type))
  <2>1. b.held \cap ({x} \X Nat) \subseteq Places(x, Kind(type))
    BY <1>4, HeldOf
  <2>2. Places(x, Kind(type)) \subseteq {x} \X Nat
    BY DEF Places, ArrayLength
  <2>3. b.env[x] = Kind(type) /\ Places(x, Kind(type)) \subseteq b.held
    BY <1>8 DEF Stores
  <2> QED BY <2>1, <2>2, <2>3
<1> HIDE DEF x, type
<1>10. Ends(ctx', b, Exits(g, lvl), heads, Len(slots.types))
  <2>1. type \in {"string", "strs", "int", "bool", "row"} /\ slots.types[x] = type
    BY <1>5 DEF SlotTypes, type
  <2> QED BY <1>1, <1>6, <1>7, <1>8, <1>9, <2>1, EndsStoreIntoPlace
<1>11. Emitting(ctx', slots', loops', todo', declared')
  <2>1. Emitting(ctx', slots, loops, todo, declared)
    BY <1>1, <1>2, <1>3, <1>10, EmitsSame
  <2> QED BY <1>1, <2>1
<1>12. phase' = "emit"
  <2>1. phase = "emit"
    BY DEF Compiling
  <2> QED BY <1>1, <1>10, <2>1, EndsOk
<1> QED BY <1>1, <1>11, <1>12 DEF Compiling

\* A statement that is an expression drops its value.
LEMMA ExprStmtCompiles ==
  ASSUME Gaps = {}, Compiling, NEW type \in {"void", "bool", "string"},
         NEW e \in Expressions("expr", type), ExprStmt(type, e)
  PROVE  Compiling'
<1> DEFINE value == EmitExpr(ctx, e)
<1>1. /\ ~todo[Len(todo)].transfers
      /\ ctx' = IF NeedsDrop(type) THEN EmitDrop(value, type) ELSE Emit(value, "Pop", 0)
      /\ phase' = IF ctx'.ok THEN phase ELSE "abort"
      /\ slots' = slots /\ declared' = declared /\ loops' = loops /\ todo' = todo
  BY DEF ExprStmt, Statement, Settle, MayEmit, Last
<1>2. PICK g, lvl, heads : Emits(ctx, slots, loops, todo, declared, g, lvl, heads)
  BY DEF Compiling, Emitting
<1>3. PICK b : b = g[Len(g)].base
  OBVIOUS
<1>4. /\ Ends(ctx, b, Exits(g, lvl), heads, Len(slots.types))
      /\ Exits(g, lvl) = [p \in DOMAIN Exits(g, lvl) |-> Exits(g, lvl)[p]]
      /\ Knows(slots, declared, b)
  BY <1>1, <1>2, <1>3, EmitsAlive
<1>5. Readable(b, e, type) /\ type \in {"bool", "string"}
  BY <1>4, Readables DEF SlotTypes
<1>6. b \in State
  BY <1>4 DEF Knows
<1>7. Ends(value, Push(b, A(Kind(type))), Exits(g, lvl), heads, Len(slots.types))
  BY <1>4, <1>5, <1>6, EndsExpr
<1> HIDE DEF value
<1>8. Ends(ctx', b, Exits(g, lvl), heads, Len(slots.types))
  BY <1>1, <1>5, <1>6, <1>7, EndsDiscard
<1>9. Emitting(ctx', slots', loops', todo', declared')
  <2>1. Emitting(ctx', slots, loops, todo, declared)
    BY <1>1, <1>2, <1>3, <1>8, EmitsSame
  <2> QED BY <1>1, <2>1
<1>10. phase' = "emit"
  <2>1. phase = "emit"
    BY DEF Compiling
  <2> QED BY <1>1, <1>8, <2>1, EndsOk
<1> QED BY <1>1, <1>9, <1>10 DEF Compiling

\* A return with a value drops what is left below it.
LEMMA ReturnValueCompiles ==
  ASSUME Gaps = {}, Compiling, NEW e \in Expressions("return", "string"), ReturnValue(e)
  PROVE  Compiling'
<1> DEFINE value == MarkTop(EmitExpr(ctx, e), "Moved")
           owners == Owners(slots.scopes, Len(slots.scopes))
<1>1. /\ ~todo[Len(todo)].transfers
      /\ ctx' = Emit(EmitReturnDrops(value, slots), "Return", 0)
      /\ phase' = IF ctx'.ok THEN phase ELSE "abort"
      /\ slots' = slots /\ declared' = declared /\ loops' = loops
      /\ todo' = [todo EXCEPT ![Len(todo)].transfers = TRUE]
  BY DEF ReturnValue, Transfer, Settle, MayEmit, Last
<1>2. PICK g, lvl, heads : Emits(ctx, slots, loops, todo, declared, g, lvl, heads)
  BY DEF Compiling, Emitting
<1>3. PICK b : b = g[Len(g)].base
  OBVIOUS
<1>4. /\ Ends(ctx, b, Exits(g, lvl), heads, Len(slots.types))
      /\ Exits(g, lvl) = [p \in DOMAIN Exits(g, lvl) |-> Exits(g, lvl)[p]]
      /\ Knows(slots, declared, b)
  BY <1>1, <1>2, <1>3, EmitsAlive
<1>5. Readable(b, e, "string") /\ Kind("string") = "string"
  BY <1>4, Readables DEF Kind
<1>6. b \in State /\ b.h = 0 /\ Live(b) /\ SlotsOK(slots) /\ b.held = HeldBy(slots.types, owners)
  BY <1>4 DEF Knows
<1>7. PICK a : a = Push(b, A("string"))
  OBVIOUS
<1>8. a \in State /\ a.h = 1 /\ Live(a) /\ a.env = b.env /\ a.held = b.held
  <2>1. A("string") \in Entry
    BY Entries
  <2>2. a \in State /\ a.h = b.h + 1 /\ a.flow = b.flow /\ a.env = b.env /\ a.held = b.held
    BY <1>6, <1>7, <2>1, PushState
  <2> QED BY <1>6, <2>2 DEF Live
<1>9. Ends(EmitExpr(ctx, e), a, Exits(g, lvl), heads, Len(slots.types))
  BY <1>4, <1>5, <1>6, <1>7, EndsExpr
<1>10. Ends(value, a, Exits(g, lvl), heads, Len(slots.types))
  <2>1. a.h >= 1 /\ "Moved" \in Marks
    BY <1>8 DEF Marks
  <2> QED BY <1>9, <2>1, EndsMarked
<1> HIDE DEF value
<1>11. Holds(a, slots.types, owners)
  <2>1. 0 \in 0 .. Len(slots.scopes)
    BY <1>6 DEF SlotsOK
  <2>2. Holds(b, slots.types, owners)
    BY <1>4, <2>1, HeldAfter
  <2> QED BY <1>6, <1>8, <2>2 DEF Holds
<1>12. /\ Apart(slots.types, slots.scopes) /\ slots.params = <<1>> /\ slots.types[1] = "string"
       /\ 1 \notin Within(slots.scopes, 1, Len(slots.scopes))
  <2>1. 0 \in 0 .. Len(slots.scopes)
    BY <1>6 DEF SlotsOK
  <2>2. 1 \notin Within(slots.scopes, 1, Len(slots.scopes))
    BY <1>6, <2>1, OwnersSplit
  <2> QED BY <1>6, <2>2 DEF SlotsOK
<1>13. Ends(EmitReturnDrops(value, slots), Without(a, HeldBy(slots.types, owners)), Exits(g, lvl), heads, Len(slots.types))
  BY <1>8, <1>10, <1>11, <1>12, EndsReturnDrops
<1>14. PICK d : d = Without(b, HeldBy(slots.types, owners))
  OBVIOUS
<1>15. d \in State /\ d.h = 0 /\ d.held = {} /\ Without(a, HeldBy(slots.types, owners)) = Push(d, A("string"))
  BY <1>6, <1>7, <1>14, WithoutState, WithoutPush
<1>16. Ends(ctx', Dead, Exits(g, lvl), heads, Len(slots.types))
  BY <1>1, <1>13, <1>15, DeadState, EndsReturn
<1>17. Emitting(ctx', slots', loops', todo', declared')
  <2>1. Emitting(ctx', slots, loops, [todo EXCEPT ![Len(todo)].transfers = TRUE], declared)
    BY <1>2, <1>16, EmitsTransfer
  <2> QED BY <1>1, <2>1
<1>18. phase' = "emit"
  <2>1. phase = "emit"
    BY DEF Compiling
  <2> QED BY <1>1, <1>16, <2>1, EndsOk
<1> QED BY <1>1, <1>17, <1>18 DEF Compiling

\* A return without a value drops all that the function holds.
LEMMA ReturnVoidCompiles ==
  ASSUME Compiling, ReturnVoid
  PROVE  Compiling'
<1> DEFINE owners == Owners(slots.scopes, Len(slots.scopes))
<1>1. /\ ~todo[Len(todo)].transfers
      /\ ctx' = Emit(EmitReturnDrops(ctx, slots), "ReturnVoid", 0)
      /\ phase' = IF ctx'.ok THEN phase ELSE "abort"
      /\ slots' = slots /\ declared' = declared /\ loops' = loops
      /\ todo' = [todo EXCEPT ![Len(todo)].transfers = TRUE]
  BY DEF ReturnVoid, Transfer, Settle, MayEmit, Last
<1>2. PICK g, lvl, heads : Emits(ctx, slots, loops, todo, declared, g, lvl, heads)
  BY DEF Compiling, Emitting
<1>3. PICK b : b = g[Len(g)].base
  OBVIOUS
<1>4. Ends(ctx, b, Exits(g, lvl), heads, Len(slots.types)) /\ Knows(slots, declared, b)
  BY <1>1, <1>2, <1>3, EmitsAlive
<1>5. b \in State /\ b.h = 0 /\ SlotsOK(slots) /\ b.held = HeldBy(slots.types, owners)
  BY <1>4 DEF Knows
<1>6. 0 \in 0 .. Len(slots.scopes)
  BY <1>5 DEF SlotsOK
<1>7. Holds(b, slots.types, owners)
  BY <1>4, <1>6, HeldAfter
<1>8. /\ Apart(slots.types, slots.scopes) /\ slots.params = <<1>> /\ slots.types[1] = "string"
      /\ 1 \notin Within(slots.scopes, 1, Len(slots.scopes))
  <2>1. 1 \notin Within(slots.scopes, 1, Len(slots.scopes))
    BY <1>5, <1>6, OwnersSplit
  <2> QED BY <1>5, <2>1 DEF SlotsOK
<1>9. PICK d : d = Without(b, HeldBy(slots.types, owners))
  OBVIOUS
<1>10. Ends(EmitReturnDrops(ctx, slots), d, Exits(g, lvl), heads, Len(slots.types))
  BY <1>4, <1>5, <1>7, <1>8, <1>9, EndsReturnDrops
<1>11. d \in State /\ d.h = 0 /\ d.held = {}
  BY <1>5, <1>9, WithoutState
<1>12. Ends(ctx', Dead, Exits(g, lvl), heads, Len(slots.types))
  BY <1>1, <1>10, <1>11, DeadState, EndsReturnVoid
<1>13. Emitting(ctx', slots', loops', todo', declared')
  <2>1. Emitting(ctx', slots, loops, [todo EXCEPT ![Len(todo)].transfers = TRUE], declared)
    BY <1>2, <1>12, EmitsTransfer
  <2> QED BY <1>1, <2>1
<1>14. phase' = "emit"
  <2>1. phase = "emit"
    BY DEF Compiling
  <2> QED BY <1>1, <1>12, <2>1, EndsOk
<1> QED BY <1>1, <1>13, <1>14 DEF Compiling

\* Each open loop has a level.
LEMMA LoopLevel ==
  ASSUME Gaps = {}, NEW g, NEW lvl, NEW heads, Emits(ctx, slots, loops, todo, declared, g, lvl, heads),
         NEW l \in DOMAIN loops, DropsBody(loops[l])
  PROVE  \E k \in 2 .. Len(g) :
           /\ todo[k].k \in LoopKinds /\ g[k].n = l
           /\ loops[l].kind = "while" => slots.scopes[loops[l].body] = << >>
<1>1. Nest(slots, loops, todo, declared, g, lvl)
  BY DEF Emits
<1>2. l \in 1 .. Len(loops)
  BY <1>1 DEF Nest, Shaped
<1>3. PICK k \in 2 .. Len(g) : todo[k].k \in LoopKinds /\ g[k].n = l
  BY <1>1, <1>2 DEF Nest
<1> QED BY <1>3 DEF DropsBody

\* A break drops the loop's scopes and is patched at the loop's end.
LEMMA BreakCompiles ==
  ASSUME Gaps = {}, Compiling, NEW l \in DOMAIN loops, Break(l)
  PROVE  Compiling'
<1> DEFINE dropped == EmitLoopExitDrops(ctx, slots, loops[l].body)
           todos2 == [todo EXCEPT ![Len(todo)].transfers = TRUE]
<1>1. /\ ~todo[Len(todo)].transfers /\ DropsBody(loops[l])
      /\ ctx' = Emit(dropped, "Jump", 0)
      /\ phase' = IF ctx'.ok THEN phase ELSE "abort"
      /\ slots' = slots /\ declared' = declared
      /\ loops' = [loops EXCEPT ![l].breaks = @ \union {Len(ctx'.code)}]
      /\ todo' = todos2
  BY DEF Break, Transfer, Statement, Settle, MayEmit, Last
<1>2. PICK g, lvl, heads : Emits(ctx, slots, loops, todo, declared, g, lvl, heads)
  BY DEF Compiling, Emitting
<1>3. PICK k \in 2 .. Len(g) : /\ todo[k].k \in LoopKinds /\ g[k].n = l
                               /\ loops[l].kind = "while" => slots.scopes[loops[l].body] = << >>
  BY <1>1, <1>2, LoopLevel
<1>4. PICK a \in State :
        /\ Ends(dropped, a, Exits(g, lvl), heads, Len(slots.types))
        /\ a.h = 0 /\ Leads(a, g[k - 1].base) /\ Leads(a, g[k].head)
  <2>1. PICK loop : loop = loops[g[k].n]
    OBVIOUS
  <2>2. loop.kind = "while" => slots.scopes[loop.body] = << >>
    BY <1>3, <2>1
  <2>3. \E a \in State :
          /\ Ends(EmitLoopExitDrops(ctx, slots, loop.body), a, Exits(g, lvl), heads, Len(slots.types))
          /\ a.h = 0 /\ Leads(a, g[k - 1].base) /\ Leads(a, g[k].head)
    BY <1>1, <1>2, <1>3, <2>1, <2>2, ExitDrops
  <2> QED BY <1>3, <2>1, <2>3
<1>5. PICK at : at = Here(dropped)
  OBVIOUS
<1> HIDE DEF dropped, todos2
<1>6. Nest(slots, loops, todo, declared, g, lvl) /\ HeadsOK(todo, g, heads)
  BY <1>2 DEF Emits
<1>7. g[k - 1].base \in State /\ g[k].exit = g[k - 1].base
  <2>1. g[k - 1] \in Level
    BY <1>6, NestTypes
  <2>2. Above(slots, loops, todo[k], g[k], g[k - 1])
    BY <1>6 DEF Nest
  <2>3. todo[k].k # "else"
    BY <1>3 DEF LoopKinds
  <2> QED BY <2>1, <2>2, <2>3 DEF Above, Level
<1>8. /\ Ends(ctx', Dead, Opened(Exits(g, lvl), at, g[k - 1].base), heads, Len(slots.types))
      /\ Len(ctx'.code) = at /\ at \notin DOMAIN Exits(g, lvl)
  BY <1>1, <1>4, <1>5, <1>7, DeadState, EndsJump
<1>9. at \in Nat /\ at \notin DOMAIN lvl
  <2>1. at \in Nat
    BY <1>4, <1>5, NotedCode
  <2> QED BY <1>8, <2>1 DEF Exits
<1>10. loops' = [loops EXCEPT ![g[k].n].breaks = @ \union {at}]
  BY <1>1, <1>3, <1>8
<1>11. PICK lvl2 : lvl2 = Opened(lvl, at, k)
  OBVIOUS
<1>12. /\ Nest(slots, loops', todo, declared, g, lvl2)
       /\ Exits(g, lvl2) = Opened(Exits(g, lvl), at, g[k].exit)
  <2>1. PICK ls2 : ls2 = loops'
    OBVIOUS
  <2>2. /\ Nest(slots, ls2, todo, declared, g, Opened(lvl, at, k))
        /\ Exits(g, Opened(lvl, at, k)) = Opened(Exits(g, lvl), at, g[k].exit)
    <3>1. ls2 = [loops EXCEPT ![g[k].n].breaks = @ \union {at}]
      BY <1>10, <2>1
    <3>2. Nest(slots, ls2, todo, declared, g, Opened(lvl, at, k))
      BY <1>3, <1>6, <1>9, <3>1, NestBreak
    <3>3. Exits(g, Opened(lvl, at, k)) = Opened(Exits(g, lvl), at, g[k].exit)
      BY <1>3, <1>6, <1>9, <3>1, NestBreak
    <3> QED BY <3>2, <3>3
  <2> QED BY <1>11, <2>1, <2>2
<1>13. PICK n : n = Len(todo)
  OBVIOUS
<1>14. /\ Nest(slots, loops', todos2, declared, g, lvl2)
       /\ Len(todos2) = Len(todo) /\ todos2[Len(todo)].transfers = TRUE
       /\ \A j \in 1 .. Len(todo) : todos2[j].k = todo[j].k /\ todos2[j].back = todo[j].back
  <2>1. PICK u, ls2 : u = todos2 /\ ls2 = loops'
    OBVIOUS
  <2>2. u = [todo EXCEPT ![Len(todo)].transfers = TRUE] /\ Nest(slots, ls2, todo, declared, g, lvl2)
    BY <1>12, <2>1 DEF todos2
  <2>3. /\ Nest(slots, ls2, u, declared, g, lvl2)
        /\ Len(u) = Len(todo) /\ u[Len(todo)].transfers = TRUE
        /\ \A j \in 1 .. Len(todo) : u[j].k = todo[j].k /\ u[j].back = todo[j].back
    <3>1. Nest(slots, ls2, u, declared, g, lvl2)
      BY <2>2, NestTransfer
    <3>2. Len(u) = Len(todo)
      BY <2>2, NestTransfer
    <3>3. u[Len(todo)].transfers = TRUE
      BY <2>2, NestTransfer
    <3>4. \A j \in 1 .. Len(todo) : u[j].k = todo[j].k /\ u[j].back = todo[j].back
      BY <2>2, NestTransfer
    <3> QED BY <3>1, <3>2, <3>3, <3>4
  <2> QED BY <2>1, <2>3
<1>15. HeadsOK(todos2, g, heads)
  <2>1. Len(todo) = Len(g) /\ \A j \in 2 .. Len(g) : j \in 1 .. Len(g)
    BY <1>6, NestTypes
  <2> QED BY <1>6, <1>14, <2>1 DEF HeadsOK
<1>16. Now(todos2, g) = Dead
  BY <1>14 DEF Now
<1>17. Emitting(ctx', slots', loops', todo', declared')
  <2>1. Ends(ctx', Dead, Exits(g, lvl2), heads, Len(slots.types))
    BY <1>7, <1>8, <1>12
  <2>2. Emits(ctx', slots, loops', todos2, declared, g, lvl2, heads)
    BY <1>14, <1>15, <1>16, <2>1 DEF Emits
  <2>3. Emitting(ctx', slots, loops', todos2, declared)
    BY <2>2 DEF Emitting
  <2> QED BY <1>1, <2>3
<1>18. phase' = "emit"
  <2>1. phase = "emit"
    BY DEF Compiling
  <2> QED BY <1>1, <1>8, <2>1, EndsOk
<1>19. todo' # << >>
  BY <1>1 DEF Compiling, todos2
<1> QED BY <1>17, <1>18, <1>19 DEF Compiling

\* A continue drops the body's scopes, and jumps back or is patched before the step.
LEMMA ContinueCompiles ==
  ASSUME Gaps = {}, Compiling, NEW l \in DOMAIN loops, Continue(l)
  PROVE  Compiling'
<1> DEFINE dropped == EmitLoopExitDrops(ctx, slots, loops[l].body)
<1>1. /\ ~todo[Len(todo)].transfers /\ DropsBody(loops[l]) /\ loops[l].kind = "while"
      /\ ctx' = Emit(dropped, "Jump", loops[l].continueTarget)
      /\ phase' = IF ctx'.ok THEN phase ELSE "abort"
      /\ slots' = slots /\ declared' = declared /\ loops' = loops
      /\ todo' = [todo EXCEPT ![Len(todo)].transfers = TRUE]
  BY DEF Continue, Transfer, Statement, Settle, MayEmit, Last
<1>2. PICK g, lvl, heads : Emits(ctx, slots, loops, todo, declared, g, lvl, heads)
  BY DEF Compiling, Emitting
<1>3. PICK k \in 2 .. Len(g) : /\ todo[k].k \in LoopKinds /\ g[k].n = l
                               /\ loops[l].kind = "while" => slots.scopes[loops[l].body] = << >>
  BY <1>1, <1>2, LoopLevel
<1>4. PICK a \in State :
        /\ Ends(dropped, a, Exits(g, lvl), heads, Len(slots.types))
        /\ a.h = 0 /\ Leads(a, g[k - 1].base) /\ Leads(a, g[k].head)
  <2>1. PICK loop : loop = loops[g[k].n]
    OBVIOUS
  <2>2. loop.kind = "while" => slots.scopes[loop.body] = << >>
    BY <1>3, <2>1
  <2>3. \E a \in State :
          /\ Ends(EmitLoopExitDrops(ctx, slots, loop.body), a, Exits(g, lvl), heads, Len(slots.types))
          /\ a.h = 0 /\ Leads(a, g[k - 1].base) /\ Leads(a, g[k].head)
    BY <1>1, <1>2, <1>3, <2>1, <2>2, ExitDrops
  <2> QED BY <1>3, <2>1, <2>3
<1> HIDE DEF dropped
<1>5. Nest(slots, loops, todo, declared, g, lvl) /\ HeadsOK(todo, g, heads)
  BY <1>2 DEF Emits
<1>6. loops[l].continueTarget = todo[k].back
  <2>1. Above(slots, loops, todo[k], g[k], g[k - 1])
    BY <1>5 DEF Nest
  <2> QED BY <1>1, <1>3, <2>1 DEF Above
<1>7. PICK e \in heads : e = <<todo[k].back, g[k].head>>
  BY <1>3, <1>5 DEF HeadsOK
<1>8. e[1] = loops[l].continueTarget /\ e[2] = g[k].head
  BY <1>6, <1>7
<1>9. ctx' = Noted(dropped, "Jump", e[1], 0, 0)
  BY <1>1, <1>8, EmitNotes
<1>10. Ends(ctx', Dead, Exits(g, lvl), heads, Len(slots.types))
  <2>1. Dead \in State /\ Dead.h = a.h /\ Leads(a, e[2])
    BY <1>4, <1>8, DeadState
  <2> QED BY <1>4, <1>7, <1>9, <2>1, EndsBack
<1>11. Emitting(ctx', slots', loops', todo', declared')
  <2>1. Emitting(ctx', slots, loops, [todo EXCEPT ![Len(todo)].transfers = TRUE], declared)
    BY <1>2, <1>10, EmitsTransfer
  <2> QED BY <1>1, <2>1
<1>12. phase' = "emit"
  <2>1. phase = "emit"
    BY DEF Compiling
  <2> QED BY <1>1, <1>10, <2>1, EndsOk
<1> QED BY <1>1, <1>11, <1>12 DEF Compiling

-----------------------------------------------------------------------------
(* Blocks: what holds where one begins.                                    *)

Jumping(k) == k \in {"then", "else"} \union LoopKinds
ExitOf(t, b) == IF t.k = "else" /\ t.then THEN Dead ELSE b

\* The block t may be entered from a level of state b: s1, decls1 and ls2 are what the statement
\* adds, before the block's own scope, and base what is known where the block begins.
Enters(s, decls, ls, b, s1, decls1, ls2, t, base, head) ==
  /\ Knows(s1, decls1, base) /\ Inner(base, b) /\ Grown(s, s1, Len(s.scopes))
  /\ \A i \in 1 .. Len(decls) : decls1[i] = decls[i]
  /\ t \in Todo /\ t.k \in BlockKinds /\ ~t.transfers
  /\ Len(s1.scopes) + 1 = Len(s.scopes) + ScopesOf(t.k)
  /\ Len(decls1) + 1 = Len(decls) + DeclsOf(t.k)
  /\ \A i \in Len(s.scopes) + 1 .. Len(s1.scopes) : s1.scopes[i] = << >>
  /\ ls2 \in Seq(Loops) /\ Len(ls2) = Len(ls) + LoopsOf(t.k)
  /\ \A l \in 1 .. Len(ls) : ls2[l] = ls[l]
  /\ head \in State
  /\ t.k \in LoopKinds =>
       /\ ls2[Len(ls2)].kind = t.k /\ ls2[Len(ls2)].body = Len(s.scopes) + 1 /\ ls2[Len(ls2)].breaks = {}
       /\ t.k = "while" => ls2[Len(ls2)].continueTarget = t.back
       /\ Live(head) /\ head.h = 0 /\ head.held = b.held /\ Inner(base, head)
  /\ t.k \in Counting =>
       /\ t.counter \in 1 .. Len(s1.types) /\ s1.types[t.counter] = "int"
       /\ base.env[t.counter] = "data"

OpenIn(t, b, open) == IF Jumping(t.k) THEN Opened(open, t.jump, ExitOf(t, b)) ELSE open

\* What nests once it is entered.
NestsIn(s2, ls2, todos2, decls2, g, base, head, open, g2, lvl2) ==
  /\ Nest(s2, ls2, todos2, decls2, g2, lvl2)
  /\ Len(g2) = Len(g) + 1 /\ \A k \in 1 .. Len(g) : g2[k] = g[k]
  /\ g2[Len(g) + 1].base = base /\ g2[Len(g) + 1].head = head
  /\ Exits(g2, lvl2) = open

\* Entering a block.
LEMMA NestEnter ==
  ASSUME NEW s, NEW ls, NEW todos, NEW decls, NEW g, NEW lvl, Nest(s, ls, todos, decls, g, lvl),
         ~todos[Len(todos)].transfers, NEW b, b = g[Len(g)].base,
         NEW s1, NEW decls1, NEW ls2, NEW t, NEW base, NEW head,
         Enters(s, decls, ls, b, s1, decls1, ls2, t, base, head),
         Jumping(t.k) => t.jump \notin DOMAIN lvl
  PROVE  \E g2, lvl2 : NestsIn(PushScope(s1), ls2, Append(todos, t), Append(decls1, NoDecls), g,
                               base, head, OpenIn(t, b, Exits(g, lvl)), g2, lvl2)
<1> PICK exit : exit = ExitOf(t, b)
  OBVIOUS
<1> DEFINE s2 == PushScope(s1)
           decls2 == Append(decls1, NoDecls)
           r == [h |-> Len(s1.scopes) + 1, d |-> Len(decls1) + 1, n |-> Len(ls2), base |-> base,
                 exit |-> exit, head |-> head]
           q == g[Len(g)]
           pending == IF Jumping(t.k) THEN {t.jump} ELSE {}
<1>1. /\ Knows(s1, decls1, base) /\ Inner(base, b) /\ Grown(s, s1, Len(s.scopes))
      /\ \A i \in 1 .. Len(decls) : decls1[i] = decls[i]
      /\ t \in Todo /\ t.k \in BlockKinds /\ ~t.transfers
      /\ Len(s1.scopes) + 1 = Len(s.scopes) + ScopesOf(t.k)
      /\ Len(decls1) + 1 = Len(decls) + DeclsOf(t.k)
      /\ \A i \in Len(s.scopes) + 1 .. Len(s1.scopes) : s1.scopes[i] = << >>
      /\ ls2 \in Seq(Loops) /\ Len(ls2) = Len(ls) + LoopsOf(t.k)
      /\ \A l \in 1 .. Len(ls) : ls2[l] = ls[l]
      /\ head \in State
  BY DEF Enters
<1>2. t.k \in LoopKinds =>
       /\ ls2[Len(ls2)].kind = t.k /\ ls2[Len(ls2)].body = Len(s.scopes) + 1 /\ ls2[Len(ls2)].breaks = {}
       /\ t.k = "while" => ls2[Len(ls2)].continueTarget = t.back
       /\ Live(head) /\ head.h = 0 /\ head.held = b.held /\ Inner(base, head)
  BY DEF Enters
<1>3. t.k \in Counting =>
       /\ t.counter \in 1 .. Len(s1.types) /\ s1.types[t.counter] = "int"
       /\ base.env[t.counter] = "data"
  BY DEF Enters
<1>4. /\ Len(g) \in Nat \ {0} /\ Len(g) \in 1 .. Len(g) /\ q \in Level
      /\ q.h = Len(s.scopes) /\ q.d = Len(decls) /\ q.n = Len(ls)
      /\ Len(s.scopes) \in Nat /\ Len(decls) \in Nat /\ Len(ls) \in Nat /\ Len(s.types) \in Nat
  <2>1. Len(g) \in Nat \ {0}
    BY NestTypes
  <2>2. Len(g) \in 1 .. Len(g)
    BY <2>1
  <2> QED BY <2>1, <2>2, NestTypes DEF Nest
<1>5. /\ SlotsOK(s1) /\ DeclaredOK(s1, decls1) /\ base \in State
      /\ Len(s1.scopes) \in Nat /\ Len(decls1) \in Nat /\ Len(ls2) \in Nat /\ Len(s1.types) \in Nat
  BY <1>1 DEF Knows, SlotsOK, DeclaredOK
<1>6. exit \in State
  <2>1. b \in State
    BY <1>4 DEF Level
  <2> QED BY <2>1, DeadState DEF ExitOf
<1>7. r \in Level
  BY <1>1, <1>5, <1>6 DEF Level
<1>8. /\ SlotsOK(s2) /\ s2.types = s1.types /\ Len(s2.scopes) = Len(s1.scopes) + 1
      /\ s2.scopes[Len(s1.scopes) + 1] = << >>
      /\ \A i \in 1 .. Len(s1.scopes) : s2.scopes[i] = s1.scopes[i]
  BY <1>5, SlotsPush
<1>9. Knows(s2, decls1, base)
  BY <1>1, KnowsPush
<1>10. /\ Knows(s2, decls2, base) /\ Len(decls2) = Len(decls1) + 1
       /\ \A i \in 1 .. Len(decls1) : decls2[i] = decls1[i]
  BY <1>9, KnowsDecls
<1>11. DeclaredOK(s2, decls2)
  BY <1>10 DEF Knows
<1> DEFINE todos2 == Append(todos, t)
<1>12. /\ r.h = Len(s2.scopes) /\ r.d = Len(decls2) /\ r.n = Len(ls2)
       /\ r.base = base /\ r.exit = exit /\ r.head = head
  BY <1>8, <1>10
<1> HIDE DEF r, q, s2, decls2, todos2, pending
<1>13. LevelOK(s2, decls2, r)
  BY <1>7, <1>8, <1>10, <1>11, <1>12, LevelKnows
<1>14. Len(s.scopes) <= Len(s1.scopes) /\ Len(decls) <= Len(decls1)
  <2>1. ScopesOf(t.k) \in Nat \ {0} /\ DeclsOf(t.k) \in Nat \ {0}
    BY DEF ScopesOf, DeclsOf
  <2>2. PICK x, y, z : x = Len(s.scopes) /\ y = Len(s1.scopes) /\ z = ScopesOf(t.k)
    OBVIOUS
  <2>3. x \in Nat /\ y \in Nat /\ z \in Nat \ {0} /\ y + 1 = x + z
    BY <1>1, <1>4, <1>5, <2>1, <2>2
  <2>4. x <= y
    BY <2>3
  <2>5. PICK u, v, w : u = Len(decls) /\ v = Len(decls1) /\ w = DeclsOf(t.k)
    OBVIOUS
  <2>6. u \in Nat /\ v \in Nat /\ w \in Nat \ {0} /\ v + 1 = u + w
    BY <1>1, <1>4, <1>5, <2>1, <2>5
  <2>7. u <= v
    BY <2>6
  <2> QED BY <2>2, <2>4, <2>5, <2>7
<1>15. Grown(s, s2, Len(s.scopes))
  <2>1. /\ Len(s.types) <= Len(s1.types) /\ \A i \in 1 .. Len(s.types) : s1.types[i] = s.types[i]
        /\ \A i \in 1 .. Len(s.scopes) : s1.scopes[i] = s.scopes[i]
    BY <1>1 DEF Grown
  <2>2. 1 .. Len(s.scopes) \subseteq 1 .. Len(s1.scopes) /\ Len(s.scopes) <= Len(s2.scopes)
    BY <1>4, <1>5, <1>8, <1>14
  <2> QED BY <1>8, <2>1, <2>2 DEF Grown
<1>16. Len(decls) <= Len(decls2) /\ \A i \in 1 .. Len(decls) : decls2[i] = decls[i]
  <2>1. 1 .. Len(decls) \subseteq 1 .. Len(decls1) /\ Len(decls) <= Len(decls2)
    BY <1>4, <1>5, <1>10, <1>14
  <2> QED BY <1>1, <1>10, <2>1
<1>17. Above(s2, ls2, t, r, q)
  <2>1. r.h = q.h + ScopesOf(t.k) /\ r.d = q.d + DeclsOf(t.k) /\ r.n = q.n + LoopsOf(t.k)
    BY <1>1, <1>4, <1>8, <1>10, <1>12
  <2>2. r.exit = IF t.k = "else" /\ t.then THEN Dead ELSE q.base
    BY <1>12 DEF ExitOf, q
  <2>3. \A i \in q.h + 1 .. r.h - 1 : s2.scopes[i] = << >>
    <3>1. PICK x, y : x = Len(s.scopes) /\ y = Len(s1.scopes)
      OBVIOUS
    <3>2. q.h = x /\ r.h = y + 1 /\ x \in Nat /\ y \in Nat /\ x <= y
      BY <1>4, <1>5, <1>8, <1>12, <1>14, <3>1
    <3>3. (y + 1) - 1 = y /\ x + 1 .. y \subseteq 1 .. y
      BY <3>2
    <3> QED BY <1>1, <1>8, <3>1, <3>2, <3>3
  <2>4. t.k \in LoopKinds =>
       /\ ls2[r.n].kind = t.k /\ ls2[r.n].body = q.h + 1
       /\ t.k = "while" => ls2[r.n].continueTarget = t.back
       /\ Live(r.head) /\ r.head.h = 0 /\ r.head.held = q.base.held /\ Inner(r.base, r.head)
    BY <1>2, <1>4, <1>12 DEF q
  <2>5. t.k \in Counting =>
       /\ t.counter \in 1 .. Len(s2.types) /\ s2.types[t.counter] = "int"
       /\ r.base.env[t.counter] = "data"
    BY <1>3, <1>8, <1>12
  <2> QED BY <1>1, <2>1, <2>2, <2>3, <2>4, <2>5 DEF Above
<1>18. pending = Pending(ls2, t, r) /\ pending \cap DOMAIN lvl = {}
  <2>1. t.jump \in Nat
    BY <1>1 DEF Todo
  <2>2. t.k \in LoopKinds => ls2[r.n].breaks = {}
    BY <1>2, <1>12
  <2>3. pending = Pending(ls2, t, r)
    BY <2>1, <2>2 DEF Pending, pending, Jumping
  <2> QED BY <2>3 DEF pending
<1>19. ~todos[Len(todos)].transfers /\ Inner(r.base, g[Len(g)].base) /\ Above(s2, ls2, t, r, g[Len(g)])
  BY <1>1, <1>12, <1>17 DEF q
<1>25. t \in Todo /\ ls2 \in Seq(Loops) /\ Len(ls2) = Len(ls) + LoopsOf(t.k) /\ \A l \in 1 .. Len(ls) : ls2[l] = ls[l]
  BY <1>1
<1>26. r.h = Len(s2.scopes) /\ r.d = Len(decls2) /\ r.n = Len(ls2) /\ SlotsOK(s2)
  BY <1>8, <1>12
<1>27. Pushes(s, ls, todos, decls, g, lvl, s2, decls2, t, r, ls2, pending)
  BY <1>7, <1>11, <1>13, <1>15, <1>16, <1>18, <1>19, <1>25, <1>26 DEF Pushes
<1>20. Nest(s2, ls2, todos2, decls2, Append(g, r), Entered(g, lvl, pending))
  BY <1>27, NestPush DEF todos2
<1>21. Exits(Append(g, r), Entered(g, lvl, pending)) =
         Opens(Exits(g, lvl), pending, exit)
  BY <1>12,  <1>27, NestPush
<1>22. Exits(Append(g, r), Entered(g, lvl, pending)) =
         IF Jumping(t.k) THEN Opened(Exits(g, lvl), t.jump, exit) ELSE Exits(g, lvl)
  <2>1. DOMAIN Exits(g, lvl) = DOMAIN lvl /\ Exits(g, lvl) = [p \in DOMAIN lvl |-> Exits(g, lvl)[p]]
    BY DEF Exits
  <2>2. PICK o : o = Exits(g, lvl)
    OBVIOUS
  <2>3. CASE Jumping(t.k)
    <3>1. pending = {t.jump}
      BY <2>3 DEF pending
    <3>2. Opens(o, {t.jump}, exit) = Opened(o, t.jump, exit)
      BY DEF Opens, Opened
    <3> QED BY <1>21, <2>2, <2>3, <3>1, <3>2
  <2>4. CASE ~Jumping(t.k)
    <3>1. pending = {}
      BY <2>4 DEF pending
    <3>2. Opens(o, {}, exit) = o
      BY <2>1, <2>2 DEF Opens
    <3> QED BY <1>21, <2>2, <2>4, <3>1, <3>2
  <2> QED BY <2>3, <2>4
<1>23. g \in Seq(Level)
  BY DEF Nest, Shaped
<1>24. /\ Len(Append(g, r)) = Len(g) + 1 /\ Append(g, r)[Len(g) + 1] = r
       /\ \A k \in 1 .. Len(g) : Append(g, r)[k] = g[k]
  BY <1>7, <1>23, Appended
<1>28. NestsIn(s2, ls2, todos2, decls2, g, base, head, OpenIn(t, b, Exits(g, lvl)), Append(g, r), Entered(g, lvl, pending))
  BY <1>12, <1>20, <1>22, <1>24 DEF NestsIn, OpenIn
<1> QED BY <1>28 DEF s2, decls2, todos2

\* Emitting goes on in the block.
LEMMA EmitsEnter ==
  ASSUME NEW s, NEW ls, NEW todos, NEW decls, NEW g, NEW lvl, Nest(s, ls, todos, decls, g, lvl),
         NEW heads, HeadsOK(todos, g, heads), ~todos[Len(todos)].transfers, NEW b, b = g[Len(g)].base,
         NEW s1, NEW decls1, NEW ls2, NEW t, NEW base, NEW head,
         Enters(s, decls, ls, b, s1, decls1, ls2, t, base, head),
         Jumping(t.k) => t.jump \notin DOMAIN Exits(g, lvl),
         NEW heads2, heads \subseteq heads2, t.k \in LoopKinds => <<t.back, head>> \in heads2,
         NEW c, Ends(c, base, OpenIn(t, b, Exits(g, lvl)), heads2, Len(s1.types))
  PROVE  Emitting(c, PushScope(s1), ls2, Append(todos, t), Append(decls1, NoDecls))
<1>1. Jumping(t.k) => t.jump \notin DOMAIN lvl
  BY DEF Exits
<1>2. PICK g2, lvl2 :
        /\ Nest(PushScope(s1), ls2, Append(todos, t), Append(decls1, NoDecls), g2, lvl2)
        /\ Len(g2) = Len(g) + 1 /\ \A k \in 1 .. Len(g) : g2[k] = g[k]
        /\ g2[Len(g) + 1].base = base /\ g2[Len(g) + 1].head = head
        /\ Exits(g2, lvl2) = OpenIn(t, b, Exits(g, lvl))
  <2>1. \E g2, lvl2 : NestsIn(PushScope(s1), ls2, Append(todos, t), Append(decls1, NoDecls), g,
                              base, head, OpenIn(t, b, Exits(g, lvl)), g2, lvl2)
    BY <1>1, NestEnter
  <2> QED BY <2>1 DEF NestsIn
<1>3. t \in Todo /\ ~t.transfers /\ Knows(s1, decls1, base)
  BY DEF Enters
<1>4. todos \in Seq(Todo) /\ Len(todos) = Len(g) /\ Len(g) \in Nat \ {0}
  BY NestTypes DEF Nest, Shaped
<1> DEFINE todos2 == Append(todos, t)
           n == Len(g)
<1>5. Len(todos2) = n + 1 /\ todos2[n + 1] = t /\ \A k \in 1 .. n : todos2[k] = todos[k]
  BY <1>3, <1>4, Appended
<1>6. PushScope(s1).types = s1.types
  BY <1>3, SlotsPush DEF Knows
<1>7. n \in Nat /\ \A k \in 2 .. n + 1 : (k \in 1 .. n /\ k \in 2 .. n) \/ k = n + 1
  BY <1>4
<1> HIDE DEF todos2, n
<1>8. HeadsOK(todos2, g2, heads2)
  <2>1. Len(g2) = n + 1 /\ g2[n + 1].head = head /\ \A k \in 1 .. n : g2[k] = g[k]
    BY <1>2 DEF n
  <2>2. <<1, Start>> \in heads2
    BY DEF HeadsOK
  <2>3. \A k \in 2 .. n : todos[k].k \in LoopKinds => <<todos[k].back, g[k].head>> \in heads2
    BY DEF HeadsOK, n
  <2> QED BY <1>5, <1>7, <2>1, <2>2, <2>3 DEF HeadsOK
<1>9. Now(todos2, g2) = base
  BY <1>2, <1>3, <1>5 DEF Now, n
<1>10. Emits(c, PushScope(s1), ls2, todos2, Append(decls1, NoDecls), g2, lvl2, heads2)
  BY <1>2, <1>6, <1>8, <1>9 DEF Emits, todos2
<1> QED BY <1>10 DEF Emitting, todos2

\* What is known where a statement is emitted.
Alive(g, lvl, heads, b) ==
  /\ Nest(slots, loops, todo, declared, g, lvl) /\ HeadsOK(todo, g, heads)
  /\ ~todo[Len(todo)].transfers /\ b = g[Len(g)].base
  /\ Ends(ctx, b, Exits(g, lvl), heads, Len(slots.types))
  /\ Exits(g, lvl) = [p \in DOMAIN Exits(g, lvl) |-> Exits(g, lvl)[p]]
  /\ Knows(slots, declared, b) /\ b \in State /\ b.h = 0 /\ Live(b) /\ SlotsOK(slots)
  /\ loops \in Seq(Loops) /\ todo # << >>

\* It is known wherever one may be.
LEMMA Statements ==
  ASSUME Compiling, MayEmit
  PROVE  \E g, lvl, heads, b : Alive(g, lvl, heads, b)
<1>1. ~todo[Len(todo)].transfers /\ todo # << >>
  BY DEF MayEmit, Last
<1>2. PICK g, lvl, heads : Emits(ctx, slots, loops, todo, declared, g, lvl, heads)
  BY DEF Compiling, Emitting
<1>3. PICK b : b = g[Len(g)].base
  OBVIOUS
<1>4. /\ Ends(ctx, b, Exits(g, lvl), heads, Len(slots.types))
      /\ Exits(g, lvl) = [p \in DOMAIN Exits(g, lvl) |-> Exits(g, lvl)[p]]
      /\ Knows(slots, declared, b)
  BY <1>1, <1>2, <1>3, EmitsAlive
<1>5. Nest(slots, loops, todo, declared, g, lvl) /\ HeadsOK(todo, g, heads)
  BY <1>2 DEF Emits
<1>6. b \in State /\ b.h = 0 /\ Live(b) /\ SlotsOK(slots)
  BY <1>4 DEF Knows
<1>7. loops \in Seq(Loops)
  BY <1>5 DEF Nest, Shaped
<1>8. Alive(g, lvl, heads, b)
  BY <1>1, <1>3, <1>4, <1>5, <1>6, <1>7 DEF Alive
<1> QED BY <1>8

\* A block that is entered in the state of its statement.
LEMMA EntersPlain ==
  ASSUME NEW s, NEW decls, NEW b, Knows(s, decls, b), NEW ls \in Seq(Loops),
         NEW t \in Todo, t.k \in {"block", "then", "else", "default"}, ~t.transfers
  PROVE  Enters(s, decls, ls, b, s, decls, ls, t, b, b)
<1>1. t.k \in BlockKinds /\ t.k \notin LoopKinds /\ t.k \notin Counting
  BY DEF BlockKinds, LoopKinds, Counting
<1>2. ScopesOf(t.k) = 1 /\ DeclsOf(t.k) = 1 /\ LoopsOf(t.k) = 0
  BY <1>1 DEF ScopesOf, DeclsOf, LoopsOf, Counting
<1>3. s.scopes \in Seq(Seq(Nat \ {0})) /\ s.types \in Seq(SlotTypes) /\ b \in State
  BY DEF Knows, SlotsOK
<1>4. Len(s.scopes) \in Nat /\ Len(s.types) \in Nat /\ Len(ls) \in Nat
  BY <1>3
<1>5. Grown(s, s, Len(s.scopes))
  BY <1>4 DEF Grown
<1>6. Inner(b, b)
  BY DEF Inner
<1>7. \A i \in Len(s.scopes) + 1 .. Len(s.scopes) : s.scopes[i] = << >>
  BY <1>4
<1>8. Len(ls) = Len(ls) + LoopsOf(t.k)
  BY <1>2, <1>4
<1> QED BY <1>1, <1>2, <1>3, <1>5, <1>6, <1>7, <1>8 DEF Enters

\* The placeholders that are left once those just opened are patched.
LEMMA OpenedOnce ==
  ASSUME NEW open, NEW at, NEW to, at \notin DOMAIN open, open = [p \in DOMAIN open |-> open[p]]
  PROVE  Unpatched(Opened(open, at, to), {at}) = open
<1> DEFINE o == Opened(open, at, to)
<1>1. DOMAIN o = DOMAIN open \union {at} /\ \A p \in DOMAIN open : o[p] = open[p]
  BY DEF Opened
<1> HIDE DEF o
<1>2. DOMAIN o \ {at} = DOMAIN open
  BY <1>1
<1>3. [p \in DOMAIN o \ {at} |-> o[p]] = [p \in DOMAIN open |-> open[p]]
  BY <1>1, <1>2
<1> QED BY <1>3 DEF o, Unpatched

\* patchJumpToHere.
LEMMA EndsUnpatched ==
  ASSUME NEW c, NEW a, NEW open, NEW heads, NEW top, Ends(c, a, open, heads, top),
         NEW ats \in SUBSET DOMAIN open, \A p \in ats : Leads(open[p], a)
  PROVE  Ends(PatchAllToHere(c, ats), a, Unpatched(open, ats), heads, top)
BY EndsPatched DEF Unpatched

\* A block opens a scope.
LEMMA BeginBlockCompiles ==
  ASSUME Compiling, BeginBlock
  PROVE  Compiling'
<1>1. /\ MayEmit /\ ctx' = ctx /\ phase' = (IF ctx'.ok THEN phase ELSE "abort")
      /\ slots' = PushScope(slots) /\ declared' = Append(declared, NoDecls)
      /\ todo' = Append(todo, Block("block")) /\ loops' = loops
  BY DEF BeginBlock, Statement, Settle, Enter
<1>2. PICK g, lvl, heads, b : Alive(g, lvl, heads, b)
  BY <1>1, Statements
<1>3. PICK t : t = Block("block")
  OBVIOUS
<1>4. t \in Todo /\ t.k = "block" /\ ~t.transfers /\ ~Jumping(t.k) /\ t.k \notin LoopKinds
  BY <1>3 DEF Block, Todo, BlockKinds, Jumping, LoopKinds
<1>5. Enters(slots, declared, loops, b, slots, declared, loops, t, b, b)
  BY <1>2, <1>4, EntersPlain DEF Alive
<1>6. OpenIn(t, b, Exits(g, lvl)) = Exits(g, lvl)
  BY <1>4 DEF OpenIn
<1>7. Emitting(ctx, PushScope(slots), loops, Append(todo, t), Append(declared, NoDecls))
  <2>1. /\ Nest(slots, loops, todo, declared, g, lvl) /\ HeadsOK(todo, g, heads)
        /\ ~todo[Len(todo)].transfers /\ b = g[Len(g)].base
    BY <1>2 DEF Alive
  <2>2. Ends(ctx, b, OpenIn(t, b, Exits(g, lvl)), heads, Len(slots.types))
    BY <1>2, <1>6 DEF Alive
  <2>3. heads \subseteq heads
    OBVIOUS
  <2> QED BY <1>4, <1>5, <2>1, <2>2, <2>3, EmitsEnter
<1>8. phase' = "emit" /\ todo' # << >>
  <2>1. phase = "emit" /\ todo \in Seq(Todo)
    BY <1>2 DEF Compiling, Alive, Nest, Shaped
  <2>2. phase' = "emit"
    BY <1>1, <1>2, <2>1, EndsOk DEF Alive
  <2> QED BY <1>1, <2>1, <2>2
<1> QED BY <1>1, <1>3, <1>7, <1>8 DEF Compiling

\* A condition that is emitted, and the jump past what it guards.
LEMMA EndsGuard ==
  ASSUME Gaps = {}, NEW b, Knows(slots, declared, b), NEW open, open = [p \in DOMAIN open |-> open[p]],
         NEW heads, NEW top, NEW c, Ends(c, b, open, heads, top), NEW e \in Expressions("test", "bool")
  PROVE  \E at : /\ Ends(Emit(EmitExpr(c, e), "JumpIfFalse", 0), b, Opened(open, at, b), heads, top)
                 /\ Len(Emit(EmitExpr(c, e), "JumpIfFalse", 0).code) = at /\ at \notin DOMAIN open /\ at \in Nat
<1>1. b \in State
  BY DEF Knows
<1>2. Readable(b, e, "bool") /\ Kind("bool") = "data"
  BY Readables DEF Kind
<1> DEFINE d == EmitExpr(c, e)
<1>3. Ends(d, Push(b, A("data")), open, heads, top)
  BY <1>1, <1>2, EndsExpr
<1> HIDE DEF d
<1>4. Leads(b, b)
  BY <1>1, LeadsSelf
<1>5. /\ Ends(Emit(d, "JumpIfFalse", 0), b, Opened(open, Here(d), b), heads, top)
      /\ Len(Emit(d, "JumpIfFalse", 0).code) = Here(d) /\ Here(d) \notin DOMAIN open
  BY <1>1, <1>3, <1>4, EndsBranch
<1>6. Here(d) \in Nat
  BY <1>3, NotedCode
<1> QED BY <1>5, <1>6 DEF d

\* An if emits its condition and a jump that is still to be patched.
LEMMA BeginIfCompiles ==
  ASSUME Gaps = {}, Compiling, NEW e \in Expressions("test", "bool"), BeginIf(e)
  PROVE  Compiling'
<1> DEFINE c == Emit(EmitExpr(ctx, e), "JumpIfFalse", 0)
           t == [Block("then") EXCEPT !.jump = Len(c.code)]
<1>1. /\ MayEmit /\ ctx' = c /\ phase' = (IF ctx'.ok THEN phase ELSE "abort")
      /\ slots' = PushScope(slots) /\ declared' = Append(declared, NoDecls)
      /\ todo' = Append(todo, t) /\ loops' = loops
  BY DEF BeginIf, Statement, Settle, Enter
<1>2. PICK g, lvl, heads, b : Alive(g, lvl, heads, b)
  BY <1>1, Statements
<1>3. /\ Nest(slots, loops, todo, declared, g, lvl) /\ HeadsOK(todo, g, heads)
      /\ ~todo[Len(todo)].transfers /\ b = g[Len(g)].base /\ Knows(slots, declared, b)
      /\ loops \in Seq(Loops)
  BY <1>2 DEF Alive
<1>4. PICK at : /\ Ends(c, b, Opened(Exits(g, lvl), at, b), heads, Len(slots.types))
                /\ Len(c.code) = at /\ at \notin DOMAIN Exits(g, lvl) /\ at \in Nat
  BY <1>2, EndsGuard DEF Alive
<1> HIDE DEF c
<1>5. t \in Todo /\ t.k = "then" /\ ~t.transfers /\ t.jump = at
  BY <1>4 DEF Block, Todo, BlockKinds
<1> HIDE DEF t
<1>6. t.k \notin LoopKinds /\ OpenIn(t, b, Exits(g, lvl)) = Opened(Exits(g, lvl), at, b)
  BY <1>5 DEF LoopKinds, OpenIn, Jumping, ExitOf
<1>7. Enters(slots, declared, loops, b, slots, declared, loops, t, b, b)
  BY <1>3, <1>5, EntersPlain
<1>8. Emitting(c, PushScope(slots), loops, Append(todo, t), Append(declared, NoDecls))
  <2>1. Ends(c, b, OpenIn(t, b, Exits(g, lvl)), heads, Len(slots.types))
    BY <1>4, <1>6
  <2>2. heads \subseteq heads /\ (Jumping(t.k) => t.jump \notin DOMAIN Exits(g, lvl))
    BY <1>4, <1>5
  <2> QED BY <1>3, <1>6, <1>7, <2>1, <2>2, EmitsEnter
<1>9. phase' = "emit" /\ todo' # << >>
  <2>1. phase = "emit" /\ todo \in Seq(Todo)
    BY <1>3 DEF Compiling, Nest, Shaped
  <2>2. phase' = "emit"
    BY <1>1, <1>4, <2>1, EndsOk
  <2> QED BY <1>1, <2>1, <2>2
<1> QED BY <1>1, <1>8, <1>9 DEF Compiling

\* A while remembers its head, where it comes back to.
LEMMA BeginWhileCompiles ==
  ASSUME Gaps = {}, Compiling, NEW e \in Expressions("test", "bool"), BeginWhile(e)
  PROVE  Compiling'
<1> DEFINE c == Emit(EmitExpr(ctx, e), "JumpIfFalse", 0)
           t == [Block("while") EXCEPT !.jump = Len(c.code), !.back = Here(ctx)]
           loop == Loop("while", Here(ctx), Len(slots.scopes) + 1)
           ls2 == Append(loops, loop)
<1>1. /\ MayEmit /\ ctx' = c /\ phase' = (IF ctx'.ok THEN phase ELSE "abort")
      /\ slots' = PushScope(slots) /\ declared' = Append(declared, NoDecls)
      /\ todo' = Append(todo, t) /\ loops' = ls2
  BY DEF BeginWhile, Statement, Settle, Enter
<1>2. PICK g, lvl, heads, b : Alive(g, lvl, heads, b)
  BY <1>1, Statements
<1>3. /\ Nest(slots, loops, todo, declared, g, lvl) /\ HeadsOK(todo, g, heads)
      /\ ~todo[Len(todo)].transfers /\ b = g[Len(g)].base /\ Knows(slots, declared, b)
      /\ loops \in Seq(Loops) /\ b \in State /\ Live(b) /\ b.h = 0 /\ SlotsOK(slots)
  BY <1>2 DEF Alive
<1>4. PICK heads2 : heads2 = heads \union {<<Here(ctx), b>>}
  OBVIOUS
<1>5. Ends(ctx, b, Exits(g, lvl), heads2, Len(slots.types)) /\ Here(ctx) \in Nat
  <2>1. Ends(ctx, b, Exits(g, lvl), heads, Len(slots.types))
    BY <1>2 DEF Alive
  <2> QED BY <1>4, <2>1, EndsHead, NotedCode
<1>6. PICK at : /\ Ends(c, b, Opened(Exits(g, lvl), at, b), heads2, Len(slots.types))
                /\ Len(c.code) = at /\ at \notin DOMAIN Exits(g, lvl) /\ at \in Nat
  BY <1>2, <1>3, <1>5, EndsGuard DEF Alive
<1> HIDE DEF c
<1>7. t \in Todo /\ t.k = "while" /\ ~t.transfers /\ t.jump = at /\ t.back = Here(ctx)
  BY <1>5, <1>6 DEF Block, Todo, BlockKinds, LoopKinds
<1>8. /\ Len(slots.scopes) \in Nat /\ Len(slots.types) \in Nat /\ Len(loops) \in Nat
  BY <1>3 DEF SlotsOK
<1>9. loop \in Loops /\ loop.kind = "while" /\ loop.continueTarget = Here(ctx) /\ loop.body = Len(slots.scopes) + 1 /\ loop.breaks = {}
  BY <1>5, <1>8 DEF Loop, Loops, LoopKinds
<1> HIDE DEF t, loop
<1>10. /\ ls2 \in Seq(Loops) /\ Len(ls2) = Len(loops) + 1 /\ ls2[Len(loops) + 1] = loop
       /\ \A l \in 1 .. Len(loops) : ls2[l] = loops[l]
  BY <1>3, <1>9, Appended
<1> HIDE DEF ls2
<1>11. OpenIn(t, b, Exits(g, lvl)) = Opened(Exits(g, lvl), at, b)
  BY <1>7 DEF LoopKinds, OpenIn, Jumping, ExitOf
<1>12. Enters(slots, declared, loops, b, slots, declared, ls2, t, b, b)
  <2>1. t.k \in BlockKinds /\ t.k \in LoopKinds /\ t.k \notin Counting /\ ScopesOf(t.k) = 1 /\ DeclsOf(t.k) = 1 /\ LoopsOf(t.k) = 1
    BY <1>7 DEF BlockKinds, LoopKinds, Counting, ScopesOf, DeclsOf, LoopsOf
  <2>2. Grown(slots, slots, Len(slots.scopes)) /\ Inner(b, b)
    BY <1>8 DEF Grown, Inner
  <2>3. \A i \in Len(slots.scopes) + 1 .. Len(slots.scopes) : slots.scopes[i] = << >>
    BY <1>8
  <2>4. ls2[Len(ls2)].kind = t.k /\ ls2[Len(ls2)].body = Len(slots.scopes) + 1 /\ ls2[Len(ls2)].breaks = {}
        /\ ls2[Len(ls2)].continueTarget = t.back
    BY <1>7, <1>9, <1>10
  <2> QED BY <1>3, <1>7, <1>10, <2>1, <2>2, <2>3, <2>4 DEF Enters
<1>13. Emitting(c, PushScope(slots), ls2, Append(todo, t), Append(declared, NoDecls))
  <2>1. Ends(c, b, OpenIn(t, b, Exits(g, lvl)), heads2, Len(slots.types))
    BY <1>6, <1>11
  <2>2. heads \subseteq heads2 /\ <<t.back, b>> \in heads2 /\ (Jumping(t.k) => t.jump \notin DOMAIN Exits(g, lvl))
    BY <1>4, <1>6, <1>7
  <2> QED BY <1>3, <1>12, <2>1, <2>2, EmitsEnter
<1>14. phase' = "emit" /\ todo' # << >>
  <2>1. phase = "emit" /\ todo \in Seq(Todo)
    BY <1>3 DEF Compiling, Nest, Shaped
  <2>2. phase' = "emit"
    BY <1>1, <1>6, <2>1, EndsOk
  <2> QED BY <1>1, <2>1, <2>2
<1> QED BY <1>1, <1>13, <1>14 DEF Compiling

\* A switch keeps its subject in a slot, and opens its first case or its default.
LEMMA BeginSwitchCompiles ==
  ASSUME Gaps = {}, Compiling, NEW cases \in 0 .. 1, BeginSwitch(cases)
  PROVE  Compiling'
<1> DEFINE subject == Literal(ctx, "int")
           none == Emit(Emit(subject, "Pop", 0), "Jump", 0)
           c == PatchAllToHere(none, {Len(none.code)})
           t == Block("default")
<1>1. /\ MayEmit /\ ctx' = c /\ phase' = (IF ctx'.ok THEN phase ELSE "abort")
      /\ slots' = PushScope(slots) /\ declared' = Append(declared, NoDecls)
      /\ todo' = Append(todo, t) /\ loops' = loops
  <2>1. cases = 0
    BY DEF BeginSwitch
  <2> QED BY <2>1 DEF BeginSwitch, Statement, Settle, Enter
<1>2. PICK g, lvl, heads, b : Alive(g, lvl, heads, b)
  BY <1>1, Statements
<1>3. /\ Nest(slots, loops, todo, declared, g, lvl) /\ HeadsOK(todo, g, heads)
      /\ ~todo[Len(todo)].transfers /\ b = g[Len(g)].base /\ Knows(slots, declared, b)
      /\ loops \in Seq(Loops) /\ b \in State
  BY <1>2 DEF Alive
<1>4. PICK open : open = Exits(g, lvl)
  OBVIOUS
<1>5. open = [p \in DOMAIN open |-> open[p]] /\ Ends(ctx, b, open, heads, Len(slots.types))
  BY <1>2, <1>4 DEF Alive
<1>6. Ends(subject, Push(b, A("data")), open, heads, Len(slots.types))
  <2>1. Kind("int") = "data"
    BY DEF Kind
  <2> QED BY <1>3, <1>5, <2>1, EndsConst
<1> HIDE DEF subject
<1> DEFINE d == Emit(subject, "Pop", 0)
<1>7. Ends(d, b, open, heads, Len(slots.types))
  <2>1. A("data") \in Entry /\ A("data").k = "data"
    BY Entries
  <2> QED BY <1>3, <1>6, <2>1, EndsPop
<1> HIDE DEF d
<1>8. PICK at : /\ Ends(none, b, Opened(open, at, b), heads, Len(slots.types))
                /\ Len(none.code) = at /\ at \notin DOMAIN open
  <2>1. Leads(b, b)
    BY <1>3, LeadsSelf
  <2>2. /\ Ends(Emit(d, "Jump", 0), b, Opened(open, Here(d), b), heads, Len(slots.types))
        /\ Len(Emit(d, "Jump", 0).code) = Here(d) /\ Here(d) \notin DOMAIN open
    BY <1>3, <1>7, <2>1, EndsJump
  <2> QED BY <2>2 DEF d
<1> HIDE DEF none
<1>9. Ends(c, b, open, heads, Len(slots.types))
  <2>1. {at} \in SUBSET DOMAIN Opened(open, at, b) /\ \A p \in {at} : Leads(Opened(open, at, b)[p], b)
    BY <1>3, LeadsSelf DEF Opened
  <2>2. Ends(PatchAllToHere(none, {at}), b, Unpatched(Opened(open, at, b), {at}), heads, Len(slots.types))
    BY <1>8, <2>1, EndsUnpatched
  <2>3. Unpatched(Opened(open, at, b), {at}) = open
    BY <1>5, <1>8, OpenedOnce
  <2> QED BY <1>8, <2>2, <2>3
<1> HIDE DEF c
<1>10. t \in Todo /\ t.k = "default" /\ ~t.transfers /\ ~Jumping(t.k) /\ t.k \notin LoopKinds
  BY DEF Block, Todo, BlockKinds, Jumping, LoopKinds
<1> HIDE DEF t
<1>11. Enters(slots, declared, loops, b, slots, declared, loops, t, b, b)
  BY <1>3, <1>10, EntersPlain
<1>12. Emitting(c, PushScope(slots), loops, Append(todo, t), Append(declared, NoDecls))
  <2>1. Ends(c, b, OpenIn(t, b, Exits(g, lvl)), heads, Len(slots.types))
    BY <1>4, <1>9, <1>10 DEF OpenIn
  <2>2. heads \subseteq heads
    OBVIOUS
  <2> QED BY <1>3, <1>10, <1>11, <2>1, <2>2, EmitsEnter
<1>13. phase' = "emit" /\ todo' # << >>
  <2>1. phase = "emit" /\ todo \in Seq(Todo)
    BY <1>3 DEF Compiling, Nest, Shaped
  <2>2. phase' = "emit"
    BY <1>1, <1>9, <2>1, EndsOk
  <2>3. t \in Todo
    BY <1>10
  <2> QED BY <1>1, <2>1, <2>2, <2>3
<1> QED BY <1>1, <1>12, <1>13 DEF Compiling

\* What a counting loop adds before its body's own scope: n scopes without slots to drop, one scope
\* of names, and slots of data.
Grew(s, decls, b, n, s1, d1, base) ==
  /\ Knows(s1, d1, base) /\ Inner(base, b) /\ base.held = b.held /\ Grown(s, s1, Len(s.scopes))
  /\ Len(d1) = Len(decls) + 1 /\ \A i \in 1 .. Len(decls) : d1[i] = decls[i]
  /\ Len(s1.scopes) = Len(s.scopes) + n /\ n \in Nat \ {0} /\ Len(s.scopes) \in Nat /\ Len(decls) \in Nat /\ Len(s.types) \in Nat
  /\ \A i \in Len(s.scopes) + 1 .. Len(s1.scopes) : s1.scopes[i] = << >>

\* The first scope, and the names'.
LEMMA GrewStart ==
  ASSUME NEW s, NEW decls, NEW b, Knows(s, decls, b)
  PROVE  Grew(s, decls, b, 1, PushScope(s), Append(decls, NoDecls), b)
<1> DEFINE s1 == PushScope(s)
           d1 == Append(decls, NoDecls)
<1>1. SlotsOK(s)
  BY DEF Knows
<1>2. /\ s1.types = s.types /\ Len(s.scopes) \in Nat /\ Len(s1.scopes) = Len(s.scopes) + 1
      /\ s1.scopes[Len(s.scopes) + 1] = << >>
      /\ \A i \in 1 .. Len(s.scopes) : s1.scopes[i] = s.scopes[i]
  BY <1>1, SlotsPush
<1>3. Knows(s1, decls, b)
  BY KnowsPush
<1>4. /\ Knows(s1, d1, b) /\ Len(d1) = Len(decls) + 1 /\ Len(decls) \in Nat
      /\ \A i \in 1 .. Len(decls) : d1[i] = decls[i]
  BY <1>3, KnowsDecls
<1> HIDE DEF s1, d1
<1>5. s.types \in Seq(SlotTypes)
  BY <1>1 DEF SlotsOK
<1>6. Len(s.types) \in Nat
  BY <1>5
<1>7. Len(s.types) <= Len(s.types) /\ Len(s.scopes) <= Len(s.scopes) + 1
  BY <1>2, <1>6
<1>8. Grown(s, s1, Len(s.scopes))
  BY <1>2, <1>7 DEF Grown
<1>9. \A i \in Len(s.scopes) + 1 .. Len(s1.scopes) : s1.scopes[i] = << >>
  BY <1>2
<1>10. Inner(b, b)
  BY DEF Inner
<1> QED BY <1>2, <1>4, <1>6, <1>8, <1>9, <1>10 DEF Grew, s1, d1

\* One scope more.
LEMMA GrewPush ==
  ASSUME NEW s, NEW decls, NEW b, NEW n, NEW s1, NEW d1, NEW base, Grew(s, decls, b, n, s1, d1, base)
  PROVE  Grew(s, decls, b, n + 1, PushScope(s1), d1, base)
<1> DEFINE s2 == PushScope(s1)
<1>1. /\ Knows(s1, d1, base) /\ Inner(base, b) /\ base.held = b.held /\ Grown(s, s1, Len(s.scopes))
      /\ Len(d1) = Len(decls) + 1 /\ \A i \in 1 .. Len(decls) : d1[i] = decls[i]
      /\ Len(s1.scopes) = Len(s.scopes) + n /\ n \in Nat \ {0} /\ Len(s.scopes) \in Nat /\ Len(decls) \in Nat /\ Len(s.types) \in Nat
      /\ \A i \in Len(s.scopes) + 1 .. Len(s1.scopes) : s1.scopes[i] = << >>
  BY DEF Grew
<1>2. SlotsOK(s1)
  BY <1>1 DEF Knows
<1>3. /\ s2.types = s1.types /\ Len(s1.scopes) \in Nat /\ Len(s2.scopes) = Len(s1.scopes) + 1
      /\ s2.scopes[Len(s1.scopes) + 1] = << >>
      /\ \A i \in 1 .. Len(s1.scopes) : s2.scopes[i] = s1.scopes[i]
  BY <1>2, SlotsPush
<1>4. Knows(s2, d1, base)
  BY <1>1, KnowsPush
<1> HIDE DEF s2
<1>5. PICK x, y : x = Len(s.scopes) /\ y = Len(s1.scopes)
  OBVIOUS
<1>6. x \in Nat /\ y \in Nat /\ n \in Nat \ {0} /\ y = x + n
  BY <1>1, <1>5
<1>7. /\ x <= y + 1 /\ 1 .. x \subseteq 1 .. y /\ n + 1 \in Nat \ {0} /\ y + 1 = x + (n + 1)
      /\ \A i \in x + 1 .. y + 1 : i = y + 1 \/ (i \in x + 1 .. y /\ i \in 1 .. y)
  BY <1>6
<1>8. Grown(s, s2, Len(s.scopes))
  BY <1>1, <1>3, <1>5, <1>7 DEF Grown
<1>9. \A i \in Len(s.scopes) + 1 .. Len(s2.scopes) : s2.scopes[i] = << >>
  BY <1>1, <1>3, <1>5, <1>7
<1>10. Len(s2.scopes) = Len(s.scopes) + (n + 1)
  BY <1>3, <1>5, <1>7
<1> QED BY <1>1, <1>4, <1>7, <1>8, <1>9, <1>10 DEF Grew, s2

\* And a slot of data.
LEMMA GrewAlloc ==
  ASSUME NEW s, NEW decls, NEW b, NEW n, NEW s1, NEW d1, NEW base, Grew(s, decls, b, n, s1, d1, base),
         NEW name, NEW type \in {"int", "row"}, NEW d2, Declares(s1, d1, name, d2)
  PROVE  /\ Grew(s, decls, b, n, AllocateLocal(s1, name, type), d2, Stored(base, NextSlot(s1), "data"))
         /\ AllocateLocal(s1, name, type).types[NextSlot(s1)] = type
         /\ \A i \in 1 .. Len(s1.types) : AllocateLocal(s1, name, type).types[i] = s1.types[i]
         /\ NextSlot(AllocateLocal(s1, name, type)) = NextSlot(s1) + 1
         /\ Len(AllocateLocal(s1, name, type).types) = NextSlot(s1) /\ NextSlot(s1) \in Nat \ {0}
         /\ Len(s1.types) \in Nat /\ NextSlot(s1) = Len(s1.types) + 1
         /\ base.held \cap ({NextSlot(s1)} \X Nat) = {}
         /\ base \in State /\ base.h = 0
<1> DEFINE s2 == AllocateLocal(s1, name, type)
           x == NextSlot(s1)
           base2 == Stored(base, x, "data")
<1>1. /\ Knows(s1, d1, base) /\ Inner(base, b) /\ base.held = b.held /\ Grown(s, s1, Len(s.scopes))
      /\ Len(d1) = Len(decls) + 1 /\ \A i \in 1 .. Len(decls) : d1[i] = decls[i]
      /\ Len(s1.scopes) = Len(s.scopes) + n /\ n \in Nat \ {0} /\ Len(s.scopes) \in Nat /\ Len(decls) \in Nat /\ Len(s.types) \in Nat
      /\ \A i \in Len(s.scopes) + 1 .. Len(s1.scopes) : s1.scopes[i] = << >>
  BY DEF Grew
<1>2. type \in SlotTypes /\ Kind(type) = "data" /\ ~NeedsDrop(type)
  BY DEF SlotTypes, Kind, NeedsDrop, DropKind
<1>3. /\ Knows(s2, d2, base2)
      /\ Allocated(s1, s2, type)
      /\ Len(d2) = Len(d1) /\ Len(d1) \in Nat
      /\ \A i \in 1 .. Len(d1) : i # Len(d1) => d2[i] = d1[i]
      /\ base.env[x] = "unset" /\ x \in Nat \ {0}
      /\ base.held \cap ({x} \X Nat) = {}
  <2>1. Knows(s1, d1, base) /\ type \in SlotTypes /\ Declares(s1, d1, name, d2)
    BY <1>1, <1>2
  <2>2. Knows(AllocateLocal(s1, name, type), d2, Stored(base, NextSlot(s1), Kind(type)))
    BY <2>1, KnowsAlloc
  <2>3. Allocated(s1, AllocateLocal(s1, name, type), type)
    BY <2>1, KnowsAlloc
  <2>4. Len(d2) = Len(d1) /\ Len(d1) \in Nat /\ \A i \in 1 .. Len(d1) : i # Len(d1) => d2[i] = d1[i]
    <3>1. Len(d2) = Len(d1) /\ Len(d1) \in Nat /\ Allocated(s1, AllocateLocal(s1, name, type), type)
      BY <2>1, KnowsAlloc
    <3>2. (\A i \in 1 .. Len(d1) : i # Len(d1) => d2[i] = d1[i]) /\ Allocated(s1, AllocateLocal(s1, name, type), type)
      BY <2>1, KnowsAlloc
    <3> QED BY <3>1, <3>2
  <2>5. /\ base.env[NextSlot(s1)] = "unset" /\ NextSlot(s1) \in Nat \ {0} /\ base.held \cap ({NextSlot(s1)} \X Nat) = {}
        /\ Allocated(s1, AllocateLocal(s1, name, type), type)
    BY <2>1, KnowsAlloc
  <2> QED BY <1>2, <2>2, <2>3, <2>4, <2>5
<1>4. base \in State /\ base.h = 0 /\ SlotsOK(s1)
  BY <1>1 DEF Knows
<1>5. s1.types \in Seq(SlotTypes)
  BY <1>4 DEF SlotsOK
<1>6. Len(s1.types) \in Nat /\ x = Len(s1.types) + 1 /\ x \in Nat
  BY <1>5 DEF NextSlot
<1>7. base2.held = base.held /\ base2.env = [base.env EXCEPT ![x] = "data"] /\ base.env \in [Nat -> Kinds]
  <2>1. "data" \in Kinds /\ Places(x, "data") = {}
    BY DEF Kinds, Places
  <2>2. base2.held = base.held \union Places(x, "data") /\ base2.env = [base.env EXCEPT ![x] = "data"]
    BY <1>4, <1>6, <2>1, StoredState
  <2>3. base.env \in [Nat -> Kinds]
    BY <1>4 DEF State
  <2> QED BY <2>1, <2>2, <2>3
<1> HIDE DEF s2, base2, x
<1>8. /\ Len(s2.types) = Len(s1.types) + 1 /\ s2.types[x] = type
      /\ \A i \in 1 .. Len(s1.types) : s2.types[i] = s1.types[i]
      /\ Len(s2.scopes) = Len(s1.scopes)
      /\ \A i \in 1 .. Len(s1.scopes) : s2.scopes[i] = s1.scopes[i]
  BY <1>2, <1>3, <1>6 DEF Allocated
<1>9. Inner(base2, b)
  <2> SUFFICES ASSUME NEW y \in Nat, b.env[y] # "unset" PROVE base2.env[y] = b.env[y]
    BY DEF Inner
  <2>1. base.env[y] = b.env[y]
    BY <1>1 DEF Inner
  <2>2. y # x
    BY <1>3, <2>1
  <2> QED BY <1>6, <1>7, <2>1, <2>2
<1>10. PICK u, v, w, k, m : u = Len(s.scopes) /\ v = Len(s1.scopes) /\ w = Len(s.types) /\ k = Len(s1.types) /\ m = Len(decls)
  OBVIOUS
<1>11. u \in Nat /\ v \in Nat /\ u <= v /\ k \in Nat /\ w \in Nat /\ w <= k /\ m \in Nat /\ Len(d1) = m + 1
  <2>1. w <= k /\ w \in Nat /\ k \in Nat /\ m \in Nat /\ Len(d1) = m + 1
    BY <1>1, <1>6, <1>10 DEF Grown
  <2>2. u \in Nat /\ n \in Nat /\ v = u + n
    BY <1>1, <1>10
  <2> QED BY <2>1, <2>2
<1>12. /\ 1 .. w \subseteq 1 .. k /\ 1 .. u \subseteq 1 .. v /\ u + 1 .. v \subseteq 1 .. v /\ w <= k + 1
       /\ \A i \in 1 .. m : i \in 1 .. m + 1 /\ i # m + 1
  BY <1>11
<1>13. Grown(s, s2, Len(s.scopes))
  <2>1. /\ \A i \in 1 .. w : s1.types[i] = s.types[i]
        /\ \A i \in 1 .. u : s1.scopes[i] = s.scopes[i]
    BY <1>1, <1>10 DEF Grown
  <2> QED BY <1>8, <1>10, <1>11, <1>12, <2>1 DEF Grown
<1>14. \A i \in 1 .. Len(decls) : d2[i] = decls[i]
  BY <1>1, <1>3, <1>10, <1>11, <1>12
<1>15. \A i \in Len(s.scopes) + 1 .. Len(s2.scopes) : s2.scopes[i] = << >>
  BY <1>1, <1>8, <1>10, <1>12
<1>16. Grew(s, decls, b, n, s2, d2, base2)
  BY <1>1, <1>3, <1>7, <1>8, <1>9, <1>13, <1>14, <1>15 DEF Grew
<1>17. NextSlot(s2) = x + 1 /\ Len(s2.types) = x
  BY <1>6, <1>8 DEF NextSlot
<1> QED BY <1>3, <1>4, <1>6, <1>8, <1>16, <1>17 DEF s2, base2, x

\* A counting loop's body may be entered.
LEMMA GrewEnters ==
  ASSUME NEW s, NEW decls, NEW b, NEW n, NEW s1, NEW d1, NEW base, Grew(s, decls, b, n, s1, d1, base),
         NEW t \in Todo, t.k \in Counting, n + 1 = ScopesOf(t.k), ~t.transfers,
         t.counter \in 1 .. Len(s1.types), s1.types[t.counter] = "int", base.env[t.counter] = "data",
         NEW ls \in Seq(Loops), NEW loop \in Loops,
         loop.kind = t.k, loop.body = Len(s.scopes) + 1, loop.breaks = {},
         NEW head \in State, Live(head), head.h = 0, head.held = b.held, Inner(base, head)
  PROVE  Enters(s, decls, ls, b, s1, d1, Append(ls, loop), t, base, head)
<1> DEFINE ls2 == Append(ls, loop)
<1>1. /\ Knows(s1, d1, base) /\ Inner(base, b) /\ base.held = b.held /\ Grown(s, s1, Len(s.scopes))
      /\ Len(d1) = Len(decls) + 1 /\ \A i \in 1 .. Len(decls) : d1[i] = decls[i]
      /\ Len(s1.scopes) = Len(s.scopes) + n /\ n \in Nat \ {0} /\ Len(s.scopes) \in Nat /\ Len(decls) \in Nat
      /\ \A i \in Len(s.scopes) + 1 .. Len(s1.scopes) : s1.scopes[i] = << >>
  BY DEF Grew
<1>2. /\ t.k \in BlockKinds /\ t.k \in LoopKinds /\ t.k # "while" /\ DeclsOf(t.k) = 2 /\ LoopsOf(t.k) = 1
  BY DEF BlockKinds, LoopKinds, Counting, DeclsOf, LoopsOf
<1>3. /\ ls2 \in Seq(Loops) /\ Len(ls2) = Len(ls) + 1 /\ ls2[Len(ls) + 1] = loop /\ Len(ls) \in Nat
      /\ \A l \in 1 .. Len(ls) : ls2[l] = ls[l]
  BY Appended
<1> HIDE DEF ls2
<1>4. Len(s1.scopes) + 1 = Len(s.scopes) + ScopesOf(t.k) /\ Len(d1) + 1 = Len(decls) + DeclsOf(t.k)
  <2>1. PICK x, y, z : x = Len(s.scopes) /\ y = Len(decls) /\ z = ScopesOf(t.k)
    OBVIOUS
  <2>2. x \in Nat /\ y \in Nat /\ n \in Nat /\ n + 1 = z /\ Len(s1.scopes) = x + n /\ Len(d1) = y + 1
    BY <1>1, <2>1
  <2>3. Len(s1.scopes) + 1 = x + z /\ Len(d1) + 1 = y + 2
    BY <2>2
  <2> QED BY <1>2, <2>1, <2>3
<1> QED BY <1>1, <1>2, <1>3, <1>4 DEF Enters, ls2

\* A value that is data is stored to a new slot.
LEMMA EndsNewData ==
  ASSUME NEW c, NEW a \in State, NEW open, NEW heads, NEW top \in Nat,
         Ends(c, Push(a, A("data")), open, heads, top), a.h = 0, NEW x \in 1 .. top,
         a.held \cap ({x} \X Nat) = {}
  PROVE  Ends(Emit(c, "StoreLocal", x), Stored(a, x, "data"), open, heads, top)
BY EndsStore

\* What a slot of data is known to hold.
LEMMA StoredData ==
  ASSUME NEW a \in State, NEW x \in Nat
  PROVE  LET b == Stored(a, x, "data") IN
         /\ b \in State /\ b.h = a.h /\ b.flow = a.flow /\ b.held = a.held /\ b.env[x] = "data"
         /\ \A y \in Nat : y # x => b.env[y] = a.env[y]
<1> DEFINE b == Stored(a, x, "data")
<1>1. "data" \in Kinds /\ Places(x, "data") = {}
  BY DEF Kinds, Places
<1>2. /\ b \in State /\ b.h = a.h /\ b.flow = a.flow /\ b.env = [a.env EXCEPT ![x] = "data"]
      /\ b.held = a.held \union Places(x, "data")
  BY <1>1, StoredState
<1> HIDE DEF b
<1>3. a.env \in [Nat -> Kinds]
  BY DEF State
<1>4. b.held = a.held
  BY <1>1, <1>2
<1>5. b.env[x] = "data" /\ \A y \in Nat : y # x => b.env[y] = a.env[y]
  BY <1>2, <1>3
<1> QED BY <1>2, <1>4, <1>5 DEF b

\* The test of a counting loop, below the bound of the counter.
LEMMA EndsCounter ==
  ASSUME NEW c, NEW a \in State, NEW open, NEW heads, NEW top, Ends(c, a, open, heads, top),
         NEW x \in Nat \ {0}, Live(a) => a.env[x] = "data"
  PROVE  Ends(Emit(c, "LoadLocal", x), Push(a, A("data")), open, heads, top)
<1>1. "data" \in Kinds \ {"unset"}
  BY DEF Kinds
<1> QED BY <1>1, EndsLoad

\* The names that a loop declares are new.
LEMMA FreshNames ==
  ASSUME NEW s, NEW b, Knows(s, declared, b), NEW name \in Names, Resolve(name) = NoSlot
  PROVE  \A i \in 1 .. Len(Append(declared, NoDecls)) : Append(declared, NoDecls)[i][name] = 0
<1> DEFINE d == Append(declared, NoDecls)
<1>1. \A i \in 1 .. Len(declared) : declared[i][name] = 0
  BY Resolving DEF Knows, NoSlot
<1>2. /\ Len(d) = Len(declared) + 1 /\ Len(declared) \in Nat
      /\ \A i \in 1 .. Len(declared) : d[i] = declared[i]
      /\ d[Len(declared) + 1] = NoDecls
  BY KnowsDecls
<1> HIDE DEF d
<1>3. NoDecls[name] = 0
  BY DEF NoDecls, NoSlot
<1>4. \A i \in 1 .. Len(d) : i \in 1 .. Len(declared) \/ i = Len(declared) + 1
  BY <1>2
<1>5. \A i \in 1 .. Len(d) : d[i][name] = 0
  BY <1>1, <1>2, <1>3, <1>4
<1> QED BY <1>5 DEF d

\* A for over a range stores its counter and its bound.
LEMMA BeginForCompiles ==
  ASSUME Gaps = {}, Compiling, NEW name \in Names, BeginFor(name)
  PROVE  Compiling'
<1> DEFINE x == NextSlot(slots)
           s0 == PushScope(slots)
           d0 == Append(declared, NoDecls)
           s1 == AllocateLocal(s0, name, "int")
           d1 == Declare(d0, name, x)
           start == Emit(Literal(ctx, "int"), "StoreLocal", x)
           loaded == Literal(Emit(start, "LoadLocal", x), "int")
           c == EmitCounterTest(loaded)
           t == [Block("for") EXCEPT !.jump = Len(c.code), !.back = Here(start), !.counter = x]
           loop == Loop("for", 1, Len(s1.scopes))
           ls2 == Append(loops, loop)
<1>1. /\ MayEmit /\ Resolve(name) = NoSlot
      /\ ctx' = c /\ phase' = (IF ctx'.ok THEN phase ELSE "abort")
      /\ slots' = PushScope(s1) /\ declared' = Append(d1, NoDecls)
      /\ todo' = Append(todo, t) /\ loops' = ls2
  BY DEF BeginFor, Statement, Settle, Enter
<1>2. PICK g, lvl, heads, b : Alive(g, lvl, heads, b)
  BY <1>1, Statements
<1>3. /\ Nest(slots, loops, todo, declared, g, lvl) /\ HeadsOK(todo, g, heads)
      /\ ~todo[Len(todo)].transfers /\ b = g[Len(g)].base /\ Knows(slots, declared, b)
      /\ loops \in Seq(Loops) /\ b \in State /\ Live(b) /\ b.h = 0 /\ SlotsOK(slots)
      /\ Ends(ctx, b, Exits(g, lvl), heads, Len(slots.types))
  BY <1>2 DEF Alive
<1>4. Grew(slots, declared, b, 1, s0, d0, b)
  BY <1>3, GrewStart
<1>5. s0.types = slots.types
  BY <1>3, SlotsPush
<1>6. x = NextSlot(s0)
  BY <1>5 DEF NextSlot
<1>7. Declares(s0, d0, name, d1)
  <2>1. \A i \in 1 .. Len(d0) : d0[i][name] = 0
    BY <1>1, <1>3, FreshNames
  <2> QED BY <1>6, <2>1 DEF Declares
<1> DEFINE base == Stored(b, x, "data")
<1>8. /\ Grew(slots, declared, b, 1, s1, d1, base) /\ s1.types[x] = "int" /\ Len(s1.types) = x
      /\ x \in Nat \ {0} /\ Len(s0.types) \in Nat /\ x = Len(s0.types) + 1
      /\ b.held \cap ({x} \X Nat) = {}
  <2>1. PICK y : y = NextSlot(s0)
    OBVIOUS
  <2>2. Grew(slots, declared, b, 1, AllocateLocal(s0, name, "int"), d1, Stored(b, NextSlot(s0), "data"))
    BY <1>4, <1>7, GrewAlloc
  <2>3. AllocateLocal(s0, name, "int").types[NextSlot(s0)] = "int" /\ Len(AllocateLocal(s0, name, "int").types) = NextSlot(s0)
    BY <1>4, <1>7, GrewAlloc
  <2>4. AllocateLocal(s0, name, "int").types[NextSlot(s0)] = "int" /\ NextSlot(s0) \in Nat \ {0} /\ Len(s0.types) \in Nat /\ NextSlot(s0) = Len(s0.types) + 1
    BY <1>4, <1>7, GrewAlloc
  <2>5. AllocateLocal(s0, name, "int").types[NextSlot(s0)] = "int" /\ b.held \cap ({NextSlot(s0)} \X Nat) = {}
    BY <1>4, <1>7, GrewAlloc
  <2> QED BY <1>6, <2>2, <2>3, <2>4, <2>5
<1>9. /\ base \in State /\ base.h = 0 /\ Live(base) /\ base.held = b.held /\ base.env[x] = "data"
  BY <1>3, <1>8, StoredData DEF Live
<1>10. Len(s1.scopes) = Len(slots.scopes) + 1 /\ Len(slots.scopes) \in Nat /\ Inner(base, b)
  BY <1>8 DEF Grew
<1> HIDE DEF s0, d0, s1, d1, x, base
<1>11. Ends(ctx, b, Exits(g, lvl), heads, x) /\ x \in 1 .. x /\ x \in Nat
  <2>1. Len(slots.types) \in Nat /\ Len(slots.types) <= x /\ x \in Nat
    BY <1>5, <1>8
  <2>2. Ends(ctx, b, Exits(g, lvl), heads, x)
    BY <1>3, <2>1, EndsMore
  <2>3. x \in 1 .. x
    BY <1>8
  <2> QED BY <2>1, <2>2, <2>3
<1>12. PICK open : open = Exits(g, lvl)
  OBVIOUS
<1>13. Ends(start, base, open, heads, x)
  <2>1. Kind("int") = "data"
    BY DEF Kind
  <2>2. Ends(Literal(ctx, "int"), Push(b, A("data")), open, heads, x)
    BY <1>3, <1>11, <1>12, <2>1, EndsConst
  <2> QED BY <1>3, <1>8, <1>11, <2>2, EndsNewData DEF base
<1> HIDE DEF start
<1>14. PICK heads2 : heads2 = heads \union {<<Here(start), base>>}
  OBVIOUS
<1>15. Ends(start, base, open, heads2, x) /\ Here(start) \in Nat
  BY <1>13, <1>14, EndsHead, NotedCode
<1>16. Ends(loaded, Push(Push(base, A("data")), A("data")), open, heads2, x)
  <2>1. Ends(Emit(start, "LoadLocal", x), Push(base, A("data")), open, heads2, x)
    BY <1>8, <1>9, <1>15, EndsCounter
  <2>2. Push(base, A("data")) \in State
    BY <1>9, PushState, Entries
  <2>3. Kind("int") = "data"
    BY DEF Kind
  <2> QED BY <2>1, <2>2, <2>3, EndsConst
<1> HIDE DEF loaded
<1>17. Leads(base, b)
  BY <1>3, <1>9, <1>10, LeadsInner
<1>18. PICK at : /\ Ends(c, base, Opened(open, at, b), heads2, x)
                 /\ Len(c.code) = at /\ at \notin DOMAIN open
  BY <1>3, <1>9, <1>16, <1>17, EndsCounterTest
<1>19. at \in Nat
  <2>1. c \in Ctx
    BY <1>18, EndsOk
  <2>2. c.code \in Seq(Instr)
    BY <2>1 DEF Ctx
  <2> QED BY <1>18, <2>2
<1> HIDE DEF c
<1>20. t \in Todo /\ t.k = "for" /\ ~t.transfers /\ t.jump = at /\ t.back = Here(start) /\ t.counter = x
  BY <1>8, <1>15, <1>18, <1>19 DEF Block, Todo, BlockKinds, LoopKinds
<1>21. loop \in Loops /\ loop.kind = "for" /\ loop.body = Len(slots.scopes) + 1 /\ loop.breaks = {}
  BY <1>10 DEF Loop, Loops, LoopKinds
<1> HIDE DEF t, loop
<1>22. Enters(slots, declared, loops, b, s1, d1, ls2, t, base, base)
  <2>1. t.k \in Counting /\ 1 + 1 = ScopesOf(t.k) /\ Inner(base, base)
    BY <1>20 DEF Counting, ScopesOf, Inner
  <2>2. t.counter \in 1 .. Len(s1.types) /\ s1.types[t.counter] = "int" /\ base.env[t.counter] = "data"
    BY <1>8, <1>9, <1>11, <1>20
  <2> QED BY <1>3, <1>8, <1>9, <1>20, <1>21, <2>1, <2>2, GrewEnters
<1> HIDE DEF ls2
<1>23. Emitting(c, PushScope(s1), ls2, Append(todo, t), Append(d1, NoDecls))
  <2>1. OpenIn(t, b, open) = Opened(open, at, b)
    BY <1>20 DEF LoopKinds, OpenIn, Jumping, ExitOf
  <2>2. Ends(c, base, OpenIn(t, b, Exits(g, lvl)), heads2, Len(s1.types))
    BY <1>8, <1>12, <1>18, <2>1
  <2>3. heads \subseteq heads2 /\ <<t.back, base>> \in heads2 /\ (Jumping(t.k) => t.jump \notin DOMAIN Exits(g, lvl))
    BY <1>12, <1>14, <1>18, <1>20
  <2> QED BY <1>3, <1>22, <2>2, <2>3, EmitsEnter
<1>24. phase' = "emit" /\ todo' # << >>
  <2>1. phase = "emit" /\ todo \in Seq(Todo)
    BY <1>3 DEF Compiling, Nest, Shaped
  <2>2. phase' = "emit"
    BY <1>1, <1>18, <2>1, EndsOk
  <2> QED BY <1>1, <1>20, <2>1, <2>2
<1> QED BY <1>1, <1>23, <1>24 DEF Compiling

\* A for over rows, or over a column, stores the index and the count.
LEMMA BeginRowsCompiles ==
  ASSUME Gaps = {}, Compiling, NEW name \in Names, NEW column \in BOOLEAN, BeginRows(name, column)
  PROVE  Compiling'
<1> DEFINE x == NextSlot(slots)
           y == x + 1
           z == y + 1
           type == IF column THEN "int" ELSE "row"
           s0 == PushScope(slots)
           d0 == Append(declared, NoDecls)
           s1 == AllocateLocal(s0, Unnamed, "int")
           s2 == AllocateLocal(s1, Unnamed, "int")
           s3 == PushScope(s2)
           s4 == AllocateLocal(s3, name, type)
           d4 == Declare(d0, name, z)
           zero == Emit(Literal(ctx, "int"), "StoreLocal", x)
           counted == Emit(zero, "TableCount", 0)
           start == Emit(counted, "StoreLocal", y)
           first == Emit(start, "LoadLocal", x)
           loaded == Emit(first, "LoadLocal", y)
           test == EmitCounterTest(loaded)
           again == Emit(test, "LoadLocal", x)
           row == Emit(again, "LoadRow", 0)
           value == IF column THEN Emit(row, "LoadField", 0) ELSE row
           c == Emit(value, "StoreLocal", z)
           t == [Block("rows") EXCEPT !.jump = Len(test.code), !.back = Here(start), !.counter = x]
           loop == Loop("rows", 1, Len(s2.scopes))
           ls2 == Append(loops, loop)
<1>1. /\ MayEmit /\ Resolve(name) = NoSlot
      /\ ctx' = c /\ phase' = (IF ctx'.ok THEN phase ELSE "abort")
      /\ slots' = PushScope(s4) /\ declared' = Append(d4, NoDecls)
      /\ todo' = Append(todo, t) /\ loops' = ls2
  BY DEF BeginRows, Statement, Settle, Enter
<1>2. PICK g, lvl, heads, b : Alive(g, lvl, heads, b)
  BY <1>1, Statements
<1>3. /\ Nest(slots, loops, todo, declared, g, lvl) /\ HeadsOK(todo, g, heads)
      /\ ~todo[Len(todo)].transfers /\ b = g[Len(g)].base /\ Knows(slots, declared, b)
      /\ loops \in Seq(Loops) /\ b \in State /\ Live(b) /\ b.h = 0 /\ SlotsOK(slots)
      /\ Ends(ctx, b, Exits(g, lvl), heads, Len(slots.types))
  BY <1>2 DEF Alive
<1>4. Grew(slots, declared, b, 1, s0, d0, b)
  BY <1>3, GrewStart
<1>5. s0.types = slots.types /\ NextSlot(s0) = x
  <2>1. s0.types = slots.types
    BY <1>3, SlotsPush
  <2> QED BY <2>1 DEF NextSlot
<1> DEFINE b1 == Stored(b, x, "data")
           b2 == Stored(b1, y, "data")
           b3 == Stored(b2, z, "data")
<1>6. Declares(s0, d0, Unnamed, d0) /\ Declares(s1, d0, Unnamed, d0)
  BY NamesAssumption DEF Declares
<1> HIDE DEF s0, d0
<1>7. /\ Grew(slots, declared, b, 1, s1, d0, b1) /\ s1.types[x] = "int" /\ NextSlot(s1) = y /\ Len(s1.types) = x
      /\ x \in Nat \ {0} /\ Len(s0.types) \in Nat /\ x = Len(s0.types) + 1
      /\ b.held \cap ({x} \X Nat) = {}
  <2>1. Grew(slots, declared, b, 1, AllocateLocal(s0, Unnamed, "int"), d0, Stored(b, NextSlot(s0), "data"))
    BY <1>4, <1>6, GrewAlloc
  <2>2. AllocateLocal(s0, Unnamed, "int").types[NextSlot(s0)] = "int" /\ NextSlot(AllocateLocal(s0, Unnamed, "int")) = NextSlot(s0) + 1
        /\ Len(AllocateLocal(s0, Unnamed, "int").types) = NextSlot(s0)
    BY <1>4, <1>6, GrewAlloc
  <2>3. AllocateLocal(s0, Unnamed, "int").types[NextSlot(s0)] = "int" /\ NextSlot(s0) \in Nat \ {0} /\ Len(s0.types) \in Nat /\ NextSlot(s0) = Len(s0.types) + 1
    BY <1>4, <1>6, GrewAlloc
  <2>4. AllocateLocal(s0, Unnamed, "int").types[NextSlot(s0)] = "int" /\ b.held \cap ({NextSlot(s0)} \X Nat) = {}
    BY <1>4, <1>6, GrewAlloc
  <2> QED BY <1>5, <2>1, <2>2, <2>3, <2>4
<1> HIDE DEF s1, b1
<1>8. /\ Grew(slots, declared, b, 1, s2, d0, b2) /\ s2.types[x] = "int" /\ NextSlot(s2) = z /\ Len(s2.types) = y
      /\ y \in Nat \ {0} /\ b1.held \cap ({y} \X Nat) = {} /\ b1 \in State /\ b1.h = 0
  <2>1. Grew(slots, declared, b, 1, AllocateLocal(s1, Unnamed, "int"), d0, Stored(b1, NextSlot(s1), "data"))
    BY <1>6, <1>7, GrewAlloc
  <2>2. AllocateLocal(s1, Unnamed, "int").types[NextSlot(s1)] = "int" /\ NextSlot(AllocateLocal(s1, Unnamed, "int")) = NextSlot(s1) + 1
        /\ Len(AllocateLocal(s1, Unnamed, "int").types) = NextSlot(s1)
    BY <1>6, <1>7, GrewAlloc
  <2>3. AllocateLocal(s1, Unnamed, "int").types[NextSlot(s1)] = "int" /\ NextSlot(s1) \in Nat \ {0}
    BY <1>6, <1>7, GrewAlloc
  <2>8. AllocateLocal(s1, Unnamed, "int").types[NextSlot(s1)] = "int" /\ b1 \in State /\ b1.h = 0
    BY <1>6, <1>7, GrewAlloc
  <2>4. AllocateLocal(s1, Unnamed, "int").types[NextSlot(s1)] = "int" /\ b1.held \cap ({NextSlot(s1)} \X Nat) = {}
    BY <1>6, <1>7, GrewAlloc
  <2>5. AllocateLocal(s1, Unnamed, "int").types[NextSlot(s1)] = "int" /\ \A i \in 1 .. Len(s1.types) : AllocateLocal(s1, Unnamed, "int").types[i] = s1.types[i]
    BY <1>6, <1>7, GrewAlloc
  <2>6. x \in 1 .. x
    BY <1>7
  <2>7. s2.types[x] = "int"
    BY <1>7, <2>5, <2>6
  <2> QED BY <1>7, <2>1, <2>2, <2>3, <2>4, <2>7, <2>8
<1> HIDE DEF s2, b2
<1>9. Grew(slots, declared, b, 2, s3, d0, b2) /\ s3.types = s2.types /\ NextSlot(s3) = z
  <2>1. Grew(slots, declared, b, 1 + 1, s3, d0, b2) /\ 1 + 1 = 2
    BY <1>8, GrewPush
  <2>2. SlotsOK(s2)
    BY <1>8 DEF Grew, Knows
  <2>3. s3.types = s2.types
    BY <2>2, SlotsPush
  <2> QED BY <1>8, <2>1, <2>3 DEF NextSlot
<1>10. Declares(s3, d0, name, d4)
  <2>1. \A i \in 1 .. Len(d0) : d0[i][name] = 0
    BY <1>1, <1>3, FreshNames DEF d0
  <2> QED BY <1>9, <2>1 DEF Declares
<1> HIDE DEF s3, d4
<1>11. type \in {"int", "row"}
  OBVIOUS
<1> HIDE DEF type
<1>12. /\ Grew(slots, declared, b, 2, s4, d4, b3) /\ s4.types[x] = "int" /\ Len(s4.types) = z
       /\ z \in Nat \ {0} /\ b2.held \cap ({z} \X Nat) = {} /\ b2 \in State /\ b2.h = 0
  <2>1. Grew(slots, declared, b, 2, AllocateLocal(s3, name, type), d4, Stored(b2, NextSlot(s3), "data"))
    BY <1>9, <1>10, <1>11, GrewAlloc
  <2>2. AllocateLocal(s3, name, type).types[NextSlot(s3)] = type /\ Len(AllocateLocal(s3, name, type).types) = NextSlot(s3)
    BY <1>9, <1>10, <1>11, GrewAlloc
  <2>3. AllocateLocal(s3, name, type).types[NextSlot(s3)] = type /\ NextSlot(s3) \in Nat \ {0} /\ b2 \in State /\ b2.h = 0
    BY <1>9, <1>10, <1>11, GrewAlloc
  <2>4. AllocateLocal(s3, name, type).types[NextSlot(s3)] = type /\ b2.held \cap ({NextSlot(s3)} \X Nat) = {}
    BY <1>9, <1>10, <1>11, GrewAlloc
  <2>5. AllocateLocal(s3, name, type).types[NextSlot(s3)] = type /\ \A i \in 1 .. Len(s3.types) : AllocateLocal(s3, name, type).types[i] = s3.types[i]
    BY <1>9, <1>10, <1>11, GrewAlloc
  <2>6. x \in 1 .. y
    BY <1>7
  <2>7. s4.types[x] = "int"
    BY <1>8, <1>9, <2>5, <2>6
  <2> QED BY <1>9, <2>1, <2>2, <2>3, <2>4, <2>7
<1> HIDE DEF s4
<1>13. x \in Nat \ {0} /\ x \in Nat /\ y \in Nat /\ z \in Nat /\ x \in 1 .. z /\ y \in 1 .. z /\ z \in 1 .. z /\ x # y /\ x # z /\ y # z /\ Len(slots.types) <= z
  BY <1>5, <1>7
<1>14. Len(slots.types) \in Nat
  BY <1>5, <1>7
<1> HIDE DEF x, y, z
<1>15. b1.flow = b.flow /\ b1.held = b.held /\ b1.env[x] = "data" /\ \A w \in Nat : w # x => b1.env[w] = b.env[w]
  BY <1>3, <1>13, StoredData DEF b1
<1>16. b2.flow = b.flow /\ b2.held = b.held /\ b2.env[y] = "data" /\ \A w \in Nat : w # y => b2.env[w] = b1.env[w]
  BY <1>8, <1>13, <1>15, StoredData DEF b2
<1>17. b3 \in State /\ b3.h = 0 /\ b3.flow = b.flow /\ b3.held = b.held /\ \A w \in Nat : w # z => b3.env[w] = b2.env[w]
  BY <1>12, <1>13, <1>16, StoredData
<1> HIDE DEF b3
<1>18. b2.env[x] = "data" /\ b3.env[x] = "data" /\ Live(b1) /\ Live(b2) /\ Live(b3)
  BY <1>3, <1>13, <1>15, <1>16, <1>17 DEF Live
<1>19. Inner(b2, b) /\ Inner(b3, b)
  BY <1>8, <1>12 DEF Grew
<1>20. Inner(b3, b2)
  <2>1. Knows(s3, d0, b2)
    BY <1>9 DEF Grew
  <2>2. \A w \in Nat : b2.env[w] # "unset" => w \in 1 .. Len(s3.types)
    BY <2>1 DEF Knows
  <2>3. z \notin 1 .. Len(s3.types)
    BY <1>8, <1>9, <1>13 DEF z
  <2> QED BY <1>17, <2>2, <2>3 DEF Inner
<1>21. PICK open : open = Exits(g, lvl)
  OBVIOUS
<1>22. Ends(ctx, b, open, heads, z)
  BY <1>3, <1>13, <1>14, <1>21, EndsMore
<1>23. A("data") \in Entry /\ Kind("int") = "data"
  BY Entries DEF Kind
<1>24. Ends(zero, b1, open, heads, z)
  <2>1. Ends(Literal(ctx, "int"), Push(b, A("data")), open, heads, z)
    BY <1>3, <1>22, <1>23, EndsConst
  <2> QED BY <1>3, <1>7, <1>13, <2>1, EndsNewData DEF b1
<1> HIDE DEF zero
<1>25. Ends(start, b2, open, heads, z)
  <2>1. Ends(counted, Push(b1, A("data")), open, heads, z)
    BY <1>8, <1>24, EndsCount
  <2> HIDE DEF counted
  <2> QED BY <1>8, <1>13, <2>1, EndsNewData DEF b2
<1> HIDE DEF start
<1>26. PICK heads2 : heads2 = heads \union {<<Here(start), b2>>}
  OBVIOUS
<1>27. Ends(start, b2, open, heads2, z) /\ Here(start) \in Nat
  BY <1>25, <1>26, EndsHead, NotedCode
<1>28. Ends(loaded, Push(Push(b2, A("data")), A("data")), open, heads2, z)
  <2>1. Ends(first, Push(b2, A("data")), open, heads2, z)
    BY <1>12, <1>13, <1>18, <1>27, EndsCounter
  <2>2. Push(b2, A("data")) \in State /\ Push(b2, A("data")).env = b2.env
    BY <1>12, <1>23, PushState
  <2>3. y \in Nat \ {0}
    BY <1>8
  <2> HIDE DEF first
  <2> QED BY <1>16, <2>1, <2>2, <2>3, EndsCounter
<1> HIDE DEF loaded
<1>29. Leads(b2, b)
  BY <1>3, <1>12, <1>16, <1>18, <1>19, LeadsInner
<1>30. PICK at : /\ Ends(test, b2, Opened(open, at, b), heads2, z)
                 /\ Len(test.code) = at /\ at \notin DOMAIN open
  BY <1>3, <1>12, <1>28, <1>29, EndsCounterTest
<1>31. at \in Nat
  <2>1. test \in Ctx
    BY <1>30, EndsOk
  <2>2. test.code \in Seq(Instr)
    BY <2>1 DEF Ctx
  <2> QED BY <1>30, <2>2
<1> HIDE DEF test
<1>32. PICK open2 : open2 = Opened(open, at, b)
  OBVIOUS
<1>33. Ends(value, Push(b2, A("data")), open2, heads2, z)
  <2>1. Ends(again, Push(b2, A("data")), open2, heads2, z)
    BY <1>12, <1>13, <1>18, <1>30, <1>32, EndsCounter
  <2> HIDE DEF again
  <2>2. Ends(row, Push(b2, A("data")), open2, heads2, z)
    BY <1>12, <2>1, EndsData
  <2> HIDE DEF row
  <2>3. Ends(Emit(row, "LoadField", 0), Push(b2, A("data")), open2, heads2, z)
    BY <1>12, <2>2, EndsData
  <2> QED BY <2>2, <2>3
<1> HIDE DEF value
<1>34. Ends(c, b3, open2, heads2, z)
  BY <1>12, <1>13, <1>33, EndsNewData DEF b3
<1> HIDE DEF c
<1>35. t \in Todo /\ t.k = "rows" /\ ~t.transfers /\ t.jump = at /\ t.back = Here(start) /\ t.counter = x
  BY <1>13, <1>27, <1>30, <1>31 DEF Block, Todo, BlockKinds, LoopKinds
<1>36. loop \in Loops /\ loop.kind = "rows" /\ loop.body = Len(slots.scopes) + 1 /\ loop.breaks = {}
  <2>1. Len(s2.scopes) = Len(slots.scopes) + 1 /\ Len(slots.scopes) \in Nat
    BY <1>8 DEF Grew
  <2> QED BY <2>1 DEF Loop, Loops, LoopKinds
<1> HIDE DEF t, loop
<1>37. Enters(slots, declared, loops, b, s4, d4, ls2, t, b3, b2)
  <2>1. t.k \in Counting /\ 2 + 1 = ScopesOf(t.k)
    BY <1>35 DEF Counting, ScopesOf
  <2>2. t.counter \in 1 .. Len(s4.types) /\ s4.types[t.counter] = "int" /\ b3.env[t.counter] = "data"
    BY <1>12, <1>13, <1>18, <1>35
  <2>3. b2 \in State /\ Live(b2) /\ b2.h = 0 /\ b2.held = b.held /\ Inner(b3, b2)
    BY <1>12, <1>16, <1>18, <1>20
  <2> QED BY <1>3, <1>12, <1>35, <1>36, <2>1, <2>2, <2>3, GrewEnters
<1> HIDE DEF ls2
<1>38. Emitting(c, PushScope(s4), ls2, Append(todo, t), Append(d4, NoDecls))
  <2>1. OpenIn(t, b, open) = Opened(open, at, b)
    BY <1>35 DEF LoopKinds, OpenIn, Jumping, ExitOf
  <2>2. Ends(c, b3, OpenIn(t, b, Exits(g, lvl)), heads2, Len(s4.types))
    BY <1>12, <1>21, <1>32, <1>34, <2>1
  <2>3. heads \subseteq heads2 /\ <<t.back, b2>> \in heads2 /\ (Jumping(t.k) => t.jump \notin DOMAIN Exits(g, lvl))
    BY <1>21, <1>26, <1>30, <1>35
  <2> QED BY <1>3, <1>37, <2>2, <2>3, EmitsEnter
<1>39. phase' = "emit" /\ todo' # << >>
  <2>1. phase = "emit" /\ todo \in Seq(Todo)
    BY <1>3 DEF Compiling, Nest, Shaped
  <2>2. phase' = "emit"
    BY <1>1, <1>34, <2>1, EndsOk
  <2> QED BY <1>1, <1>35, <2>1, <2>2
<1> QED BY <1>1, <1>38, <1>39 DEF Compiling
=============================================================================
