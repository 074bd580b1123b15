------------------------------ MODULE Emitter ------------------------------
(***************************************************************************)
(* The bytecode compiler's emitter (bytecode/compile, emit and memory).    *)
(*                                                                         *)
(* The emit functions recurse over a checked function body.  Here the body *)
(* is not an input: every step emits the next statement of some body Sema  *)
(* accepts, so the behaviours are the compilations of every such body of   *)
(* at most MaxStmts statements.  "todo" is the recursion: one record for   *)
(* each block that is open, with what its statement still has to emit.     *)
(*                                                                         *)
(* Code is a sequence of instructions, not of bytes; a jump's operand is   *)
(* the index it goes to, and 0 while it is a placeholder.                  *)
(***************************************************************************)
EXTENDS Integers, Sequences, SequencesExt, ResourcePlan

CONSTANTS
  Names,        \* the names a body may declare
  LocalTypes,   \* the types of its locals
  Exprs,        \* Exprs[use]: the expression forms it may use there
  Stmts,        \* the statement forms it may use
  MaxStmts,     \* bound: statements of a body, its returns not counted
  Gaps          \* the constructs of KnownGaps that it may use

(* Constructs that the emitter translates wrongly: see the README.  A body  *)
(* uses one only if Gaps names it.                                          *)
KnownGaps == {"while_exit",     \* leaving a while whose body has locals to drop
              "for_continue",   \* continue in a for loop
              "shadow",         \* a name of an outer scope declared again
              "alias",          \* a string or array read from a local
              "switch_case",    \* a switch with a case
              "and",            \* a short-circuit operator
              "void_call"}      \* a call of a void function as a statement

ASSUME GapsAssumption == Gaps \subseteq KnownGaps
ASSUME ExprsAssumption == DOMAIN Exprs = {"let", "assign", "expr", "return", "test"}
ASSUME LocalsAssumption == LocalTypes \subseteq Types \ {"void"}
ASSUME BoundAssumption == MaxStmts \in Nat

VARIABLES
  phase,      \* "emit", "abort" after a failed assertion, "run", "done"
  returns,    \* the return type of the function being compiled
  ctx,        \* CompilerContext: code, depths and the ownership stack
  slots,      \* SlotAllocator: types, names, scopes, parameters
  loops,      \* CompilerContext::loops, outermost first
  todo,       \* the blocks being emitted, outermost first
  declared,   \* what Sema resolved names to: name -> slot, per open block
  stmts       \* statements emitted so far

evars == <<phase, returns, ctx, slots, loops, todo, declared, stmts>>

----------------------------------------------------------------------------
(* CompilerContext *)

(* Opcode.cpp: the values an opcode pops and pushes.  The opcodes of        *)
(* Resolved have -1 in the table; their emitter says the effect itself.     *)
FixedEffect(op) ==
  CASE op \in {"Jump", "ReturnVoid"} -> <<0, 0>>
    [] op \in {"LoadLocal", "LoadConst", "TableCount"} -> <<0, 1>>
    [] op \in {"StoreLocal", "Pop", "JumpIfFalse", "JumpIfTrue", "Return"} -> <<1, 0>>
    [] op \in {"LoadRow", "LoadField", "IsNil", "FixedArrayGet"} -> <<1, 1>>
    [] op \in {"Compare", "Add"} -> <<2, 1>>
    [] op = "Dup" -> <<1, 2>>
Resolved == {"Call", "NewFixedArray", "FreeString", "FreeArray", "Release"}

Here(c) == Len(c.code) + 1

NoteStackEffect(c, pops, pushes) ==
  LET depth == c.depth - pops + pushes
      kept  == IF pops <= Len(c.owned) THEN Len(c.owned) - pops ELSE 0
  IN  [c EXCEPT !.depth = depth,
                !.owned = SubSeq(@, 1, kept) \o [i \in 1..pushes |-> "BitCopy"],
                !.max   = IF depth > @ THEN depth ELSE @,
                !.ok    = @ /\ depth >= 0 /\ pops <= Len(c.owned)]

\* emitOpcode with its operand; "at" remembers the depth the emitter believed in.
Written(c, op, arg) ==
  [c EXCEPT !.code = Append(@, [op |-> op, arg |-> arg]), !.at = Append(@, c.depth)]

Emit(c, op, arg) ==
  IF op \in Resolved THEN Written(c, op, arg)
  ELSE IF op = "Dup" THEN NoteStackEffect(Written(c, op, arg), 0, 1)
  ELSE NoteStackEffect(Written(c, op, arg), FixedEffect(op)[1], FixedEffect(op)[2])

MarkTop(c, state) ==
  IF c.owned = <<>> THEN [c EXCEPT !.ok = FALSE]
  ELSE [c EXCEPT !.owned[Len(c.owned)] = state]

\* markTopAsOwned, when the value just produced has a type that owns something
MarkIfOwner(c, type) == IF NeedsDrop(type) THEN MarkTop(c, "Owned") ELSE c

EmitRtCallUnnoted(c, op) == Emit(c, op, 0)    \* mutant: the effect is not noted

\* emitRtCall
EmitRtCall(c, op) == NoteStackEffect(Emit(c, op, 0), 1, 0)

\* patchJumpTo, patchJumpToHere
PatchTo(c, at, target) == [c EXCEPT !.code[at].arg = target]
PatchAllPastHere(c, ats) ==    \* mutant: an instruction too far
  [c EXCEPT !.code = [i \in DOMAIN @ |->
     IF i \in ats THEN [@[i] EXCEPT !.arg = Here(c) + 1] ELSE @[i]]]

PatchAllToHere(c, ats) ==
  [c EXCEPT !.code = [i \in DOMAIN @ |->
     IF i \in ats THEN [@[i] EXCEPT !.arg = Here(c)] ELSE @[i]]]

----------------------------------------------------------------------------
(* EmitDrop and DropSchedule *)

\* emitDrop of a type that is no fixed array
EmitPlainDrop(c, type) ==
  IF NeedsDrop(type) THEN EmitRtCall(c, DropKind(type)) ELSE Emit(c, "Pop", 0)

\* emitElementWiseDrop: the elements from the last to the first, then the array
EmitElementWiseDrop(c) ==
  LET DropElement(d, i) ==
        EmitPlainDrop(MarkIfOwner(Emit(Emit(d, "Dup", 0), "FixedArrayGet", i),
                                  ElementType), ElementType)
      dropped[n \in 0..ArrayLength] ==
        IF n = 0 THEN c ELSE DropElement(dropped[n - 1], ArrayLength + 1 - n)
  IN  Emit(dropped[ArrayLength], "Pop", 0)

EmitDrop(c, type) ==
  IF DropKind(type) = "ElementWise" THEN EmitElementWiseDrop(c)
                                    ELSE EmitPlainDrop(c, type)

EmitDropIfOwned(c, type) ==
  IF c.owned # <<>> /\ Last(c.owned) = "Owned" THEN EmitDrop(c, type)
                                                ELSE Emit(c, "Pop", 0)

DropSlot(c, types, slot) ==
  IF NeedsDrop(types[slot])
    THEN EmitDropIfOwned(MarkTop(Emit(c, "LoadLocal", slot), "Owned"), types[slot])
    ELSE c

\* the slots of a list, the last one first
DropSlots(c, s, list) ==
  LET dropped[n \in 0..Len(list)] ==
        IF n = 0 THEN c ELSE DropSlot(dropped[n - 1], s.types, list[Len(list) + 1 - n])
  IN  dropped[Len(list)]

EmitScopeDrops(c, s, scope) == DropSlots(c, s, scope)

\* the open scopes inside the scope "target", innermost first
DropScopes(c, s, target) ==
  LET dropped[n \in 0..Len(s.scopes) - target] ==
        IF n = 0 THEN c ELSE DropSlots(dropped[n - 1], s, s.scopes[Len(s.scopes) + 1 - n])
  IN  dropped[Len(s.scopes) - target]

EmitScopesOnlyDrops(c, s) == DropScopes(c, s, 0)    \* mutant: the parameters are forgotten

\* every open scope, then the parameters
EmitReturnDrops(c, s) == DropSlots(DropScopes(c, s, 0), s, s.params)

\* the scopes inside the one the loop recorded, and not that one
EmitLoopExitDrops(c, s, target) ==
  IF target <= Len(s.scopes) THEN DropScopes(c, s, target) ELSE [c EXCEPT !.ok = FALSE]

----------------------------------------------------------------------------
(* SlotAllocator *)

NoSlot == 0
PushScope(s) == [s EXCEPT !.scopes = Append(@, <<>>)]
PopScope(s)  == [s EXCEPT !.scopes = Front(@)]
NextSlot(s)  == Len(s.types) + 1

AllocateLocalOnce(s, name, type) ==    \* mutant: emplace, as for a parameter
  [s EXCEPT !.types  = Append(@, type),
            !.of     = [n \in Names |-> IF n = name /\ @[n] = NoSlot THEN NextSlot(s)
                                                                    ELSE @[n]],
            !.scopes[Len(s.scopes)] =
               IF NeedsDrop(type) THEN Append(@, NextSlot(s)) ELSE @]

\* allocateLocal; an unnamed slot is one that no name reaches
AllocateLocal(s, name, type) ==
  [s EXCEPT !.types  = Append(@, type),
            !.of     = [n \in Names |-> IF n = name THEN NextSlot(s) ELSE @[n]],
            !.scopes[Len(s.scopes)] =
               IF NeedsDrop(type) THEN Append(@, NextSlot(s)) ELSE @]
Unnamed == "(unnamed)"
ASSUME NamesAssumption == Unnamed \notin Names

----------------------------------------------------------------------------
(* What Sema accepts: SemaContext's scopes, and the forms of an expression *)

Resolve(name) ==
  LET levels == {i \in DOMAIN declared : declared[i][name] # NoSlot}
  IN  IF levels = {} THEN NoSlot
      ELSE declared[CHOOSE i \in levels : \A j \in levels : j <= i][name]

NoDecls == [n \in Names |-> NoSlot]
Declare(decls, name, slot) == [decls EXCEPT ![Len(decls)][name] = slot]

\* insertLocal refuses a name of the same scope only
MayDeclare(name) ==
  IF "shadow" \in Gaps THEN Last(declared)[name] = NoSlot
                       ELSE Resolve(name) = NoSlot

Forms(use, type) ==
  {e \in Exprs[use] : \/ e = "condition" /\ type = "bool"
                      \/ e = "literal" /\ type = "string"
                      \/ e = "array" /\ type = "strs"
                      \/ e \in {"call", "call_arg", "coalesce"} /\ type = "string"
                      \/ e = "and" /\ type = "bool" /\ "and" \in Gaps
                      \/ e = "call" /\ type = "void" /\ "void_call" \in Gaps}

Expressions(use, type) ==
  [form : Forms(use, type), type : {type}] \cup
  IF "name" \in Exprs[use] /\ (NeedsDrop(type) => "alias" \in Gaps)
    THEN [form : {"name"}, type : {type},
          name : {n \in Names : Resolve(n) # NoSlot /\ slots.types[Resolve(n)] = type}]
    ELSE {}

----------------------------------------------------------------------------
(* EmitExpr: the value of the expression ends up on top of the stack *)

Literal(c, type) == MarkIfOwner(Emit(c, "LoadConst", type), type)

EmitCall(c, args, ret) ==
  LET call == NoteStackEffect(Emit(c, "Call", [args |-> args, ret |-> ret]), args,
                              IF ret = "void" THEN 0 ELSE 1)
  IN  IF ret = "void" THEN call ELSE MarkIfOwner(call, ret)

EmitArrayLiteral(c) ==
  LET filled[n \in 0..ArrayLength] == IF n = 0 THEN c ELSE Literal(filled[n - 1], ElementType)
  IN  MarkIfOwner(NoteStackEffect(Emit(filled[ArrayLength], "NewFixedArray", ArrayLength),
                                  ArrayLength, 1), "strs")

\* the branch jumps over the right operand, and pops the left one
EmitAnd(c) ==
  LET branch == Emit(Literal(c, "bool"), "JumpIfFalse", 0)
      right  == Literal(branch, "bool")
  IN  PatchTo(right, Len(branch.code), Here(right))

\* left ?? right, with a call that may return nil on the left
EmitCoalesce(c) ==
  LET left  == NoteStackEffect(Emit(c, "Call", [args |-> 0, ret |-> "nullable"]), 0, 1)
      test  == Emit(Emit(Emit(MarkTop(left, "Owned"), "Dup", 0), "IsNil", 0),
                    "JumpIfFalse", 0)
      right == Literal(Emit(test, "Pop", 0), "string")
  IN  PatchTo(right, Len(test.code), Here(right))

EmitExpr(c, e) ==
  CASE e.form \in {"condition", "literal"} -> Literal(c, e.type)
    [] e.form = "name"      -> LET slot == slots.of[e.name]
                               IN  MarkIfOwner(Emit(c, "LoadLocal", slot),
                                               slots.types[slot])
    [] e.form = "array"     -> EmitArrayLiteral(c)
    [] e.form = "call"      -> EmitCall(c, 0, e.type)
    [] e.form = "call_arg"  -> EmitCall(Literal(c, "string"), 1, e.type)
    [] e.form = "coalesce"  -> EmitCoalesce(c)
    [] e.form = "and"       -> EmitAnd(c)

----------------------------------------------------------------------------
(* Statements *)

\* A block that is being emitted: the statement it belongs to, whether it has
\* transferred control, and what the statement needs once the block is emitted:
\* the jump to patch, where to jump back to, the loop's counter, and whether
\* the then-branch transferred.
Block(k) == [k |-> k, transfers |-> FALSE, jump |-> 0, back |-> 0, counter |-> 0,
             then |-> FALSE]

InitialSlotsDropParam ==    \* mutant: the parameter is the body's to drop as well
  [types |-> <<"string">>, of |-> NoDecls, scopes |-> << <<1>> >>, params |-> <<1>>]

\* emitDeclPrologue, for one parameter that the body never names, and the body's scope
InitialSlots ==
  [types |-> <<"string">>, of |-> NoDecls, scopes |-> << <<>> >>, params |-> <<1>>]

Init ==
  /\ phase = "emit"
  /\ returns \in {"void", "string"}
  /\ ctx = [code |-> <<>>, at |-> <<>>, depth |-> 0, max |-> 0,
            owned |-> <<>>, ok |-> TRUE]
  /\ slots = InitialSlots
  /\ loops = <<>>
  /\ todo = << Block("body") >>
  /\ declared = << NoDecls >>
  /\ stmts = 0

\* Sema resolves, and the model emits, no statement after one that transfers.
MayEmit == phase = "emit" /\ todo # <<>> /\ ~Last(todo).transfers

\* The outcome of a step: the assertions of the emitter abort the compiler.
Settle(c) == ctx' = c /\ phase' = IF c.ok THEN phase ELSE "abort"

Statement(c) ==
  MayEmit /\ stmts < MaxStmts /\ Settle(c) /\ stmts' = stmts + 1 /\ UNCHANGED returns
Transfer == todo' = [todo EXCEPT ![Len(todo)].transfers = TRUE]

VarDecl(name, type, e) ==
  LET slot == NextSlot(slots)
  IN  /\ "let" \in Stmts
      /\ MayEmit /\ MayDeclare(name)
      /\ Statement(Emit(EmitExpr(ctx, e), "StoreLocal", slot))
      /\ slots' = AllocateLocal(slots, name, type)
      /\ declared' = Declare(declared, name, slot)
      /\ UNCHANGED <<loops, todo>>

\* emitStoreIntoPlace, for a local: the old value is dropped after the new one is
\* on the stack.
EmitStoreIntoPlace(c, slot) ==
  LET type == slots.types[slot]
      dropped == IF NeedsDrop(type)
                   THEN EmitDropIfOwned(MarkTop(Emit(c, "LoadLocal", slot), "Owned"), type)
                   ELSE c
  IN  Emit(dropped, "StoreLocal", slot)

Assign(name, e) ==
  /\ "assign" \in Stmts
  /\ Statement(EmitStoreIntoPlace(EmitExpr(ctx, e), slots.of[name]))
  /\ UNCHANGED <<slots, loops, todo, declared>>

ExprStmt(type, e) ==
  /\ "expr" \in Stmts
  /\ Statement(LET value == EmitExpr(ctx, e)
               IN  IF NeedsDrop(type) THEN EmitDrop(value, type)
                                      ELSE Emit(value, "Pop", 0))
  /\ UNCHANGED <<slots, loops, todo, declared>>

\* MaxStmts does not count returns: a body can always be completed.
ReturnValue(e) ==
  /\ MayEmit /\ returns # "void"
  /\ Settle(Emit(EmitReturnDrops(MarkTop(EmitExpr(ctx, e), "Moved"), slots),
                 "Return", 0))
  /\ Transfer
  /\ UNCHANGED <<returns, slots, loops, declared, stmts>>

ReturnVoid ==
  /\ MayEmit /\ returns = "void"
  /\ Settle(Emit(EmitReturnDrops(ctx, slots), "ReturnVoid", 0))
  /\ Transfer
  /\ UNCHANGED <<returns, slots, loops, declared, stmts>>

\* A loop leaves its body's own scope alone only if bodyScope is outside it.
DropsBody(loop) ==
  \/ loop.kind # "while"
  \/ slots.scopes[loop.body] = <<>>
  \/ "while_exit" \in Gaps

\* findLoop: the innermost loop, or the one with the label
Break(l) ==
  /\ "break" \in Stmts
  /\ DropsBody(loops[l])
  /\ LET c == Emit(EmitLoopExitDrops(ctx, slots, loops[l].body), "Jump", 0)
     IN  /\ Statement(c)
         /\ loops' = [loops EXCEPT ![l].breaks = @ \cup {Len(c.code)}]
  /\ Transfer
  /\ UNCHANGED <<slots, declared>>

Continue(l) ==
  /\ "continue" \in Stmts
  /\ DropsBody(loops[l])
  /\ loops[l].kind # "while" => "for_continue" \in Gaps
  /\ Statement(Emit(EmitLoopExitDrops(ctx, slots, loops[l].body), "Jump",
                    loops[l].continueTarget))
  /\ Transfer
  /\ UNCHANGED <<slots, loops, declared>>

----------------------------------------------------------------------------
(* Statements with blocks: emitBlock runs between a Begin and an End *)

\* The start of a statement whose block is b, in the scopes s.
Enter(s, decls, b) ==
  /\ slots' = PushScope(s)
  /\ declared' = Append(decls, NoDecls)
  /\ todo' = Append(todo, b)

\* The end of the block being emitted: its scope is popped, then dropped.
Closed == EmitScopeDrops(ctx, PopScope(slots), Last(slots.scopes))

\* The rest of the statement, whose own code is c; it transfers control or not.
Leave(k, c, transfers) ==
  LET outer == Front(todo)
  IN  /\ phase = "emit" /\ todo # <<>> /\ Last(todo).k = k
      /\ Settle(c)
      /\ todo' = [outer EXCEPT ![Len(outer)].transfers = @ \/ transfers]
      /\ UNCHANGED <<returns, stmts>>

\* What a scope that ends takes with it; the names stay with the allocator.
Reveal(n) == declared' = SubSeq(declared, 1, Len(declared) - n)

BeginBlock ==
  /\ "block" \in Stmts
  /\ Statement(ctx)
  /\ Enter(slots, declared, Block("block"))
  /\ UNCHANGED loops

EndBlock ==
  /\ Leave("block", Closed, Last(todo).transfers)
  /\ slots' = PopScope(slots)
  /\ Reveal(1)
  /\ UNCHANGED loops

BeginIf(e) ==
  LET c == Emit(EmitExpr(ctx, e), "JumpIfFalse", 0)
  IN  /\ "if" \in Stmts
      /\ Statement(c)
      /\ Enter(slots, declared, [Block("then") EXCEPT !.jump = Len(c.code)])
      /\ UNCHANGED loops

\* no else branch: the if as a whole falls through
EndThen ==
  /\ Leave("then", PatchAllToHere(Closed, {Last(todo).jump}), FALSE)
  /\ slots' = PopScope(slots)
  /\ Reveal(1)
  /\ UNCHANGED loops

BeginElse ==
  LET c == Emit(Closed, "Jump", 0)
      else == [Block("else") EXCEPT !.jump = Len(c.code), !.then = Last(todo).transfers]
  IN  /\ phase = "emit" /\ todo # <<>> /\ Last(todo).k = "then"
      /\ "else" \in Stmts
      /\ Settle(PatchAllToHere(c, {Last(todo).jump}))
      /\ todo' = Append(Front(todo), else)
      /\ slots' = PushScope(PopScope(slots))
      /\ declared' = Append(Front(declared), NoDecls)
      /\ UNCHANGED <<returns, loops, stmts>>

EndElse ==
  /\ Leave("else", PatchAllToHere(Closed, {Last(todo).jump}),
           Last(todo).then /\ Last(todo).transfers)
  /\ slots' = PopScope(slots)
  /\ Reveal(1)
  /\ UNCHANGED loops

Loop(kind, continueTarget, body) ==
  [kind |-> kind, continueTarget |-> continueTarget, body |-> body, breaks |-> {}]

BeginWhile(e) ==
  LET c == Emit(EmitExpr(ctx, e), "JumpIfFalse", 0)
  IN  /\ "while" \in Stmts
      /\ Statement(c)
      /\ Enter(slots, declared,
               [Block("while") EXCEPT !.jump = Len(c.code), !.back = Here(ctx)])
      /\ loops' = Append(loops, Loop("while", Here(ctx), Len(slots.scopes) + 1))

\* the end of every loop: back to the condition, then the exits
CloseLoop(c) ==
  PatchAllToHere(Emit(c, "Jump", Last(todo).back),
                 {Last(todo).jump} \cup Last(loops).breaks)

EndWhile ==
  /\ Leave("while", CloseLoop(Closed), FALSE)
  /\ slots' = PopScope(slots)
  /\ Reveal(1)
  /\ loops' = Front(loops)

\* Both counting loops leave when the counter, below the bound on the stack,
\* has reached it.
EmitCounterTest(c) == Emit(Emit(c, "Compare", 0), "JumpIfFalse", 0)

EmitCounterStep(c, counter) ==
  Emit(Emit(Emit(Emit(c, "LoadLocal", counter), "LoadConst", "int"), "Add", 0),
       "StoreLocal", counter)

\* A range loop.  The body of a for has two scopes: the counter's, its own.
\* continueTarget is 0, code offset 0, until the body has been emitted.
BeginFor(name) ==
  LET counter == NextSlot(slots)
      inner   == AllocateLocal(PushScope(slots), name, "int")
      start   == Emit(Literal(ctx, "int"), "StoreLocal", counter)
      c       == EmitCounterTest(Literal(Emit(start, "LoadLocal", counter), "int"))
  IN  /\ "for" \in Stmts
      /\ "shadow" \in Gaps \/ Resolve(name) = NoSlot
      /\ Statement(c)
      /\ Enter(inner, Declare(Append(declared, NoDecls), name, counter),
               [Block("for") EXCEPT !.jump = Len(c.code), !.back = Here(start),
                                    !.counter = counter])
      /\ loops' = Append(loops, Loop("for", 1, Len(inner.scopes)))

EndFor ==
  LET outer == PopScope(slots)
      c     == CloseLoop(EmitCounterStep(Closed, Last(todo).counter))
  IN  /\ Leave("for", EmitScopeDrops(c, PopScope(outer), Last(outer.scopes)), FALSE)
      /\ slots' = PopScope(outer)
      /\ Reveal(2)
      /\ loops' = Front(loops)

\* A loop over a table's rows, or over a column of integers.  Three scopes: the
\* counter's and the count's, the binding's, the body's own.
BeginRows(name, column) ==
  LET counter == NextSlot(slots)
      count   == counter + 1
      loop    == AllocateLocal(AllocateLocal(PushScope(slots), Unnamed, "int"),
                               Unnamed, "int")
      bound   == count + 1
      inner   == AllocateLocal(PushScope(loop), name, IF column THEN "int" ELSE "row")
      zero    == Emit(Literal(ctx, "int"), "StoreLocal", counter)
      start   == Emit(Emit(zero, "TableCount", 0), "StoreLocal", count)
      test    == EmitCounterTest(Emit(Emit(start, "LoadLocal", counter), "LoadLocal", count))
      row     == Emit(Emit(test, "LoadLocal", counter), "LoadRow", 0)
      value   == IF column THEN Emit(row, "LoadField", 0) ELSE row
  IN  /\ (IF column THEN "column" ELSE "rows") \in Stmts
      /\ "shadow" \in Gaps \/ Resolve(name) = NoSlot
      /\ Statement(Emit(value, "StoreLocal", bound))
      /\ Enter(inner, Declare(Append(declared, NoDecls), name, bound),
               [Block("rows") EXCEPT !.jump = Len(test.code), !.back = Here(start),
                                     !.counter = counter])
      /\ loops' = Append(loops, Loop("rows", 1, Len(loop.scopes)))

\* The binding's scope is popped and not dropped.
EndRows ==
  LET outer == PopScope(PopScope(slots))
      c     == CloseLoop(EmitCounterStep(Closed, Last(todo).counter))
  IN  /\ Leave("rows", EmitScopeDrops(c, PopScope(outer), Last(outer.scopes)), FALSE)
      /\ slots' = PopScope(outer)
      /\ Reveal(2)
      /\ loops' = Front(loops)

\* A switch on an integer.  The subject is discarded where no case matches, and
\* again at the start of each case: with a case, the depth falls below zero.
BeginSwitch(cases) ==
  LET subject == Literal(ctx, "int")
      test    == Emit(Emit(Literal(Emit(subject, "Dup", 0), "int"), "Compare", 0),
                      "JumpIfTrue", 0)
      none    == Emit(Emit(IF cases = 0 THEN subject ELSE test, "Pop", 0), "Jump", 0)
      body    == Emit(PatchAllToHere(none, {Len(test.code)}), "Pop", 0)
      default == PatchAllToHere(none, {Len(none.code)})
  IN  /\ "switch" \in Stmts
      /\ cases > 0 => "switch_case" \in Gaps
      /\ Statement(IF cases = 0 THEN default ELSE body)
      /\ Enter(slots, declared, Block("default"))
      /\ UNCHANGED loops

EndDefault ==
  /\ Leave("default", Closed, Last(todo).transfers)
  /\ slots' = PopScope(slots)
  /\ Reveal(1)
  /\ UNCHANGED loops

(* The end of the function: Compiler::compile and finalizeProto.  Sema has   *)
(* checked that a function that returns a value returns on every path.       *)
EndBody ==
  LET outer == PopScope(slots)
      c     == IF Last(todo).transfers THEN Closed
               ELSE Emit(EmitReturnDrops(Closed, outer), "ReturnVoid", 0)
  IN  /\ phase = "emit" /\ todo # <<>> /\ Last(todo).k = "body"
      /\ returns # "void" => Last(todo).transfers
      /\ ctx' = c
      /\ phase' = IF c.ok /\ c.depth = 0 /\ c.owned = <<>> THEN "run" ELSE "abort"
      /\ todo' = <<>>
      /\ slots' = outer
      /\ Reveal(1)
      /\ UNCHANGED <<returns, loops, stmts>>

Next ==
  \/ \E name \in Names, type \in LocalTypes :
       \E e \in Expressions("let", type) : VarDecl(name, type, e)
  \/ \E name \in Names :
       Resolve(name) # NoSlot /\
         \E e \in Expressions("assign", slots.types[Resolve(name)]) : Assign(name, e)
  \/ \E type \in {"void", "bool", "string"} :
       \E e \in Expressions("expr", type) : ExprStmt(type, e)
  \/ \E e \in Expressions("return", "string") : ReturnValue(e)
  \/ ReturnVoid
  \/ \E l \in DOMAIN loops : Break(l) \/ Continue(l)
  \/ BeginBlock \/ EndBlock
  \/ \E e \in Expressions("test", "bool") : BeginIf(e) \/ BeginWhile(e)
  \/ EndThen \/ BeginElse \/ EndElse \/ EndWhile
  \/ \E name \in Names : BeginFor(name)
  \/ EndFor
  \/ \E name \in Names, column \in BOOLEAN : BeginRows(name, column)
  \/ EndRows
  \/ \E cases \in 0..1 : BeginSwitch(cases)
  \/ EndDefault
  \/ EndBody

----------------------------------------------------------------------------
TypeOK ==
  /\ phase \in {"emit", "abort", "run", "done"}
  /\ returns \in {"void", "string"}
  /\ DOMAIN ctx.code = DOMAIN ctx.at /\ ctx.depth \in Int /\ ctx.max \in Nat
  /\ \A n \in Names : slots.of[n] \in {NoSlot} \cup DOMAIN slots.types
  /\ \A i \in DOMAIN slots.types : slots.types[i] \in Types
  /\ stmts \in 0..MaxStmts
============================================================================
