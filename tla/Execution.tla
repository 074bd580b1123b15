----------------------------- MODULE Execution -----------------------------
(***************************************************************************)
(* The emitted code run in an interp Frame: locals, an operand stack, and  *)
(* the objects of the runtime library that its values refer to.  A Value   *)
(* is trivially copyable: moving one between locals and stack copies the   *)
(* reference and not the object.                                           *)
(*                                                                         *)
(* The Frame and the handler of Ext_RtCall are in the repository; the      *)
(* handlers of the other opcodes are not, and follow Opcode.hpp's comments *)
(* and the emitter's.  A condition takes both values: a bool is the set of *)
(* the values it may have.                                                 *)
(***************************************************************************)
EXTENDS Emitter, FiniteSets

VARIABLES
  pc,        \* index of the next instruction in ctx.code
  stack,     \* the frame's operand stack
  locals,    \* the frame's slots that have been stored to
  heap,      \* the objects that are allocated
  result     \* what the function returned

xvars == <<pc, stack, locals, heap, result>>

----------------------------------------------------------------------------
(* Values: v is an object's id, the elements of a fixed array, or the set   *)
(* of the truth values of a bool.                                           *)

Value(type, v) == [t |-> type, v |-> v]
Objects == {"string", "array", "host"}
Nil == Value("nil", 0)

RefsOf(value) ==
  CASE value.t \in Objects -> {value.v}
    [] value.t = "strs"    -> {value.v[i].v : i \in DOMAIN value.v}
    [] OTHER               -> {}

Referenced == UNION ({RefsOf(stack[i]) : i \in DOMAIN stack} \cup
                     {RefsOf(locals[s]) : s \in DOMAIN locals})

\* An address that is free, and that nothing the frame holds still names.
Fresh == CHOOSE i \in 1..Cardinality(heap \cup Referenced) + 1 :
           i \notin heap \cup Referenced

\* A new value of a type, and the object it brings.
New(type) ==
  CASE type \in Objects -> Value(type, Fresh)
    [] type = "bool"    -> Value("bool", BOOLEAN)
    [] OTHER            -> Value(type, 0)

----------------------------------------------------------------------------
(* The machine *)

ExecutionInit ==
  /\ Init
  /\ pc = 1
  /\ stack = <<>>
  /\ locals = [s \in {1} |-> Value("string", 1)]    \* Frame::setParameter
  /\ heap = {1}
  /\ result = Nil

Running == phase = "run" /\ pc \in DOMAIN ctx.code
Instruction == ctx.code[pc]
Is(ops) == Running /\ Instruction.op \in ops
Arg == Instruction.arg

Top == Last(stack)
Below(n) == SubSeq(stack, 1, Len(stack) - n)

Proceed == pc' = pc + 1
OnlyStack == UNCHANGED <<evars, locals, heap, result>>
Replace(n, values) == stack' = Below(n) \o values /\ Proceed /\ OnlyStack

\* Pops n values, then pushes a new value and allocates its object.
Produce(n, value, freed) ==
  /\ stack' = Append(Below(n), value)
  /\ heap' = (heap \ freed) \cup RefsOf(value)
  /\ Proceed
  /\ UNCHANGED <<evars, locals, result>>

LoadLocal  == Is({"LoadLocal"}) /\ Replace(0, <<locals[Arg]>>)
StoreLocal == /\ Is({"StoreLocal"})
              /\ locals' = [s \in DOMAIN locals \cup {Arg} |-> IF s = Arg THEN Top ELSE locals[s]]
              /\ stack' = Below(1)
              /\ Proceed
              /\ UNCHANGED <<evars, heap, result>>

LoadConst == Is({"LoadConst"}) /\ Produce(0, New(Arg), {})
PopTop    == Is({"Pop"}) /\ Replace(1, <<>>)
Dup       == Is({"Dup"}) /\ Replace(0, <<Top>>)
IsNil     == Is({"IsNil"}) /\ Replace(1, <<Value("bool", {Top.t = "nil"})>>)
Compare   == Is({"Compare"}) /\ Replace(2, <<New("bool")>>)
Add       == Is({"Add"}) /\ Replace(2, <<New("int")>>)
TableRead ==
  \/ Is({"TableCount"}) /\ Replace(0, <<New("int")>>)
  \/ Is({"LoadRow"}) /\ Replace(1, <<New("row")>>)
  \/ Is({"LoadField"}) /\ Replace(1, <<New("int")>>)

NewFixedArray ==
  /\ Is({"NewFixedArray"})
  /\ Replace(Arg, <<Value("strs", SubSeq(stack, Len(stack) - Arg + 1, Len(stack)))>>)
FixedArrayGet == Is({"FixedArrayGet"}) /\ Replace(1, <<Top.v[Arg]>>)

Jump == Is({"Jump"}) /\ pc' = Arg /\ UNCHANGED <<evars, stack, locals, heap, result>>
Branch ==
  /\ Is({"JumpIfFalse", "JumpIfTrue"})
  /\ \E b \in Top.v :
       pc' = IF b = (Instruction.op = "JumpIfTrue") THEN Arg ELSE pc + 1
  /\ stack' = Below(1)
  /\ OnlyStack

\* A call of another function of the program, or of the host: what it is passed
\* is its own to drop, and it returns a new object.  The compiler does not survive
\* a call of a void function (KnownGaps), so there is none to run.
Passed(n) == {Last(Below(i)).v : i \in 0..n - 1}
Call ==
  /\ Is({"Call"})
  /\ \/ Arg.ret = "nullable" /\ Produce(0, Nil, {})
     \/ Arg.ret = "nullable" /\ Produce(0, New("string"), {})
     \/ Arg.ret # "nullable" /\ Produce(Arg.args, New(Arg.ret), Passed(Arg.args))

\* opsRuntime's FreeString, FreeArray and Release: a value of another type is ignored
Free ==
  /\ Is({"FreeString", "FreeArray", "Release"})
  /\ stack' = Below(1)
  /\ heap' = IF DropKind(Top.t) = Instruction.op THEN heap \ {Top.v} ELSE heap
  /\ Proceed
  /\ UNCHANGED <<evars, locals, result>>

Return ==
  /\ Is({"Return", "ReturnVoid"})
  /\ result' = IF Instruction.op = "Return" THEN Top ELSE Nil
  /\ stack' = IF Instruction.op = "Return" THEN Below(1) ELSE stack
  /\ phase' = "done"
  /\ UNCHANGED <<returns, ctx, slots, loops, todo, declared, stmts, pc, locals, heap>>

Step ==
  \/ LoadLocal \/ StoreLocal \/ LoadConst \/ PopTop \/ Dup \/ IsNil \/ Compare \/ Add
  \/ TableRead \/ NewFixedArray \/ FixedArrayGet \/ Jump \/ Branch \/ Call \/ Free
  \/ Return

Returned == phase = "done" /\ UNCHANGED <<evars, xvars>>

ExecutionNext == (Next /\ UNCHANGED xvars) \/ Step \/ Returned

Spec == ExecutionInit /\ [][ExecutionNext]_<<evars, xvars>>

----------------------------------------------------------------------------
ExecutionTypeOK ==
  /\ TypeOK
  /\ pc \in Nat
  /\ \A i \in heap : i \in Nat \ {0}
  /\ DOMAIN locals \subseteq DOMAIN slots.types

(* No assertion of the compiler fails on a body that Sema accepts: the depth *)
(* that emitOpcode and noteStackEffect count, and the ownership stack, never *)
(* go below what is there, and both are empty when finalizeProto looks.      *)
NeverAborts == phase # "abort"

(* While a body is emitted, the allocator's slot of a name is the slot of    *)
(* the declaration that Sema resolves the name to here.                      *)
BindsDeclared ==
  \A n \in Names : Resolve(n) # NoSlot => slots.of[n] = Resolve(n)

(* The operand stack is as high as the emitter believed on every path that   *)
(* reaches an instruction, never above FunctionProto::maxStackDepth, and     *)
(* control stays within the code: Frame checks none of these.                *)
HeightsAgree ==
  phase = "run" => /\ pc \in DOMAIN ctx.code
                   /\ Len(stack) = ctx.at[pc]
                   /\ Len(stack) <= ctx.max

(* No slot is read that was not stored on the way there: Frame's locals      *)
(* start Uninitialized.                                                      *)
SlotsInitialised == Is({"LoadLocal"}) => Arg \in DOMAIN locals

(* What a drop releases is an object that is still allocated.                *)
FreesOnce ==
  Is({"FreeString", "FreeArray", "Release"}) /\ stack # <<>> /\ DropKind(Top.t) = Instruction.op
    => Top.v \in heap

(* A function returns with every object it made or was passed released,      *)
(* whatever path it took, except the one that it returns.                    *)
NoLeak == phase = "done" => heap \subseteq RefsOf(result)

(* The string a function returns is still allocated.                         *)
ResultLive == phase = "done" => RefsOf(result) \subseteq heap

(* A name's slot is its declaration's while a body is emitted, and holds a   *)
(* value whenever the body reads it.                                        *)
SlotsSound == ExecutionTypeOK /\ BindsDeclared /\ SlotsInitialised
============================================================================
