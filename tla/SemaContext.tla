---------------------------- MODULE SemaContext ----------------------------
(****************************************************************************)
(* What the checker remembers while it walks the modules of a program: the  *)
(* symbol table of each module, the lexical scopes, the context stack, the  *)
(* narrowing levels, and the cache of canonical types.  Operators from a    *)
(* checker state to the next; a checker state c is a record                 *)
(*   cur     the module being checked, all its tables in tabs               *)
(*   tabs    module |-> [vars, fns, tables, alias], each name |-> decl      *)
(*   scopes  the open scopes, name |-> decl        frames  the contexts     *)
(*   narrow  the narrowing levels, name |-> type                            *)
(*   dty     decl id |-> the type a resolver has stored on the declaration  *)
(*   consts  decl id |-> constValue of an initializer that is isConst       *)
(*   flags   the <<decl id, attribute>> pairs the validator has set         *)
(*   named   table name |-> the declaration its canonical type points to    *)
(*   lambdas module |-> lambdas pending, final the ones finalized           *)
(*   errs, codes, warns  the diagnostics   aborted  an assertion has fired  *)
(*                                                                          *)
(* A declaration is a record with a unique field id.  Node locations and    *)
(* message texts are left out.                                              *)
(****************************************************************************)
EXTENDS Integers, Sequences, FiniteSets, Functions, SequencesExt

CONSTANT MaxErrs      \* errorCount() at which canContinue() is false

ASSUME MaxErrsAssumption == MaxErrs \in Nat \ {0}

None == [k |-> "none"]          \* a null TypeAST*
Unknown == [k |-> "unknown"]
Prim(p) == [k |-> "prim", p |-> p]
Named(n) == [k |-> "named", q |-> "", n |-> n]
Nullable(t) == [k |-> "nullable", t |-> t]
RowRef(t) == [k |-> "rowref", t |-> t]
Arr(kind, size, t) == [k |-> "array", kind |-> kind, size |-> size, t |-> t]
Fun(ps, ret) == [k |-> "fun", ps |-> ps, ret |-> ret]

Bool == Prim("bool")
Int32 == Prim("int32")
Uint32 == Prim("uint32")
Uint64 == Prim("uint64")
Float32 == Prim("float32")
String == Prim("string")
Char == Prim("char")
Unit == Prim("void")

IntegerKinds == {"int8", "int16", "int32", "int64", "uint8", "uint16", "uint32", "uint64"}
FloatKinds == {"float32", "float64"}

isBool(t) == t = Bool
isInteger(t) == t.k = "prim" /\ t.p \in IntegerKinds
isFloat(t) == t.k = "prim" /\ t.p \in FloatKinds
isNumeric(t) == isInteger(t) \/ isFloat(t)
isNullable(t) == t.k = "nullable"
isRowRef(t) == t.k = "rowref"
isArray(t) == t.k = "array"
isFun(t) == t.k = "fun"
Missing(t) == t.k \in {"none", "unknown"}
unwrapNullable(t) == IF isNullable(t) THEN t.t ELSE t

EmptyMap == [n \in {} |-> None]
With(f, n, v) == [m \in DOMAIN f \union {n} |-> IF m = n THEN v ELSE f[m]]

----------------------------------------------------------------------------
(* Diagnostics and the symbol tables *)

Err(c, code) == [c EXCEPT !.errs = @ + 1, !.codes = @ \union {code}]
Warn(c, code) == [c EXCEPT !.warns = @ \union {code}]
Abort(c) == [c EXCEPT !.aborted = TRUE]
CanContinue(c) == c.errs < MaxErrs /\ ~c.aborted

NoSymbols == [vars |-> EmptyMap, fns |-> EmptyMap, tables |-> EmptyMap, alias |-> EmptyMap]

NewContext(modules) ==
    [cur |-> "", tabs |-> [m \in modules |-> NoSymbols], byPath |-> EmptyMap,
     scopes |-> << >>, frames |-> << >>, narrow |-> << >>,
     dty |-> EmptyMap, consts |-> EmptyMap, flags |-> {}, named |-> EmptyMap,
     lambdas |-> [m \in modules |-> 0], final |-> [m \in modules |-> 0],
     errs |-> 0, codes |-> {}, warns |-> {}, aborted |-> FALSE]

enterModule(m, c) == [c EXCEPT !.cur = m, !.lambdas = [x \in DOMAIN @ |-> 0]]

Symbols(c) == c.tabs[c.cur]
isModuleMember(n, c) == \/ n \in DOMAIN Symbols(c).vars
                        \/ n \in DOMAIN Symbols(c).fns
                        \/ n \in DOMAIN Symbols(c).tables

(* insertTable, insertFunction, insertVariable: one name space per module.  *)
Insert(field, d, c) ==
    IF c.scopes # << >> THEN Abort(c)
    ELSE IF isModuleMember(d.n, c) THEN Err(c, "Name_Redeclaration")
    ELSE [c EXCEPT !.tabs[c.cur][field] = With(@, d.n, d)]
insertTable(d, c) == Insert("tables", d, c)
insertFunction(d, c) == Insert("fns", d, c)
insertVariable(d, c) == Insert("vars", d, c)

addImportAlias(alias, module, c) ==
    IF alias \in DOMAIN Symbols(c).alias THEN Err(c, "Name_ImportAliasRedeclaration")
    ELSE [c EXCEPT !.tabs[c.cur].alias = With(@, alias, [id |-> module])]

(* A local or parameter asserts that a scope is open.  *)
insertLocal(d, c) ==
    IF c.scopes = << >> THEN Abort(c)
    ELSE IF d.n \in DOMAIN Last(c.scopes) THEN Err(c, "Name_Redeclaration")
    ELSE [c EXCEPT !.scopes[Len(c.scopes)] = With(@, d.n, d)]

pushScope(c) == [c EXCEPT !.scopes = Append(@, EmptyMap)]
popScope(c) == [c EXCEPT !.scopes = IF @ = << >> THEN @ ELSE Front(@)]

NotFound == [kind |-> "none", d |-> [id |-> ""]]

(* lookupValue: the scopes from the innermost out, then the module's        *)
(* variables, functions and tables.                                         *)
lookupValue(n, c) ==
    LET open == {i \in DOMAIN c.scopes : n \in DOMAIN c.scopes[i]}
        depth == IF open = {} THEN 0 ELSE CHOOSE i \in open : \A j \in open : j <= i
        s == Symbols(c)
    IN  IF depth > 0
        THEN LET d == c.scopes[depth][n] IN [kind |-> d.k, d |-> d]
        ELSE IF n \in DOMAIN s.vars THEN [kind |-> "var", d |-> s.vars[n]]
        ELSE IF n \in DOMAIN s.fns THEN [kind |-> "fn", d |-> s.fns[n]]
        ELSE IF n \in DOMAIN s.tables THEN [kind |-> "table", d |-> s.tables[n]]
        ELSE NotFound

lookupFunction(n, c) == IF n \in DOMAIN Symbols(c).fns
                        THEN [kind |-> "fn", d |-> Symbols(c).fns[n]] ELSE NotFound
lookupType(n, c) == IF n \in DOMAIN Symbols(c).tables
                    THEN [kind |-> "table", d |-> Symbols(c).tables[n]] ELSE NotFound
lookupImport(n, c) == IF n \in DOMAIN Symbols(c).alias THEN Symbols(c).alias[n].id ELSE ""

(* lookupModuleValueMember, then lookupModuleTableMember *)
lookupModuleMember(m, n, c) ==
    LET s == c.tabs[m]
    IN  IF n \in DOMAIN s.vars THEN [kind |-> "var", d |-> s.vars[n]]
        ELSE IF n \in DOMAIN s.fns THEN [kind |-> "fn", d |-> s.fns[n]]
        ELSE IF n \in DOMAIN s.tables THEN [kind |-> "table", d |-> s.tables[n]]
        ELSE NotFound

Flag(d, a, c) == <<d.id, a>> \in c.flags
hasFixedRowSet(d, c) == Flag(d, "fixed", c) \/ Flag(d, "readonly", c)
TypeOf(d, c) == IF d.id \in DOMAIN c.dty THEN c.dty[d.id] ELSE d.ty
SetType(d, t, c) == [c EXCEPT !.dty = With(@, d.id, t)]

----------------------------------------------------------------------------
(* The context stack.  A frame's pending narrowing is what the condition of *)
(* an if found; its inverse narrowing is what an if that always leaves      *)
(* hands to the statements after it.                                        *)

NoNarrowing == [has |-> FALSE, eq |-> FALSE, m |-> EmptyMap]
Narrowing(eq, m) == [has |-> m # EmptyMap, eq |-> eq, m |-> m]

Frame(kind, ret) == [k |-> kind, ret |-> ret, cond |-> FALSE,
                     pend |-> NoNarrowing, inv |-> NoNarrowing]
push(kind, c) == [c EXCEPT !.frames = Append(@, Frame(kind, None))]
pushFunction(kind, ret, c) == [c EXCEPT !.frames = Append(@, Frame(kind, ret))]
pop(c) == [c EXCEPT !.frames = IF @ = << >> THEN @ ELSE Front(@)]

isInside(kind, c) == \E i \in DOMAIN c.frames : c.frames[i].k = kind
insideSequence(c) == isInside("SequenceBody", c)
insideFunction(c) == isInside("FuncBody", c) \/ insideSequence(c)
insideLoop(c) == isInside("LoopBody", c)
insideSwitch(c) == isInside("SwitchBody", c)

(* findInnermostIfContext, findInnermostBlock: 0 when there is none.  *)
Innermost(kinds, c) ==
    LET at == {i \in DOMAIN c.frames : c.frames[i].k \in kinds}
    IN  IF at = {} THEN 0 ELSE CHOOSE i \in at : \A j \in at : j <= i

currentReturnType(c) == LET i == Innermost({"FuncBody", "SequenceBody"}, c)
                        IN  IF i = 0 THEN None ELSE c.frames[i].ret
isIfConditionCtx(c) == LET i == Innermost({"IfStmt"}, c) IN i > 0 /\ c.frames[i].cond
InIf(field, v, c) == LET i == Innermost({"IfStmt"}, c)
                     IN  IF i = 0 THEN c ELSE [c EXCEPT !.frames[i][field] = v]
setIfConditionCtx(b, c) == InIf("cond", b, c)
setPendingNarrowing(info, c) == InIf("pend", info, c)
getPendingNarrowing(c) == LET i == Innermost({"IfStmt"}, c)
                          IN  IF i = 0 THEN NoNarrowing ELSE c.frames[i].pend

setPendingInverse(info, c) == LET i == Innermost({"Block"}, c)
                              IN  IF i = 0 THEN c ELSE [c EXCEPT !.frames[i].inv = info]
getPendingInverse(c) == LET i == Innermost({"Block"}, c)
                        IN  IF i = 0 THEN NoNarrowing ELSE c.frames[i].inv

pushNarrowing(m, c) == [c EXCEPT !.narrow = Append(@, m)]
popNarrowing(c) == [c EXCEPT !.narrow = IF @ = << >> THEN @ ELSE Front(@)]
getNarrowedType(n, c) ==
    LET at == {i \in DOMAIN c.narrow : n \in DOMAIN c.narrow[i]}
    IN  IF at = {} THEN None ELSE c.narrow[CHOOSE i \in at : \A j \in at : j <= i][n]

ScopedIfCondition(c) == setPendingNarrowing(NoNarrowing, setIfConditionCtx(TRUE, c))
=============================================================================
