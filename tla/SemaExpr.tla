------------------------------ MODULE SemaExpr ------------------------------
(****************************************************************************)
(* The types of expressions.  A resolver takes an expression and a checker  *)
(* state and gives a result r: the type ty, whether the node is an lvalue,  *)
(* and the checker state with what was reported.  target is None where the  *)
(* context asks for no type.  An expression is resolved once, so the cached *)
(* type of a node is left out, and so are nodes with a syntax error: a file *)
(* with one is not checked.                                                 *)
(****************************************************************************)
EXTENDS SemaTypes

R(ty, lv, c) == [ty |-> ty, lv |-> lv, c |-> c]
Rvalue(ty, c) == R(ty, FALSE, c)
Fail(c, code) == Rvalue(Unknown, Err(c, code))
Failed(c) == Rvalue(Unknown, c)
Bad(r) == Missing(r.ty)

RECURSIVE Resolve(_, _, _)      \* resolveExprWithTarget; target None: resolveExpr

resolveLiteralExpr(e, target, c) ==
    LET Infers(Accepts(_), default) ==
            IF target # None /\ Accepts(unwrapNullable(target)) THEN target ELSE default
    IN  CASE e.lk = "bool" -> Rvalue(Bool, c)
          [] e.lk = "int" -> Rvalue(Infers(isInteger, Int32), c)
          [] e.lk = "float" -> Rvalue(Infers(isFloat, Float32), c)
          [] e.lk = "str" -> Rvalue(String, c)
          [] e.lk = "char" -> Rvalue(Char, c)
          [] e.lk = "nil" -> IF isNullable(target) \/ isRowRef(target) THEN Rvalue(target, c)
                             ELSE Fail(c, "Type_Mismatch")

functionTypeOf(fn, c) ==
    Fun([i \in DOMAIN fn.ps |-> TypeOf(fn.ps[i], c)],
        IF TypeOf(fn, c) = None THEN Unit ELSE TypeOf(fn, c))

(* The type of what a name was found to be, and the checker after.  *)
MemberType(lv, c) ==
    CASE lv.kind = "fn" -> T(functionTypeOf(lv.d, c), c)
      [] lv.kind = "table" -> T(Named(lv.d.n), Canonical(lv.d, c))
      [] OTHER -> T(TypeOf(lv.d, c), c)

resolveIdentifierExpr(e, c) ==
    LET lv == lookupValue(e.n, c)
        t == MemberType(lv, c)
        narrowed == getNarrowedType(e.n, c)
    IN  IF e.n = "_" THEN Failed(c)
        ELSE IF lv = NotFound THEN Fail(c, "Name_UndefinedValue")
        ELSE IF Missing(t.ty) THEN Failed(t.c)
        ELSE R(IF narrowed = None THEN t.ty ELSE narrowed,
               lv.kind \in {"var", "param"} /\ ~lv.d.const, t.c)

(* Each of es in turn, the first to fail ends the walk; Target(i, tys) is   *)
(* the type asked of element i when those before it have the types tys.     *)
ResolveAll(es, Target(_, _), c) ==
    LET Step(acc, i) == IF acc.bad THEN acc
                        ELSE LET r == Resolve(es[i], Target(i, acc.tys), acc.c)
                             IN  [bad |-> Bad(r), tys |-> Append(acc.tys, r.ty), c |-> r.c]
    IN  FoldLeft(Step, [bad |-> FALSE, tys |-> << >>, c |-> c], [i \in DOMAIN es |-> i])

resolveArrayLiteralExpr(e, target, c) ==
    LET inner == unwrapNullable(target)
        wants == target # None /\ isArray(inner)
        Whole(elem) == IF wants /\ isNullable(target) THEN target
                       ELSE IF wants THEN Arr(inner.kind, inner.size, elem)
                       ELSE Arr("dynamic", 0, elem)
        Target(i, tys) == IF i > 1 THEN tys[1] ELSE IF wants THEN inner.t ELSE None
        all == ResolveAll(e.els, Target, c)
    IN  IF e.els = << >>
        THEN IF wants THEN Rvalue(Whole(inner.t), c) ELSE Fail(c, "Type_Mismatch")
        ELSE IF all.bad THEN Failed(all.c)
        ELSE IF \E i \in DOMAIN all.tys : ~typesEqual(all.tys[1], all.tys[i])
        THEN Fail(all.c, "Type_Mismatch")
        ELSE IF wants /\ inner.kind = "fixed" /\ inner.size # Len(e.els)
        THEN Fail(all.c, "Type_Mismatch")
        ELSE Rvalue(Whole(all.tys[1]), all.c)

----------------------------------------------------------------------------
(* Field access *)

resolveModuleMemberAccess(m, name, c) ==
    LET found == lookupModuleMember(m, name, c)
        t == IF found.kind = "fn" THEN T(None, c) ELSE MemberType(found, c)
    IN  IF found = NotFound THEN Fail(c, "Name_UndefinedMember")
        ELSE IF ~Flag(found.d, "export", c) THEN Fail(c, "Name_PrivateMember")
        ELSE IF Missing(t.ty) THEN Fail(t.c, "Name_UndefinedMember")
        ELSE R(t.ty, found.kind = "var" /\ ~found.d.const, t.c)

ColumnsNamed(t, name) == {i \in DOMAIN t.cols : t.cols[i].n = name}
FirstColumn(t, name) == t.cols[CHOOSE i \in ColumnsNamed(t, name) :
                                   \A j \in ColumnsNamed(t, name) : i <= j]
IsReadonlyTable(t, c) == Flag(t, "readonly", c)

resolveCellAccess(obj, name, c) ==
    LET t == TableOf(obj.ty.t, c)
        col == FirstColumn(t, name)
    IN  IF ~NamesTable(obj.ty.t, c) \/ t.host THEN Fail(c, "Name_FieldNotFound")
        ELSE IF ColumnsNamed(t, name) = {} THEN Fail(c, "Name_ColumnNotFound")
        ELSE R(TypeOf(col, c),
               obj.lv /\ ~Flag(col, "readonly", c) /\ ~IsReadonlyTable(t, c), c)

(* The built-in methods: their receivers, and their types on a table t and  *)
(* on an array of elements el.                                              *)
GrowingMethods == {"ADD", "REMOVE", "CLEAR", "SHRINK"}
TableMethods == GrowingMethods \union {"COUNT", "AT", "VERSION", "FIND"}
DynamicMethods == {"ADD", "REMOVE", "CLEAR", "COUNT", "CONTAINS", "SORT"}
FixedMethods == {"COUNT", "CONTAINS", "SORT"}

TableMethodType(m, t, c) ==
    LET row == RowRef(Named(t.n)) IN
    CASE m \in {"CLEAR", "SHRINK"} -> Fun(<< >>, Unit)
      [] m = "COUNT" -> Fun(<< >>, Uint32)
      [] m = "VERSION" -> Fun(<< >>, Uint64)
      [] m = "REMOVE" -> Fun(<<Uint32>>, Unit)
      [] m = "AT" -> Fun(<<Uint32>>, row)
      [] m = "FIND" -> Fun(<<Fun(<<row>>, Bool)>>, Named(t.n))
      [] m = "ADD" -> Fun([i \in DOMAIN t.cols |-> TypeOf(t.cols[i], c)], row)

ArrayMethodType(m, el) ==
    CASE m = "CLEAR" -> Fun(<< >>, Unit)
      [] m = "COUNT" -> Fun(<< >>, Uint32)
      [] m = "REMOVE" -> Fun(<<Uint32>>, Unit)
      [] m = "CONTAINS" -> Fun(<<el>>, Bool)
      [] m = "SORT" -> Fun(<<Fun(<<el, el>>, Bool)>>, Unit)

(* No type when the name is no method of a table, or the table may not grow.*)
tryResolveTableMethod(m, t, c) ==
    IF m \notin TableMethods THEN T(None, c)
    ELSE IF m \in GrowingMethods /\ hasFixedRowSet(t, c) THEN T(None, Err(c, "Table_AddOnFixed"))
    ELSE T(TableMethodType(m, t, c), Canonical(t, c))

(* by, and the name of the column with its first letter in upper case.  *)
toupper(ch) ==
    LET lower == "abcdefghijklmnopqrstuvwxyz"
        upper == "ABCDEFGHIJKLMNOPQRSTUVWXYZ"
        at == {i \in 1 .. Len(lower) : SubSeq(lower, i, i) = ch}
    IN  IF at = {} THEN ch ELSE LET i == CHOOSE i \in at : TRUE IN SubSeq(upper, i, i)
byColumnName(n) == "by" \o toupper(SubSeq(n, 1, 1)) \o SubSeq(n, 2, Len(n))

(* by<Column> of the primary column.  *)
tryResolveByColumnLookup(m, t, c) ==
    LET primary == {i \in DOMAIN t.cols : Flag(t.cols[i], "primary", c)}
        key == t.cols[CHOOSE i \in primary : \A j \in primary : i <= j]
    IN  IF primary = {} \/ m # byColumnName(key.n) THEN T(None, c)
        ELSE T(Fun(<<TypeOf(key, c)>>, RowRef(Named(t.n))), Canonical(t, c))

(* A column, a row named by its first cell, a method, or a key lookup.  *)
resolveTableMemberAccess(ty, name, c) ==
    LET t == TableOf(ty, c)
        method == tryResolveTableMethod(name, t, c)
        byKey == tryResolveByColumnLookup(name, t, method.c)
    IN  IF t.host THEN Fail(c, "Name_FieldNotFound")
        ELSE IF ColumnsNamed(t, name) # {} THEN Rvalue(TypeOf(FirstColumn(t, name), c), c)
        ELSE IF RowIndex(t, name, c) > 0 THEN Rvalue(RowRef(Named(t.n)), Canonical(t, c))
        ELSE IF method.ty # None THEN Rvalue(method.ty, method.c)
        ELSE IF byKey.ty # None THEN Rvalue(byKey.ty, byKey.c)
        ELSE Fail(byKey.c, "Name_FieldNotFound")

(* ADD on a dynamic array runs into the assertion on its argument shape.  *)
resolveArrayMethodAccess(ty, name, c) ==
    IF name \notin IF ty.kind = "fixed" THEN FixedMethods ELSE DynamicMethods
    THEN Fail(c, "Name_MethodNotFound")
    ELSE IF name = "ADD" THEN Failed(Abort(c))
    ELSE Rvalue(ArrayMethodType(name, ty.t), c)

resolveFieldAccessExpr(e, c) ==
    LET m == IF e.obj.k = "id" THEN lookupImport(e.obj.n, c) ELSE ""
        obj == Resolve(e.obj, None, c)
    IN  IF m # "" THEN resolveModuleMemberAccess(m, e.f, c)
        ELSE IF Bad(obj) THEN Failed(obj.c)
        ELSE IF isNullable(obj.ty) THEN Fail(obj.c, "Type_Mismatch")
        ELSE IF isRowRef(obj.ty) THEN resolveCellAccess(obj, e.f, obj.c)
        ELSE IF isTableType(obj.ty, obj.c) THEN resolveTableMemberAccess(obj.ty, e.f, obj.c)
        ELSE IF isArray(obj.ty) THEN resolveArrayMethodAccess(obj.ty, e.f, obj.c)
        ELSE Fail(obj.c, "Name_FieldNotFound")

resolveIndexExpr(e, c) ==
    LET obj == Resolve(e.obj, None, c)
        onTable == isTableType(obj.ty, obj.c)
        at == Resolve(e.at, IF onTable THEN Uint32 ELSE Int32, obj.c)
    IN  IF Bad(obj) THEN Failed(obj.c)
        ELSE IF ~onTable /\ ~isArray(obj.ty) THEN Fail(obj.c, "Type_Mismatch")
        ELSE IF Bad(at) THEN Failed(at.c)
        ELSE IF onTable THEN Rvalue(RowRef(obj.ty), at.c)
        ELSE R(obj.ty.t, obj.lv, at.c)

----------------------------------------------------------------------------
(* Calls *)

(* The declaration a callee was resolved to, NotFound when it is a value.  *)
CalleeDecl(e, c) ==
    LET m == IF e.k = "field" /\ e.obj.k = "id" THEN lookupImport(e.obj.n, c) ELSE ""
    IN  IF e.k = "id" THEN lookupValue(e.n, c)
        ELSE IF m # "" THEN lookupModuleMember(m, e.f, c) ELSE NotFound

IsSequence(d, c) == Flag(d, "sequence", c)

resolveCallExpr(e, c) ==
    LET f == Resolve(e.f, None, c)
        decl == CalleeDecl(e.f, f.c)
        variadic == decl.kind = "fn" /\ decl.d.ps # << >> /\ Last(decl.d.ps).variadic
        n == Len(f.ty.ps)
        Target(i, tys) == IF variadic /\ i >= n THEN f.ty.ps[n].t ELSE f.ty.ps[i]
        all == ResolveAll(e.args, Target, f.c)
    IN  IF Bad(f) THEN Failed(f.c)
        ELSE IF ~isFun(f.ty) THEN Fail(f.c, "Name_NotCallable")
        ELSE IF decl.kind = "fn" /\ IsSequence(decl.d, c)
        THEN Fail(f.c, "Seq_SequenceCalledDirectly")
        ELSE IF IF variadic THEN Len(e.args) < n - 1 ELSE Len(e.args) # n
        THEN Fail(f.c, "Type_ArgCountMismatch")
        ELSE IF all.bad THEN Failed(all.c)
        ELSE Rvalue(f.ty.ret, all.c)

(* A lambda's parameters take the target's types, or their own, and are     *)
(* visible in its body only.                                                *)
resolveLambdaExpr(e, target, c) ==
    LET noted == [c EXCEPT !.lambdas[c.cur] = @ + 1]
        given == isFun(target)
        Enter(acc, i) ==
            LET own == resolveType(e.ps[i].ty, acc)
                ty == IF given THEN target.ps[i] ELSE IF Missing(own.ty) THEN Unknown ELSE own.ty
                d == [e.ps[i] EXCEPT !.ty = ty]
            IN  insertLocal(d, SetType(d, ty, IF given THEN acc ELSE own.c))
        entered == FoldLeft(Enter, pushScope(noted), [i \in DOMAIN e.ps |-> i])
        body == Resolve(e.body, IF given THEN target.ret ELSE None, entered)
    IN  IF given /\ Len(target.ps) # Len(e.ps) THEN Fail(noted, "Type_Mismatch")
        ELSE IF Bad(body) THEN Failed(popScope(body.c))
        ELSE Rvalue(Fun([i \in DOMAIN e.ps |-> TypeOf(e.ps[i], body.c)], body.ty), popScope(body.c))

(* start looks its function up before the call is resolved, by name or not  *)
(* at all, and then resolves a call that refuses a @sequence function.      *)
resolveStartExpr(e, c) ==
    LET fn == IF e.call.f.k = "id" THEN lookupFunction(e.call.f.n, c) ELSE NotFound
        call == Resolve(e.call, None, c)
        coroutine == lookupType("Coroutine", call.c)
    IN  IF fn = NotFound \/ ~IsSequence(fn.d, c) THEN Fail(c, "Seq_NonSequenceStarted")
        ELSE IF coroutine = NotFound THEN Fail(call.c, "Seq_SequenceAsFunctionValue")
        ELSE Rvalue(RowRef(Named("Coroutine")), Canonical(coroutine.d, call.c))

----------------------------------------------------------------------------
(* Operators *)

UnaryAccepts(op, t) == CASE op = "-" -> isNumeric(t)
                         [] op = "not" -> isBool(t)
                         [] op = "~" -> isInteger(t)

resolveUnaryExpr(e, c) ==
    LET x == Resolve(e.x, None, c)
    IN  IF Bad(x) THEN Failed(x.c)
        ELSE IF UnaryAccepts(e.op, x.ty) THEN Rvalue(x.ty, x.c)
        ELSE Fail(x.c, "Type_InvalidUnary")

isOrderable(t) == isNumeric(t) \/ t \in {String, Char}

BinaryAccepts(op, l, r) ==
    CASE op = "+" /\ l = String /\ r = String -> TRUE
      [] op \in ArithmeticOps -> isNumeric(l) /\ isNumeric(r) /\ typesEqual(l, r)
      [] op \in OrderingOps -> isOrderable(l) /\ typesEqual(l, r)
      [] op \in {"==", "!="} -> typesEqual(l, r)
      [] op \in LogicalOps -> isBool(l) /\ isBool(r)
      [] op \in BitwiseOps -> isInteger(l) /\ typesEqual(l, r)
      [] op = "??" -> isNullable(l) \/ isRowRef(l)

(* Both operands are resolved without a target: a nil operand is refused    *)
(* before the comparison that would allow it is looked at.                  *)
resolveBinaryExpr(e, c) ==
    LET info == detectNarrowingPattern(e, c)
        noted == IF isIfConditionCtx(c) /\ info.has THEN setPendingNarrowing(info, c) ELSE c
        l == Resolve(e.l, None, noted)
        r == Resolve(e.r, None, l.c)
        fallback == unwrapNullable(l.ty)
    IN  IF Bad(l) THEN Failed(l.c)
        ELSE IF Bad(r) THEN Failed(r.c)
        ELSE IF ~BinaryAccepts(e.op, l.ty, r.ty) THEN Fail(r.c, "Type_InvalidBinary")
        ELSE IF e.op # "??"
        THEN Rvalue(IF e.op \in ArithmeticOps \union BitwiseOps THEN l.ty ELSE Bool, r.c)
        ELSE IF ~isAssignable(fallback, r.ty) THEN Fail(r.c, "Type_Mismatch")
        ELSE Rvalue(fallback, r.c)

(* The step of a range is looked at for zero only when it carries a         *)
(* constValue, which no resolver gives it: the check never reports.         *)
resolveRangeExpr(e, c) ==
    LET lo == Resolve(e.lo, Int32, c)
        hi == Resolve(e.hi, Int32, lo.c)
        step == Resolve(e.step, lo.ty, hi.c)
    IN  IF ~typesEqual(lo.ty, hi.ty) THEN Fail(hi.c, "Type_RangeBoundTypeMismatch")
        ELSE IF e.step = None THEN Rvalue(lo.ty, hi.c)
        ELSE IF Bad(step) THEN Failed(step.c) ELSE Rvalue(lo.ty, step.c)

resolveExpr(e, target, c) ==
    CASE e.k = "lit" -> resolveLiteralExpr(e, target, c)
      [] e.k = "id" -> resolveIdentifierExpr(e, c)
      [] e.k = "array" -> resolveArrayLiteralExpr(e, target, c)
      [] e.k = "field" -> resolveFieldAccessExpr(e, c)
      [] e.k = "index" -> resolveIndexExpr(e, c)
      [] e.k = "call" -> resolveCallExpr(e, c)
      [] e.k = "lambda" -> resolveLambdaExpr(e, target, c)
      [] e.k = "start" -> resolveStartExpr(e, c)
      [] e.k = "unary" -> resolveUnaryExpr(e, c)
      [] e.k = "binary" -> resolveBinaryExpr(e, c)
      [] e.k = "paren" -> Resolve(e.x, target, c)
      [] e.k = "range" -> resolveRangeExpr(e, c)

(* An unknown target asks for nothing; a result must fit its target.  *)
Resolve(e, target, c) ==
    LET wanted == IF target = Unknown THEN None ELSE target
        r == resolveExpr(e, wanted, c)
    IN  IF Bad(r) THEN Failed(r.c)
        ELSE IF wanted # None /\ ~isAssignable(wanted, r.ty) THEN Fail(r.c, "Type_Mismatch")
        ELSE r
=============================================================================
