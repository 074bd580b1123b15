------------------------------ MODULE ConstEval ------------------------------
(****************************************************************************)
(* The constant evaluator.  A constant is a record with a kind k and, but   *)
(* for "unknown", "error" and "nil", a value v.  Integers have Width bits;  *)
(* floating-point constants are left out.                                   *)
(*                                                                          *)
(* Evaluation reads the annotations a resolver has left on the nodes, which *)
(* a node that was never resolved does not have: the flag seen says that    *)
(* the expression has been resolved.                                        *)
(****************************************************************************)
EXTENDS SemaContext, Bitwise

CONSTANT Width        \* bits of an int64_t

ASSUME WidthAssumption == Width \in Nat \ {0}

MaxInt == 2^(Width - 1) - 1
MinInt == -(2^(Width - 1))
Fits(i) == i \in MinInt .. MaxInt

NotConst == [k |-> "unknown"]
ConstError == [k |-> "error"]
NilConst == [k |-> "nil"]
BoolConst(b) == [k |-> "bool", v |-> b]
IntConst(i) == [k |-> "int", v |-> i]
isEvaluated(x) == x.k \notin {"unknown", "error"}
Ints(a, b) == a.k = "int" /\ b.k = "int"

Unsigned(i) == i % 2^Width
Signed(u) == IF u > MaxInt THEN u - 2^Width ELSE u

(* Division and remainder of C++: towards zero, with the dividend's sign.   *)
Magnitude(i) == IF i < 0 THEN -i ELSE i
Quotient(a, b) == LET q == Magnitude(a) \div Magnitude(b)
                  IN  IF (a < 0) = (b < 0) THEN q ELSE -q
Remainder(a, b) == a - b * Quotient(a, b)

(* A result r of the evaluator: its constant and the diagnostic it reports. *)
Folded(x) == [x |-> x, code |-> ""]
FoldError(code) == [x |-> ConstError, code |-> code]
Exact(i, code) == IF Fits(i) THEN Folded(IntConst(i)) ELSE FoldError(code)

----------------------------------------------------------------------------
RECURSIVE PowSquaresLast(_, _, _)
PowSquaresLast(result, base, e) ==
    IF e = 0 THEN Folded(IntConst(result))
    ELSE LET r == IF e % 2 = 1 THEN result * base ELSE result
         IN  IF ~Fits(r) \/ ~Fits(base * base) THEN FoldError("Value_IntegerOverflow")
             ELSE PowSquaresLast(r, base * base, e \div 2)

(* The loop of Pow: square the base while exponent bits remain.  *)
RECURSIVE PowLoop(_, _, _)
PowLoop(result, base, e) ==
    IF e = 0 THEN Folded(IntConst(result))
    ELSE LET r == IF e % 2 = 1 THEN result * base ELSE result
             sq == base * base
             rest == e \div 2
         IN  IF ~Fits(r) \/ (rest > 0 /\ ~Fits(sq)) THEN FoldError("Value_IntegerOverflow")
             ELSE PowLoop(r, IF rest > 0 THEN sq ELSE base, rest)

foldArithmetic(op, l, r) ==
    IF op = "+" /\ l.k = "str" /\ r.k = "str" THEN Folded([k |-> "str", v |-> l.v \o r.v])
    ELSE IF ~Ints(l, r) THEN Folded(NotConst)
    ELSE CASE op = "+" -> Exact(l.v + r.v, "Value_IntegerOverflow")
           [] op = "-" -> Exact(l.v - r.v, "Value_IntegerOverflow")
           [] op = "*" -> Exact(l.v * r.v, "Value_IntegerOverflow")
           [] op = "/" -> IF r.v = 0 THEN FoldError("Value_DivisionByZero")
                          ELSE Exact(Quotient(l.v, r.v), "Value_IntegerOverflow")
           [] op = "%" -> IF r.v = 0 THEN FoldError("Value_ModuloByZero")
                          ELSE Folded(IntConst(Remainder(l.v, r.v)))
           [] op = "**" -> IF r.v < 0 THEN Folded(NotConst) ELSE PowLoop(1, l.v, r.v)

(* Values of a kind without an order compare only for equality; strings and *)
(* characters are sequences of code units, ordered as such.                 *)
RECURSIVE Before(_, _)
Before(s, t) == IF s = << >> \/ t = << >> THEN s = << >> /\ t # << >>
                ELSE s[1] < t[1] \/ (s[1] = t[1] /\ Before(Tail(s), Tail(t)))
Less(l, r) == IF l.k = "int" THEN l.v < r.v ELSE Before(l.v, r.v)

foldComparison(op, l, r) ==
    IF l.k # r.k \/ l.k \notin {"nil", "bool", "int", "str", "char"} THEN NotConst
    ELSE CASE op = "==" -> BoolConst(l = r)
           [] op = "!=" -> BoolConst(l # r)
           [] op \in {"<", "<=", ">", ">="} /\ l.k \in {"nil", "bool"} -> NotConst
           [] op = "<" -> BoolConst(Less(l, r))
           [] op = "<=" -> BoolConst(~Less(r, l))
           [] op = ">" -> BoolConst(Less(r, l))
           [] op = ">=" -> BoolConst(~Less(l, r))

foldLogical(op, l, r) ==
    IF l.k # "bool" \/ r.k # "bool" THEN NotConst
    ELSE BoolConst(IF op = "and" THEN l.v /\ r.v ELSE l.v \/ r.v)

foldBitwise(op, l, r) ==
    IF ~Ints(l, r) THEN Folded(NotConst)
    ELSE LET a == Unsigned(l.v)
             b == Unsigned(r.v)
             Bits(u) == Folded(IntConst(Signed(u)))
         IN  CASE op = "&" -> Bits(a & b)
               [] op = "|" -> Bits(a | b)
               [] op = "^" -> Bits(a ^^ b)
               [] op \in {"<<", ">>"} /\ r.v \notin 0 .. Width - 1 -> FoldError("Value_InvalidShift")
               [] op = "<<" /\ r.v \in 0 .. Width - 1 -> Bits((a * 2^r.v) % 2^Width)
               [] op = ">>" /\ r.v \in 0 .. Width - 1 -> Folded(IntConst(l.v \div 2^r.v))

ArithmeticOps == {"+", "-", "*", "/", "%", "**"}
OrderingOps == {"<", "<=", ">", ">="}
LogicalOps == {"and", "or"}
BitwiseOps == {"&", "|", "^", "<<", ">>"}

foldBinary(op, l, r) ==
    CASE op \in ArithmeticOps -> foldArithmetic(op, l, r)
      [] op \in OrderingOps \union {"==", "!="} -> Folded(foldComparison(op, l, r))
      [] op \in LogicalOps -> Folded(foldLogical(op, l, r))
      [] op \in BitwiseOps -> foldBitwise(op, l, r)
      [] op = "??" -> Folded(IF l.k = "nil" THEN r ELSE l)

(* -INT64_MIN overflows: undefined, and a negation that wraps as built.     *)
foldUnary(op, x) ==
    CASE op = "-" /\ x.k = "int" -> IntConst(Signed(Unsigned(-x.v)))
      [] op = "~" /\ x.k = "int" -> IntConst(-x.v - 1)
      [] op = "not" /\ x.k = "bool" -> BoolConst(~x.v)
      [] OTHER -> NotConst

----------------------------------------------------------------------------
(* A literal of the program: an integer's lexeme may not fit.  *)
evaluateLiteral(e) ==
    CASE e.lk = "int" -> Exact(e.v, "Value_IntegerOverflow")
      [] e.lk = "bool" -> Folded(BoolConst(e.b))
      [] e.lk \in {"str", "char"} -> Folded([k |-> e.lk, v |-> e.s])
      [] e.lk = "nil" -> Folded(NilConst)

(* The position of the row a member of a fixed table names, 0 for none.     *)
RowName(row) == IF row # << >> /\ row[1].k = "lit" /\ row[1].lk = "str" THEN row[1].n ELSE ""
RowIndex(t, member, c) ==
    LET at == {i \in DOMAIN t.rows : RowName(t.rows[i]) = member}
    IN  IF ~hasFixedRowSet(t, c) \/ at = {} THEN 0 ELSE CHOOSE i \in at : \A j \in at : i <= j

(* isConst of a resolved node: the resolvers set it on every literal, on an *)
(* array of such, and on a compile-time row, and leave constValue alone.    *)
RECURSIVE IsConst(_, _)
IsConst(e, c) ==
    CASE e.k = "lit" -> TRUE
      [] e.k = "array" -> \A i \in DOMAIN e.els : IsConst(e.els[i], c)
      [] e.k = "paren" -> IsConst(e.x, c)
      [] e.k = "field" -> /\ e.obj.k = "id"
                          /\ lookupValue(e.obj.n, c).kind = "table"
                          /\ RowIndex(lookupValue(e.obj.n, c).d, e.f, c) > 0
      [] OTHER -> FALSE

InitializerOf(lv, c) == IF lv.kind = "fn" THEN [k |-> "fn", v |-> lv.d.id]
                        ELSE IF lv.kind = "var" /\ lv.d.id \in DOMAIN c.consts
                             THEN c.consts[lv.d.id]
                        ELSE NotConst

RECURSIVE Evaluate(_, _, _)
Evaluate(e, seen, c) ==
    IF seen /\ IsConst(e, c) THEN Folded(NotConst)
    ELSE CASE e.k = "lit" -> evaluateLiteral(e)
           [] e.k = "id" -> Folded(InitializerOf(lookupValue(e.n, c), c))
           [] e.k = "paren" -> Evaluate(e.x, seen, c)
           [] e.k = "unary" ->
                LET x == Evaluate(e.x, seen, c)
                IN  IF ~isEvaluated(x.x) THEN x ELSE Folded(foldUnary(e.op, x.x))
           [] e.k = "binary" ->
                LET l == Evaluate(e.l, seen, c)
                    r == Evaluate(e.r, seen, c)
                IN  IF ~isEvaluated(l.x) THEN l
                    ELSE IF ~isEvaluated(r.x) THEN r ELSE foldBinary(e.op, l.x, r.x)
           [] e.k = "field" ->
                LET m == IF e.obj.k = "id" THEN lookupImport(e.obj.n, c) ELSE ""
                IN  Folded(IF ~seen \/ m = "" THEN NotConst
                           ELSE InitializerOf(lookupModuleMember(m, e.f, c), c))
           [] e.k = "array" ->
                LET xs == [i \in DOMAIN e.els |-> Evaluate(e.els[i], seen, c)]
                    bad == {i \in DOMAIN xs : ~isEvaluated(xs[i].x)}
                IN  IF bad = {} THEN Folded([k |-> "array", v |-> [i \in DOMAIN xs |-> xs[i].x]])
                    ELSE xs[CHOOSE i \in bad : \A j \in bad : i <= j]
           [] OTHER -> Folded(NotConst)

(* evaluate: the constant, and the checker with what it reported.  *)
EvaluateIn(e, seen, c) == LET r == Evaluate(e, seen, c)
                          IN  [x |-> r.x, c |-> IF r.code = "" THEN c ELSE Err(c, r.code)]
=============================================================================
