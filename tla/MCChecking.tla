----------------------------- MODULE MCChecking -----------------------------
(* Instances of Checking for TLC: every body of two statements over the     *)
(* declarations below, a table with every attribute, every sum of two small *)
(* constants as a cell, and two modules with a table each.                  *)
EXTENDS LucidRun

Id(n) == [k |-> "id", n |-> n]
I(v) == [k |-> "lit", lk |-> "int", v |-> v]
B == [k |-> "lit", lk |-> "bool", b |-> TRUE]
N == [k |-> "lit", lk |-> "nil"]
Str == [k |-> "lit", lk |-> "str", s |-> <<1>>, n |-> "a"]
Field(o, f) == [k |-> "field", obj |-> o, f |-> f]
CallOf(f, args) == [k |-> "call", f |-> f, args |-> args]
Index(o, i) == [k |-> "index", obj |-> o, at |-> i]
Bin(op, l, r) == [k |-> "binary", op |-> op, l |-> l, r |-> r]
Un(op, x) == [k |-> "unary", op |-> op, x |-> x]
Lambda(ps, body) == [k |-> "lambda", ps |-> ps, body |-> body]

Param(n, ty) == [k |-> "param", id |-> "p" \o n, n |-> n, ty |-> ty, const |-> FALSE, variadic |-> FALSE]
Var(id, n, ty, init, const, top) ==
    [k |-> "var", id |-> id, n |-> n, ty |-> ty, init |-> init, const |-> const, top |-> top, attrs |-> << >>]
Fn(id, n, ps, ret, body) ==
    [k |-> "fn", id |-> id, n |-> n, ps |-> ps, ty |-> ret, body |-> body, host |-> FALSE, top |-> TRUE,
     attrs |-> << >>]
HostFn(id, n, ret) == [Fn(id, n, << >>, ret, << >>) EXCEPT !.host = TRUE]
Col(id, n, ty) == [id |-> id, n |-> n, ty |-> ty]
Table(id, n, cols, rows, attrs) ==
    [k |-> "table", id |-> id, n |-> n, cols |-> cols, rows |-> rows, host |-> FALSE, top |-> TRUE,
     attrs |-> attrs]
Attr(a) == [a |-> a, args |-> IF a = "reserve" THEN <<"int">> ELSE << >>]

Let(n, ty, e) == [k |-> "let", d |-> Var("x" \o n, n, ty, e, FALSE, FALSE)]
Const(n, ty, e) == [k |-> "let", d |-> Var("x" \o n, n, ty, e, TRUE, FALSE)]
Set(l, op, r) == [k |-> "assign", lhs |-> l, op |-> op, rhs |-> r]
If(c1, t, e) == [k |-> "if", cond |-> c1, then |-> Block(t),
                 else |-> IF e = << >> THEN None ELSE Block(e)]
While(c1, b) == [k |-> "while", cond |-> c1, body |-> Block(b)]
For(vs, it, b) == [k |-> "for", vars |-> vs, it |-> it, body |-> Block(b)]
LoopVar(n, ty) == Var("f" \o n, n, ty, N, FALSE, FALSE)
Expr(e) == [k |-> "expr", x |-> e]
Return(e) == [k |-> "return", x |-> e]
Switch(e, cases, default) == [k |-> "switch", subject |-> e, cases |-> cases, default |-> default]
Wait(for, e) == [k |-> "wait", for |-> for, x |-> e, arg |-> I(1)]

T1 == Table("T", "T", <<Col("Tc", "c", Int32), Col("Tf", "f", Nullable(Bool))>>, << >>, << >>)
F1 == Table("F", "F", <<Col("Fn", "n", String), Col("Fc", "c", Int32)>>, <<<<Str, I(1)>>>>, <<Attr("readonly")>>)
Int2Int == Fun(<<Int32>>, Int32)
Around == <<T1, F1, HostFn("h", "h", RowRef(Named("T"))), HostFn("b", "b", Bool), HostFn("i", "i", Int32),
            Fn("g", "g", << >>, None, << >>), Var("k", "k", Fun(<< >>, Int32), Id("i"), TRUE, TRUE)>>

Exprs == {I(1), B, N, Str, Id("x"), Id("y"), Id("k"), CallOf(Id("i"), << >>), CallOf(Id("h"), << >>),
          CallOf(Id("k"), << >>), CallOf(Id("g"), << >>), Field(Id("x"), "c"), Field(CallOf(Id("h"), << >>), "f"),
          Field(Id("F"), "a"), Field(Id("F"), "c"), Index(Id("T"), I(1)), Index(Id("x"), I(1)),
          Bin("+", Id("x"), I(1)), Bin("<", Id("x"), Str), Bin("==", Id("x"), N), Bin("??", Id("x"), I(1)),
          Bin("and", Id("x"), B), Un("-", Id("x")), Un("not", Id("x")),
          [k |-> "array", els |-> <<I(1), Id("x")>>], Lambda(<<Param("q", Int32)>>, Id("q")),
          Lambda(<< >>, Id("x")), CallOf(Id("x"), <<I(1)>>), CallOf(Field(Id("T"), "COUNT"), << >>),
          CallOf(Field(Id("T"), "ADD"), <<I(1), B>>), CallOf(Field(Id("F"), "CLEAR"), << >>),
          CallOf(Field(Id("x"), "CONTAINS"), <<Str>>), [k |-> "start", call |-> CallOf(Id("g"), << >>)]}
LocalTypes == {Int32, Bool, Nullable(Int32), RowRef(Named("T")), Arr("dynamic", 0, Int32), Int2Int,
               Fun(<< >>, Int32), Named("U"), Nullable(RowRef(Named("F")))}
First == {Let("x", t, e) : t \in LocalTypes, e \in Exprs \ {Id("y")}}
           \union {Const("x", t, I(1)) : t \in {Int32, Nullable(Int32)}}
Inside == {Return(I(1)), [k |-> "break"], Expr(CallOf(Id("i"), << >>)), Set(Id("x"), "=", I(1))}
Second ==
    {Let("y", t, e) : t \in {Int32, Bool}, e \in {Id("y"), Field(Id("x"), "c"), Bin("??", Id("x"), I(1))}}
      \union {Set(l, op, e) : l \in {Id("x"), Field(Id("x"), "c"), Index(Id("x"), I(1)), Field(Field(Id("F"), "a"), "c")},
                              op \in {"=", "+=", "-=", "|="}, e \in {I(1), B, N, Str}}
      \union {Return(e) : e \in Exprs \union {None}} \union {Expr(e) : e \in Exprs}
      \union {If(c1, <<s>>, e) : c1 \in {B, Bin("!=", Id("x"), N), Un("not", Id("x"))}, s \in Inside, e \in {<< >>, <<Return(I(1))>>}}
      \union {While(B, <<s>>) : s \in Inside \union {[k |-> "continue"]}}
      \union {For(<<LoopVar("y", t)>>, it, <<Expr(Id("y"))>>) :
                 t \in {Int32, RowRef(Named("T"))}, it \in {Id("T"), Id("x"), [k |-> "range", lo |-> I(0), hi |-> Id("x"), step |-> None]}}
      \union {For(<<LoopVar("z", Int32), LoopVar("y", Bool)>>, Id("x"), << >>)}
      \union {Switch(e, cs, d) : e \in {Id("x"), CallOf(Id("h"), << >>)},
                                 cs \in {<< >>, <<[values |-> <<I(1)>>, body |-> <<Return(I(1))>>]>>},
                                 d \in {<< >>, << <<Return(I(1))>> >>}}
      \union {Wait("seconds", I(1)), [k |-> "continue"]}

Program(decls) == <<[path |-> "m", decls |-> decls]>>
Typical == {Let("x", Int32, e) : e \in {I(1), Id("x"), CallOf(Id("k"), << >>), Field(Field(Id("F"), "a"), "c")}}
             \union {Let("x", Bool, B), Let("x", Nullable(Int32), N), Let("x", RowRef(Named("T")), N),
                     Let("x", RowRef(Named("T")), CallOf(Id("h"), << >>)), Let("x", RowRef(Named("F")), Field(Id("F"), "a")),
                     Let("x", Arr("dynamic", 0, Int32), [k |-> "array", els |-> <<I(1), I(0)>>]),
                     Let("x", Int2Int, Lambda(<<Param("q", Int32)>>, Id("q"))), Let("x", String, Str),
                     Let("x", Fun(<< >>, Int32), Id("i")), Const("x", Int32, I(1))}
Body(r, ss) == Program(Append(Around, Fn("main", "main", << >>, r, ss)))
Bodies == {Body(Int32, <<s, Return(Id("x"))>>) : s \in First}
            \union {Body(r, <<s, t>>) : r \in {None, Int32}, s \in Typical, t \in Second}

(* A table whose one cell is a constant expression.  *)
Small == {I(v) : v \in 0 .. MaxInt}
Operands == Small \union {Un("-", x) : x \in Small}
Constants == {Bin(op, l, r) : op \in ArithmeticOps \union BitwiseOps, l \in Operands, r \in Operands}
               \union {Un("-", Bin("-", l, r)) : l \in Operands, r \in Small}
               \union {Un("~", x) : x \in Operands} \union {I(MaxInt + 1)}
CellTables == {Program(<<Table("C", "C", <<Col("Cc", "c", Int32)>>, << <<e>> >>, << >>)>>) : e \in Constants}

AttributeLists == UNION {[1 .. n -> {Attr("fixed"), Attr("readonly"), Attr("packed"), Attr("reserve"),
                                     Attr("request"), Attr("sequence"), Attr("export")}] : n \in 0 .. 3}
AttributedTables == {Program(<<Table("A", n, <<Col("Ac", "c", Int32)>>, rows, as)>>) :
                        n \in {"A"}, rows \in {<< >>, << <<I(1)>> >>}, as \in AttributeLists}

Sequences1 == {Program(<<[Fn("s", "s", << >>, r, b) EXCEPT !.attrs = <<Attr("sequence")>>],
                         Fn("main", "main", << >>, None, <<Expr([k |-> "start", call |-> CallOf(Id("s"), << >>)])>>)>>) :
                  r \in {None, Int32},
                  b \in {<< >>, <<Wait("seconds", I(1))>>, <<Wait("event", Id("s"))>>, <<Wait("request", Id("s"))>>,
                         <<Wait("until", Lambda(<<Param("q", Int32)>>, B))>>, <<Wait("frames", I(1))>>}}

(* Two modules: a table and a body that reads one of its columns.  *)
OneModule(p, tn, cn, col) ==
    [path |-> p, decls |-> <<Table(p \o "T", tn, <<Col(p \o "c", col, Int32)>>, << >>, << >>),
                             HostFn(p \o "h", "h", RowRef(Named(tn))),
                             Fn(p \o "main", "main", << >>, Int32, <<Return(Field(CallOf(Id("h"), << >>), cn))>>)>>]
Pairs(names) == {<<OneModule("m", "T", c1, "c"), OneModule("n", n, c2, "d")>> :
                    n \in names, c1 \in {"c", "d"}, c2 \in {"c", "d"}}
Others == {Program(<<[k |-> "import", id |-> "im", n |-> "o", path |-> "o"], T1>>), Program(<<T1, T1>>),
           Program(<<Fn("f", "f", <<Param("q", Int32)>>, None, << >>)>>),
           Program(<<Var("v", "v", Int32, I(1), FALSE, TRUE)>>)}

----------------------------------------------------------------------------
(* The value of a constant expression over the integers, << >> for none.    *)
RECURSIVE Meaning(_)
Bit(i, n) == (i \div 2^n) % 2
FromBits(B1(_)) == LET Weight(n) == IF n = Width - 1 THEN -(2^n) ELSE 2^n
                   IN  FoldLeft(LAMBDA acc, n : acc + B1(n) * Weight(n), 0, [n \in 1 .. Width |-> n - 1])
Raised(a, n) == FoldLeft(LAMBDA acc, i : acc * a, 1, [i \in 1 .. n |-> i])
Truncated(a, b) == CHOOSE q \in -(2^Width) .. 2^Width :
                       LET r == a - b * q
                       IN  /\ Magnitude(r) < Magnitude(b)
                           /\ r = 0 \/ (r < 0) = (a < 0)
Meaning(e) ==
    CASE e.k = "lit" -> <<e.v>>
      [] e.k = "unary" -> LET x == Meaning(e.x)
                          IN  IF x = << >> THEN << >>
                              ELSE <<IF e.op = "-" THEN -x[1] ELSE FromBits(LAMBDA n : 1 - Bit(x[1], n))>>
      [] e.k = "binary" ->
           LET a == Meaning(e.l)[1]
               b == Meaning(e.r)[1]
           IN  CASE e.op = "+" -> <<a + b>> [] e.op = "-" -> <<a - b>> [] e.op = "*" -> <<a * b>>
                 [] e.op \in {"/", "%"} -> IF b = 0 THEN << >>
                                          ELSE <<IF e.op = "/" THEN Truncated(a, b) ELSE a - b * Truncated(a, b)>>
                 [] e.op = "**" -> IF b < 0 THEN << >> ELSE <<Raised(a, b)>>
                 [] e.op = "&" -> <<FromBits(LAMBDA n : Bit(a, n) * Bit(b, n))>>
                 [] e.op = "|" -> <<FromBits(LAMBDA n : Bit(a, n) + Bit(b, n) - Bit(a, n) * Bit(b, n))>>
                 [] e.op = "^" -> <<FromBits(LAMBDA n : (Bit(a, n) + Bit(b, n)) % 2)>>
                 [] e.op \in {"<<", ">>"} ->
                      IF b \notin 0 .. Width - 1 THEN << >>
                      ELSE IF e.op = ">>" THEN <<a \div 2^b>>
                      ELSE <<FromBits(LAMBDA n : IF n < b THEN 0 ELSE Bit(a, n - b))>>

Negated(e) == e.k = "unary" /\ e.op = "-" /\ Meaning(e.x) = <<MinInt>>

MCPrograms == Bodies \union CellTables \union AttributedTables \union Sequences1
                \union Pairs({"U"}) \union Others
SameNames == Pairs({"T", "U"})

----------------------------------------------------------------------------
UniqueTables == \A i, j \in DOMAIN prog : \A d \in ToSet(prog[i].decls), e \in ToSet(prog[j].decls) :
                   d.k = "table" /\ e.k = "table" /\ d.n = e.n => i = j

(* A program the checker accepts never gives an operator, a call, an index, *)
(* a field or a variable a value of the wrong kind, whatever path a body    *)
(* takes; two modules with a table of one name are left to TablesApart, and *)
(* a column of a table used as a value to ViewsAreNoValues.                 *)
AcceptedIsTyped == Accepted /\ UniqueTables => "operand" \notin Faults

(* Nothing an accepted program does writes a cell of a @readonly table, or  *)
(* changes the rows of a @fixed or @readonly one.                           *)
AcceptedKeepsFrozen == Accepted => "frozen" \notin Faults

(* A constant cell has the value of its expression over the integers, when  *)
(* that has one that fits; else the table is refused.  The least integer    *)
(* negated is the exception: it wraps.                                      *)
CellsAreExact ==
    prog \in CellTables /\ pass = "done" =>
        LET e == prog[1].decls[1].rows[1][1]
            v == Meaning(e)
        IN  Negated(e) \/ IF v # << >> /\ Fits(v[1])
                          THEN Accepted /\ Evaluate(e, FALSE, c).x = IntConst(v[1])
                          ELSE ~Accepted

(* A column of a table "cannot be assigned to a variable or passed as an    *)
(* argument" (LucidGrammar.md:843): no accepted program evaluates one.  The *)
(* code differs: resolveTableMemberAccess (SemaExpr.cpp:953-968) gives a    *)
(* view the type of the column and no check looks at isColumnView again.    *)
ViewsAreNoValues == Accepted => "view" \notin Faults

(* Two modules may each have a table of the same name: what one of them     *)
(* says of a row is about its own table's columns.                          *)
TablesApart == Accepted => "operand" \notin Faults
=============================================================================
