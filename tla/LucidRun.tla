------------------------------ MODULE LucidRun ------------------------------
(****************************************************************************)
(* What an accepted program can do when it runs, as the reference the       *)
(* checker is measured against: which kinds of values every expression can  *)
(* have, and which faults a body can run into.  Names are resolved in the   *)
(* text of the program, not by what the checker found.  A call yields some  *)
(* value of the declared return type.  A value is a tuple: a tag, and for a *)
(* row, table, function or array what it belongs to; a fault is a tuple     *)
(* with tag "!" and a reason:                                               *)
(*   "trap"     a failure the language defines: a nil row, an index         *)
(*   "operand"  an operator, call, index or field given a value it has no   *)
(*              meaning for, or a variable a value outside its type         *)
(*   "frozen"   a cell of a @readonly table is written, or a table whose    *)
(*              rows are fixed grows or shrinks                             *)
(*   "unset"    a variable read before it has a value                       *)
(*   "capture"  a lambda reads a local of the function around it            *)
(*   "noreturn" a function with a return type ends without a value          *)
(*   "view"     a column of a whole table is used as a value                *)
(****************************************************************************)
EXTENDS Checking

Fault(why) == <<"!", why>>
IsFault(v) == v[1] = "!"
Num == <<"num">>
Truth == <<"bool">>
Text == <<"str">>
Letter == <<"char">>
Nil == <<"nil">>
Nothing == <<"unit">>

DeclaredIn(m, n) ==
    LET ds == UNION {{d \in ToSet(prog[i].decls) : d.k # "import" /\ d.n = n} :
                        i \in {i \in DOMAIN prog : prog[i].path = m}}
    IN  IF ds = {} THEN [k |-> "none"] ELSE CHOOSE d \in ds : TRUE

RECURSIVE ValuesOf(_, _)
ValuesOf(t, m) ==
    CASE isNumeric(t) -> {Num}
      [] t = Bool -> {Truth}
      [] t = String -> {Text}
      [] t = Char -> {Letter}
      [] t \in {Unit, None} -> {Nothing}
      [] isNullable(t) -> {Nil} \union ValuesOf(t.t, m)
      [] isRowRef(t) -> {Nil, <<"row", DeclaredIn(m, t.t.n).id>>}
      [] t.k = "named" -> {<<"table", DeclaredIn(m, t.n).id>>}
      [] isArray(t) -> {<<"arr", ValuesOf(t.t, m)>>}
      [] isFun(t) -> {<<"fun", t>>}

Declaration(id) == CHOOSE d \in UNION {ToSet(prog[i].decls) : i \in DOMAIN prog} : d.id = id
ModuleOf(id) == LET i == CHOOSE i \in DOMAIN prog : \E d \in ToSet(prog[i].decls) : d.id = id
                IN  prog[i].path

(* An environment binds each local to [v, ty]: its value, Nothing when it   *)
(* has none yet, and its type; outer names what a lambda may not reach.     *)
RECURSIVE Values(_, _)

(* The values of es as a set of tuples, or of faults.  *)
Tuples(es, env) ==
    LET Step(acc, e) == UNION {IF IsFault(a) THEN {a}
                               ELSE {IF IsFault(v) THEN v ELSE <<"ok", Append(a[2], v)>> :
                                        v \in Values(e, env)} : a \in acc}
    IN  FoldLeft(Step, {<<"ok", << >> >>}, es)

Is(v, t, env) ==
    \/ v \in ValuesOf(t, env.m)
    \/ isNullable(t) /\ v = Nil
    \/ isArray(unwrapNullable(t)) /\ v[1] = "arr" /\ v[2] \subseteq ValuesOf(unwrapNullable(t).t, env.m)
    \/ isFun(t) /\ v[1] = "fn" /\ LET d == Declaration(v[2])
                                  IN  /\ Len(d.ps) = Len(t.ps)
                                      /\ (IF d.ty = None THEN Unit ELSE d.ty) = t.ret
    \/ isFun(t) /\ v[1] = "lam" /\ Len(v[2].ps) = Len(t.ps)

(* The values of a lambda's body for the arguments vs.  *)
Applied(lam, vs, env) ==
    LET inner == [m |-> env.m, outer |-> env.outer \union DOMAIN env.at,
                  at |-> [n \in {lam.ps[i].n : i \in DOMAIN lam.ps} |->
                             [v |-> vs[CHOOSE i \in DOMAIN lam.ps : lam.ps[i].n = n], ty |-> Unknown]]]
    IN  Values(lam.body, inner)

Global(n, env) ==
    LET d == DeclaredIn(env.m, n)
    IN  CASE d.k = "var" -> ValuesOf(d.ty, env.m)
          [] d.k = "fn" -> {<<"fn", d.id>>}
          [] d.k = "table" -> {<<"table", d.id>>}
          [] OTHER -> {Fault("operand")}

NameValue(n, env) ==
    IF n \in DOMAIN env.at
    THEN {IF env.at[n].v = Nothing THEN Fault("unset") ELSE env.at[n].v}
    ELSE IF n \in env.outer THEN {Fault("capture")} ELSE Global(n, env)

ColumnType(d, f) == LET i == CHOOSE i \in DOMAIN d.cols : d.cols[i].n = f IN d.cols[i].ty
HasColumn(d, f) == f \in {d.cols[i].n : i \in DOMAIN d.cols}

(* A column of a row is its cell; a column of the table itself is a view,   *)
(* which is no value of any type.                                           *)
Member(v, f, env) ==
    CASE v = Nil -> {Fault("trap")}
      [] v[1] = "row" -> LET d == Declaration(v[2])
                         IN  IF HasColumn(d, f) THEN ValuesOf(ColumnType(d, f), ModuleOf(v[2]))
                             ELSE {Fault("operand")}
      [] v[1] = "table" -> LET d == Declaration(v[2])
                           IN  IF HasColumn(d, f) THEN {Fault("view")}
                               ELSE IF f \in {RowName(d.rows[i]) : i \in DOMAIN d.rows}
                               THEN {<<"row", v[2]>>}
                               ELSE IF f \in TableMethods THEN {<<"method", f, v[2]>>}
                               ELSE {Fault("operand")}
      [] v[1] = "arr" -> IF f \in DynamicMethods THEN {<<"on", f, v[2]>>} ELSE {Fault("operand")}
      [] OTHER -> {Fault("operand")}

Attributes(d) == {at.a : at \in ToSet(d.attrs)}
Frozen(d) == Attributes(d) \intersect {"fixed", "readonly"} # {}

(* What a call of f with the arguments vs can give.  *)
Call(f, vs, env) ==
    CASE f[1] = "fn" -> LET d == Declaration(f[2])
                        IN  IF Len(vs) = Len(d.ps) THEN ValuesOf(d.ty, ModuleOf(f[2]))
                            ELSE {Fault("operand")}
      [] f[1] = "fun" -> ValuesOf(f[2].ret, env.m)
      [] f[1] = "lam" -> IF Len(vs) = Len(f[2].ps) THEN Applied(f[2], vs, env) ELSE {Fault("operand")}
      [] f[1] = "method" ->
           LET d == Declaration(f[3])
               ps == TableMethodType(f[2], d, c).ps
               env0 == [env EXCEPT !.m = ModuleOf(f[3])]
           IN  IF Len(vs) # Len(ps) \/ \E i \in DOMAIN ps : ~Is(vs[i], ps[i], env0)
               THEN {Fault("operand")}
               ELSE IF f[2] \in GrowingMethods /\ Frozen(d) THEN {Fault("frozen")}
               ELSE IF f[2] \in {"ADD", "AT"} THEN {<<"row", f[3]>>}
               ELSE IF f[2] \in {"COUNT", "VERSION"} THEN {Num} ELSE {Nothing}
      [] f[1] = "on" -> {CASE f[2] = "COUNT" -> Num [] f[2] = "CONTAINS" -> Truth [] OTHER -> Nothing}
      [] OTHER -> {Fault("operand")}

Binary(op, a, b) ==
    CASE op \in ArithmeticOps -> IF a = Num /\ b = Num THEN {Num, Fault("trap")}
                                 ELSE IF op = "+" /\ a = Text /\ b = Text THEN {Text}
                                 ELSE {Fault("operand")}
      [] op \in BitwiseOps -> IF a = Num /\ b = Num THEN {Num} ELSE {Fault("operand")}
      [] op \in OrderingOps -> IF a = b /\ a \in {Num, Text, Letter} THEN {Truth}
                               ELSE {Fault("operand")}
      [] op \in {"==", "!="} -> {Truth}
      [] op \in LogicalOps -> IF a = Truth /\ b = Truth THEN {Truth} ELSE {Fault("operand")}
      [] op = "??" -> IF a = Nil THEN {b} ELSE {a}

Unary(op, a) == IF a = (IF op = "not" THEN Truth ELSE Num) THEN {a} ELSE {Fault("operand")}

Over(S, F(_)) == UNION {IF IsFault(v) THEN {v} ELSE F(v) : v \in S}

Values(e, env) ==
    CASE e.k = "lit" -> {CASE e.lk = "nil" -> Nil [] e.lk = "bool" -> Truth [] e.lk = "str" -> Text
                           [] e.lk = "char" -> Letter [] OTHER -> Num}
      [] e.k = "id" -> NameValue(e.n, env)
      [] e.k = "paren" -> Values(e.x, env)
      [] e.k = "unary" -> Over(Values(e.x, env), LAMBDA a : Unary(e.op, a))
      [] e.k = "binary" -> Over(Values(e.l, env), LAMBDA a :
                               Over(Values(e.r, env), LAMBDA b : Binary(e.op, a, b)))
      [] e.k = "field" -> Over(Values(e.obj, env), LAMBDA v : Member(v, e.f, env))
      [] e.k = "index" -> Over(Values(e.obj, env), LAMBDA v : Over(Values(e.at, env), LAMBDA i :
                              IF i # Num THEN {Fault("operand")}
                              ELSE IF v[1] = "table" THEN {<<"row", v[2]>>, Fault("trap")}
                              ELSE IF v[1] = "arr" THEN v[2] \union {Fault("trap")}
                              ELSE {Fault("operand")}))
      [] e.k = "call" -> Over(Values(e.f, env), LAMBDA f : Over(Tuples(e.args, env), LAMBDA t :
                             Call(f, t[2], env)))
      [] e.k = "lambda" ->
           LET Some(p) == CHOOSE v \in ValuesOf(p.ty, env.m) : v # Nil
           IN  {<<"lam", e>>} \union {v \in Applied(e, [i \in DOMAIN e.ps |-> Some(e.ps[i])], env) : IsFault(v)}
      [] e.k = "array" -> Over(Tuples(e.els, env), LAMBDA t : {<<"arr", ToSet(t[2])>>})
      [] OTHER -> {Num}

----------------------------------------------------------------------------
(* A configuration of a body: its environment and how it left, "go" while   *)
(* it has not; out is a fault's reason when it ran into one.                *)
At(env, out) == [env |-> env, out |-> out]
Bound(env, n, v, t) == [env EXCEPT !.at = With(@, n, [v |-> v, ty |-> t])]

With1(S, env, F(_)) == UNION {IF IsFault(v) THEN {At(env, v[2])} ELSE F(v) : v \in S}

RECURSIVE Run(_, _, _)

(* What happens in a block, with its locals gone after it.  *)
InBlock(ss, env, ret) ==
    LET Step(acc, s) == UNION {IF k.out = "go" THEN Run(s, k.env, ret) ELSE {k} : k \in acc}
        Outer(e) == [env EXCEPT !.at = [n \in DOMAIN env.at |-> e.at[n]]]
    IN  {At(IF k.out \in {"go", "break", "continue"} THEN Outer(k.env) ELSE env, k.out) :
            k \in FoldLeft(Step, {At(env, "go")}, ss)}

OperatorOf == [op \in {"+=", "-=", "*=", "/=", "%=", "&=", "|=", "^=", "<<=", ">>="} |->
                  CASE op = "+=" -> "+" [] op = "-=" -> "-" [] op = "*=" -> "*" [] op = "/=" -> "/"
                    [] op = "%=" -> "%" [] op = "&=" -> "&" [] op = "|=" -> "|" [] op = "^=" -> "^"
                    [] op = "<<=" -> "<<" [] op = ">>=" -> ">>"]

(* Storing v in a local, a cell or an element.  *)
Store(lhs, v, env) ==
    CASE lhs.k = "id" /\ lhs.n \in DOMAIN env.at ->
           LET t == env.at[lhs.n].ty
           IN  IF Is(v, t, env) THEN {At(Bound(env, lhs.n, v, t), "go")} ELSE {At(env, "operand")}
      [] lhs.k = "id" -> {At(env, IF DeclaredIn(env.m, lhs.n).k = "var" THEN "go" ELSE "operand")}
      [] lhs.k = "field" ->
           With1(Values(lhs.obj, env), env, LAMBDA r :
               {At(env, IF r[1] # "row" THEN IF r = Nil THEN "trap" ELSE "operand"
                        ELSE LET d == Declaration(r[2])
                                 there == [env EXCEPT !.m = ModuleOf(r[2])]
                             IN  IF ~HasColumn(d, lhs.f) \/ ~Is(v, ColumnType(d, lhs.f), there)
                                 THEN "operand"
                                 ELSE IF "readonly" \in Attributes(d) THEN "frozen" ELSE "go")})
      [] lhs.k = "index" ->
           With1(Values(lhs.obj, env), env, LAMBDA a :
               {At(env, IF a[1] = "arr" THEN "go" ELSE "operand")})
      [] OTHER -> {At(env, "operand")}

Looped(ks) == {IF k.out \in {"break", "continue"} THEN At(k.env, "go") ELSE k : k \in ks}
(* A variable's type in its own initializer's environment: no value yet.  *)
Run(s, env, ret) ==
    CASE s.k = "block" -> InBlock(s.ss, env, ret)
      [] s.k = "let" ->
           LET open == Bound(env, s.d.n, Nothing, s.d.ty)
           IN  With1(Values(s.d.init, open), env,
                     LAMBDA v : {IF Is(v, s.d.ty, env) THEN At(Bound(env, s.d.n, v, s.d.ty), "go")
                                 ELSE At(env, "operand")})
      [] s.k = "assign" ->
           LET new == IF s.op = "=" THEN Values(s.rhs, env)
                      ELSE Values([k |-> "binary", op |-> OperatorOf[s.op], l |-> s.lhs, r |-> s.rhs], env)
           IN  With1(new, env, LAMBDA v : Store(s.lhs, v, env))
      [] s.k = "if" ->
           With1(Values(s.cond, env), env,
                 LAMBDA v : IF v # Truth THEN {At(env, "operand")}
                            ELSE Run(s.then, env, ret)
                                 \union (IF s.else = None THEN {At(env, "go")} ELSE Run(s.else, env, ret)))
      [] s.k = "while" ->
           LET Once(e) == With1(Values(s.cond, e), e, LAMBDA v :
                              IF v # Truth THEN {At(e, "operand")}
                              ELSE {At(e, "go")} \union Looped(Run(s.body, e, ret)))
           IN  UNION {IF k.out = "go" THEN Once(k.env) ELSE {k} : k \in Once(env)}
      [] s.k = "for" ->
           {At(env, "go")} \union
             LET some == FoldLeft(LAMBDA e, d : IF d.n = "" THEN e
                                                ELSE Bound(e, d.n, CHOOSE v \in ValuesOf(d.ty, env.m) : v # Nil, d.ty),
                                  env, s.vars)
             IN  Looped(Run(s.body, some, ret))
      [] s.k = "switch" ->
           LET bodies == {s.cases[i].body : i \in DOMAIN s.cases} \union ToSet(s.default)
           IN  With1(Values(s.subject, env), env, LAMBDA v :
                     UNION {{IF k.out = "break" THEN At(k.env, "go") ELSE k :
                                k \in InBlock(b, env, ret)} : b \in bodies}
                       \union (IF s.default = << >> THEN {At(env, "go")} ELSE {}))
      [] s.k = "return" ->
           IF s.x = None THEN {At(env, "ret")}
           ELSE With1(Values(s.x, env), env,
                      LAMBDA v : {At(env, IF Is(v, ret, env) THEN "ret" ELSE "operand")})
      [] s.k = "expr" -> With1(Values(s.x, env), env, LAMBDA v : {At(env, "go")})
      [] s.k \in {"break", "continue"} -> {At(env, s.k)}
      [] s.k = "wait" -> {At(env, "go")}

(* How the runs of a function end.  *)
Ends(fn, m) ==
    LET env == [m |-> m, outer |-> {}, at |-> [n \in {} |-> None]]
        outs == {k.out : k \in InBlock(fn.body, env, fn.ty)}
    IN  IF fn.ty \in {None, Unit} \/ "go" \notin outs THEN outs
        ELSE (outs \ {"go"}) \union {"noreturn"}

Faults == UNION {UNION {IF d.k = "fn" /\ ~d.host THEN Ends(d, prog[i].path) ELSE {} :
                           d \in ToSet(prog[i].decls)} : i \in DOMAIN prog}
=============================================================================
