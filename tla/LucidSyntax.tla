---------------------------- MODULE LucidSyntax ----------------------------
(****************************************************************************)
(* The reference syntax of a Lucid file, as a recognizer: what the grammar  *)
(* in the documentation derives, without precedence.  A nonterminal is an   *)
(* operator from a place i in the file ts to the set of the places where a  *)
(* phrase that starts at i can end.  It is wider than the grammar where the *)
(* parser leaves a restriction to Sema: any expression may be a statement,  *)
(* the target of an assignment or an iterable, a variadic parameter may be  *)
(* anywhere, `default` stands at any place, `,` and `;` separate rows.      *)
(****************************************************************************)
EXTENDS Integers, FiniteSets, SequencesExt

Tok(ts, i) == IF i <= Len(ts) THEN ts[i] ELSE "eof"
Ids == {"id", "_"}

\* One token of the set S.
One(ts, i, S) == IF Tok(ts, i) \in S THEN {i + 1} ELSE {}
After(ts, places, S) == UNION {One(ts, i, S) : i \in places}
Optional(ts, places, S) == places \union After(ts, places, S)

RECURSIVE Item(_, _, _)        \* the nonterminals that contain each other

\* One or more of nt with commas between.
RECURSIVE List(_, _, _)
List(ts, i, nt) ==
    LET ends == Item(ts, i, nt)
    IN  ends \union UNION {List(ts, j, nt) : j \in After(ts, ends, {","})}

\* ( [ list ] ), from the place after the opener.
Enclosed(ts, places, nt, close) ==
    After(ts, places \union UNION {List(ts, i, nt) : i \in places}, {close})

Types(ts, places) == UNION {Item(ts, i, "type") : i \in places}
Exprs(ts, places) == UNION {Item(ts, i, "expr") : i \in places}
Blocks(ts, places) == UNION {Item(ts, i, "block") : i \in places}

QualifiedTable(ts, places) ==
    LET name == After(ts, places, Ids)
    IN  name \union After(ts, After(ts, name, {"."}), Ids)

BaseType(ts, i) ==
    LET open == One(ts, i, {"["}) IN
    One(ts, i, {"prim"}) \union QualifiedTable(ts, {i})
      \union QualifiedTable(ts, One(ts, i, {"&"}))
      \union After(ts, Types(ts, open \union After(ts, After(ts, open, {"int"}), {","})), {"]"})
      \union Types(ts, After(ts, Enclosed(ts, One(ts, i, {"("}), "type", ")"), {"->"}))
Type(ts, i) == Optional(ts, BaseType(ts, i), {"?"})

Typed(ts, places) == Types(ts, After(ts, places, {":"}))
Param(ts, i) ==
    Types(ts, Optional(ts, After(ts, After(ts, Optional(ts, {i}, {"const"}), Ids), {":"}), {"..."}))

----------------------------------------------------------------------------
BinaryOperators == {"**", "*", "+", "-", "==", "and", "or", "??", "..", "&", "bits"}

RECURSIVE Postfix(_, _)
Postfix(ts, places) ==
    LET more == Enclosed(ts, After(ts, places, {"("}), "expr", ")")
                  \union After(ts, Exprs(ts, After(ts, places, {"["})), {"]"})
                  \union After(ts, After(ts, places, {"."}), Ids)
    IN  IF more \subseteq places THEN places ELSE Postfix(ts, places \union more)

Primary(ts, i) ==
    LET paren == One(ts, i, {"("}) IN
    One(ts, i, {"int", "str", "lit", "nil"} \union Ids)
      \union Enclosed(ts, One(ts, i, {"["}), "expr", "]")
      \union After(ts, Exprs(ts, paren), {")"})
      \union Exprs(ts, After(ts, Enclosed(ts, paren, "param", ")"), {"->"}))
      \union {j \in Exprs(ts, One(ts, i, {"start"})) : Tok(ts, j - 1) = ")"}

RECURSIVE Operand(_, _)
Operand(ts, i) ==
    Postfix(ts, Primary(ts, i))
      \union UNION {Operand(ts, j) : j \in One(ts, i, {"-", "~", "not"})}

Expr(ts, i) == LET ends == Operand(ts, i)
               IN  ends \union Exprs(ts, After(ts, ends, BinaryOperators))

----------------------------------------------------------------------------
Binding(ts, i) == One(ts, i, {"_"}) \union Typed(ts, One(ts, i, Ids))
RECURSIVE Bindings(_, _)
Bindings(ts, i) ==
    LET ends == Binding(ts, i)
    IN  ends \union UNION {Bindings(ts, j) : j \in After(ts, ends, {","})}

Parenthesized(ts, places) == After(ts, Exprs(ts, After(ts, places, {"("})), {")"})

VarDecl(ts, i) ==
    Exprs(ts, After(ts, Typed(ts, After(ts, One(ts, i, {"let", "const"}), Ids)), {"="}))

RECURSIVE IfStmt(_, _)
IfStmt(ts, i) ==
    LET then == Blocks(ts, Exprs(ts, One(ts, i, {"if"})))
        else == After(ts, then, {"else"})
    IN  then \union Blocks(ts, else) \union UNION {IfStmt(ts, j) : j \in else}

\* The clauses of a switch from places on, any number of them.
RECURSIVE Clauses(_, _)
Clauses(ts, places) ==
    LET labels == UNION {List(ts, i, "expr") : i \in After(ts, places, {"case"})}
                    \union After(ts, places, {"default"})
        more == Blocks(ts, After(ts, labels, {":"})) \union After(ts, places, {",", ";"})
    IN  IF more \subseteq places THEN places ELSE Clauses(ts, places \union more)
SwitchStmt(ts, i) ==
    {j \in After(ts, Clauses(ts, After(ts, Exprs(ts, One(ts, i, {"switch"})), {"{"})), {"}"}) :
        "default" \in {ts[k] : k \in i .. j - 1}}

LoopStmt(ts, i) ==
    LET places == {i} \union After(ts, One(ts, i, Ids), {":"})
        head   == UNION {Bindings(ts, j) : j \in After(ts, places, {"for"})}
    IN  Blocks(ts, Exprs(ts, After(ts, places, {"while"}) \union After(ts, head, {"in"})))

SuspendStmt(ts, i) ==
    LET two == Exprs(ts, After(ts, One(ts, i, {"waitUntil"}), {"("}))
    IN  Parenthesized(ts, One(ts, i, {"wait", "waitFrames", "waitForEvent", "waitForRequest"}))
          \union After(ts, Exprs(ts, After(ts, two, {","})), {")"})

Statement(ts, i) ==
    LET return == One(ts, i, {"return"})
        expr   == Item(ts, i, "expr")
    IN  VarDecl(ts, i) \union Item(ts, i, "block") \union IfStmt(ts, i) \union SwitchStmt(ts, i)
          \union LoopStmt(ts, i) \union SuspendStmt(ts, i) \union One(ts, i, {";"})
          \union return \union Exprs(ts, return)
          \union Optional(ts, One(ts, i, {"break", "continue"}), Ids)
          \union expr \union Exprs(ts, After(ts, expr, {"=", "+="}))

RECURSIVE Statements(_, _)
Statements(ts, places) ==
    LET more == UNION {Item(ts, i, "stmt") : i \in places}
    IN  IF more \subseteq places THEN places ELSE Statements(ts, places \union more)
Block(ts, i) == After(ts, Statements(ts, One(ts, i, {"{"})), {"}"})

----------------------------------------------------------------------------
RECURSIVE Attributes(_, _)
Attributes(ts, places) ==
    LET name == After(ts, After(ts, places, {"@"}), Ids)
        more == name \union Enclosed(ts, After(ts, name, {"("}), "arg", ")")
    IN  IF more \subseteq places THEN places ELSE Attributes(ts, places \union more)

RECURSIVE Path(_, _)
Path(ts, places) ==
    LET more == After(ts, After(ts, places, {"."}), Ids)
    IN  IF more \subseteq places THEN places ELSE Path(ts, places \union more)

HostTarget(ts, places) ==
    After(ts, After(ts, After(ts, After(ts, After(ts, places, {"="}), {"host"}), {"("}), {"str"}), {")"})

RECURSIVE Columns(_, _), Rows(_, _)
Columns(ts, places) ==
    LET more == Typed(ts, After(ts, Attributes(ts, places), Ids)) \union After(ts, places, {",", ";"})
    IN  IF more \subseteq places THEN places ELSE Columns(ts, places \union more)
Rows(ts, places) ==
    LET more == Enclosed(ts, After(ts, places, {"{"}), "expr", "}") \union After(ts, places, {",", ";"})
    IN  IF more \subseteq places THEN places ELSE Rows(ts, places \union more)

Declaration(ts, i) ==
    LET at     == Attributes(ts, {i})
        path   == Path(ts, After(ts, After(ts, at, {"import"}), Ids))
        table  == After(ts, After(ts, at, {"TABLE"}), Ids)
        body   == After(ts, Columns(ts, After(ts, table, {"{"})), {"}"})
        fn     == Enclosed(ts, After(ts, After(ts, After(ts, at, {"FN"}), Ids), {"("}), "param", ")")
        result == Types(ts, After(ts, fn, {"->"}))
    IN  path \union After(ts, After(ts, path, {"as"}), Ids)
          \union body \union HostTarget(ts, table \union result) \union Blocks(ts, result)
          \union After(ts, Rows(ts, After(ts, After(ts, body, {"="}), {"["})), {"]"})
          \union UNION {VarDecl(ts, j) : j \in at}
          \union One(ts, i, {";"})

Item(ts, i, nt) == CASE nt = "decl" -> Declaration(ts, i)
                     [] nt = "type" -> Type(ts, i)
                     [] nt = "param" -> Param(ts, i)
                     [] nt = "expr" -> Expr(ts, i)
                     [] nt = "block" -> Block(ts, i)
                     [] nt = "stmt" -> Statement(ts, i)
                     [] nt = "arg" -> One(ts, i, {"str", "int", "lit"})

RECURSIVE Program(_, _)
Program(ts, places) ==
    LET more == UNION {Item(ts, i, "decl") : i \in places}
    IN  IF more \subseteq places THEN places ELSE Program(ts, places \union more)

\* The file without its comments, up to its end.
Phrase(file) == SelectSeq(file, LAMBDA t : t \notin {"doc", "olddoc", "eof"})
Derived(ts) == Len(ts) + 1 \in Program(ts, {1})

Grammatical(file) == Derived(Phrase(file))

\* In the grammar when every `case` without a value is given one.
GrammaticalFilled(file) ==
    LET ts == Phrase(file)
        Empty(i) == ts[i] = "case" /\ Tok(ts, i + 1) = ":"
    IN  Derived(FlattenSeq([i \in DOMAIN ts |-> IF Empty(i) THEN <<"case", "int">> ELSE <<ts[i]>>]))
=============================================================================
