------------------------------- MODULE Parser -------------------------------
(****************************************************************************)
(* The parser of one source file: the cursor over the token vector, the     *)
(* synchronizers, and every rule function.  The rule functions call each    *)
(* other and have no effect but on the cursor and the diagnostics, so each  *)
(* is an operator from a parser state to the state in which it returns; the *)
(* loop of parseFile over the top-level declarations is the state machine.  *)
(*                                                                          *)
(* A parser state s is a record                                             *)
(*   p     the cursor, an index into toks, never on a doc comment           *)
(*   e     errors reported, saturating at MaxErrors, where canContinue ends *)
(*   v     what the last rule returned: "null", "ok", or "marked" for a     *)
(*         node with hasSyntaxError                                         *)
(*   call  whether that node is a call expression                           *)
(*   stall the tokens on which a loop turned over without moving            *)
(*   holes the node kinds returned unmarked without a part Sema expects     *)
(****************************************************************************)
EXTENDS Integers, Sequences, FiniteSets

CONSTANT MaxErrors    \* diagnostics after which canContinue() is false

ASSUME MaxErrorsAssumption == MaxErrors \in Nat \ {0}

VARIABLES
    toks,       \* the token vector; the last token is "eof"
    st,         \* the parser state at the top-level loop
    decls,      \* the declarations of the module so far
    turns,      \* how often the top-level loop has turned over
    phase       \* "parsing" or "done"

----------------------------------------------------------------------------
(* Vocabulary.  A token is its type; "id" is an identifier, "_" the         *)
(* identifier spelled so, "int" and "str" the literals that some rule       *)
(* singles out, "lit" a literal that may be an attribute's argument, "nil"  *)
(* one that may not, "prim" a primitive type, "+=" a compound assignment.   *)

Identifiers == {"id", "_"}
Literals == {"int", "str", "lit", "nil"}
Openers == {"(", "[", "{"}
Closers == {")", "]", "}"}
CloserOf == [t \in Openers |-> CASE t = "(" -> ")" [] t = "[" -> "]" [] t = "{" -> "}"]
SuspendKeywords == {"wait", "waitFrames", "waitUntil", "waitForEvent", "waitForRequest"}

StrongWithoutImport(first, second) == \/ first = "TABLE"
                                      \/ first = "FN" /\ second \in Identifiers

IsStrongStart(first, second) == \/ first \in {"TABLE", "import"}
                                \/ first = "FN" /\ second \in Identifiers
WeakStarts == {"let", "const", "@", "doc", "FN"}
DeclarationStarts == {"TABLE", "import"} \union WeakStarts

StatementStarts == {"if", "switch", "for", "while", "return", "break", "continue"}
                       \union SuspendKeywords
ExpressionStarts == Literals \union Identifiers \union {"(", "[", "-", "~", "not", "start"}
BlockBoundaries == StatementStarts \union ExpressionStarts
                       \union {"let", "const", "{", "TABLE", "FN", "@", ";", "}"}
ColumnStarts == Identifiers \union {"@"}

InfixPrec(t) == CASE t = "**" -> 6
                  [] t = "*"  -> 5
                  [] t \in {"+", "-"} -> 4
                  [] t = "==" -> 3
                  [] t = "and" -> 2
                  [] t = "or" -> 1
                  [] t \in {"??", ".."} -> 0
                  [] OTHER -> -1
UnaryPrec == 7

----------------------------------------------------------------------------
(* The token stream.                                                        *)

\* The first index from i on that does not hold a doc comment.
Visible(i) == CHOOSE j \in i .. i + Len(toks) :
                  /\ j > Len(toks) \/ toks[j] \notin {"doc", "olddoc"}
                  /\ \A k \in i .. j - 1 : k <= Len(toks) /\ toks[k] \in {"doc", "olddoc"}

TokenAt(i) == IF i <= Len(toks) THEN toks[i] ELSE "eof"
Peek(s) == TokenAt(s.p)
PeekAt(s, k) == TokenAt(s.p + k)        \* the raw neighbour: doc comments are not skipped
AtEnd(s) == s.p > Len(toks)             \* the "eof" token itself is not the end
Consume(s) == IF AtEnd(s) THEN s ELSE [s EXCEPT !.p = Visible(s.p + 1)]
Check(s, t) == IF t = "id" THEN Peek(s) \in Identifiers ELSE Peek(s) = t

----------------------------------------------------------------------------
(* Diagnostics and results.                                                 *)

CanContinue(s) == s.e < MaxErrors
Error(s) == [s EXCEPT !.e = IF @ < MaxErrors THEN @ + 1 ELSE @]
Return(s, v) == [s EXCEPT !.v = v, !.call = FALSE]
Node(s, marked) == Return(s, IF marked THEN "marked" ELSE "ok")
Fail(s) == Return(Error(s), "null")
Match(s, t) == IF Check(s, t) THEN Consume(s) ELSE s
Expect(s, t) == IF Check(s, t) THEN Consume(s) ELSE Error(s)

Placeholder(s) == IF s.v = "null" THEN Return(s, "marked") ELSE s
Marked(s) == s.v = "marked"

\* One turn of a loop, from s to r: if the loop goes on where it was, it stalls.
Turn(s, r) == IF r.p = s.p /\ CanContinue(r)
              THEN [r EXCEPT !.stall = @ \union {Peek(s)}] ELSE r

----------------------------------------------------------------------------
(* Synchronizers.                                                           *)

\* synchronizeUntil: skip to a token of stops outside the brackets opened on
\* the way, or to a closer of a bracket opened before, or to the end.
RECURSIVE Scan(_, _, _)
Scan(s, open, stops) ==
    LET t == Peek(s) IN
    IF AtEnd(s) THEN s
    ELSE IF t \in Closers
    THEN IF open # << >> /\ Head(open) = t THEN Scan(Consume(s), Tail(open), stops) ELSE s
    ELSE IF open = << >> /\ t \in stops THEN s
    ELSE Scan(Consume(s), IF t \in Openers THEN <<CloserOf[t]>> \o open ELSE open, stops)

SyncUntil(s, stops) == Scan(s, << >>, stops)

IsTopLevelRecoveryStop(s, depth) ==
    \/ Peek(s) = ";"
    \/ IsStrongStart(Peek(s), PeekAt(s, 1))
    \/ depth = 0 /\ Peek(s) \in WeakStarts

IsFunctionDeclRecoveryStop(s, depth) ==
    \/ Peek(s) \in {"{", "="}
    \/ IsStrongStart(Peek(s), PeekAt(s, 1))
    \/ depth = 0 /\ Peek(s) \in WeakStarts

\* synchronizeUntilDepth: the predicate is asked at every token that is not a
\* closer, whatever the depth.
RECURSIVE ScanDepth(_, _, _)
ScanDepth(s, open, fn) ==
    LET t == Peek(s)
        stop == IF fn THEN IsFunctionDeclRecoveryStop(s, Len(open))
                      ELSE IsTopLevelRecoveryStop(s, Len(open))
    IN  IF AtEnd(s) THEN s
        ELSE IF t \in Closers
        THEN IF open # << >> /\ Head(open) = t THEN ScanDepth(Consume(s), Tail(open), fn) ELSE s
        ELSE IF stop THEN s
        ELSE ScanDepth(Consume(s), IF t \in Openers THEN <<CloserOf[t]>> \o open ELSE open, fn)

SyncToDeclaration(s) == ScanDepth(s, << >>, FALSE)
SyncToFunctionBody(s) == ScanDepth(s, << >>, TRUE)

----------------------------------------------------------------------------
(* Comma-separated lists.  All seven loops have one shape; item names the   *)
(* rule of an element and close the token that ends the list.               *)

RECURSIVE Parse(_, _)

ParseAttributeArg(s) ==
    IF Peek(s) \in {"int", "str", "lit"} THEN Node(Consume(s), FALSE)
    ELSE Node(Consume(Error(s)), TRUE)

Element(s, item) ==
    CASE item = "expr"  -> Parse("required", s)
      [] item = "param" -> Parse("param", s)
      [] item = "arg"   -> ParseAttributeArg(s)
      [] item = "type"  -> LET r == Parse("type", s)
                           IN  IF r.v = "null" THEN Return(Error(r), "marked") ELSE r

RECURSIVE CommaList(_, _, _)
CommaList(s, item, close) ==
    IF AtEnd(s) \/ Check(s, close) \/ ~CanContinue(s) THEN s
    ELSE LET r == Element(s, item) IN
         IF Check(r, ",")
         THEN LET c == Consume(r)
              IN  IF Check(c, close) THEN Error(c)                  \* trailing comma
                  ELSE CommaList(Turn(s, c), item, close)
         ELSE IF Check(r, close) THEN r
         ELSE LET q == SyncUntil(Error(r), {",", close})
              IN  IF Check(q, ",") THEN CommaList(Turn(s, Consume(q)), item, close) ELSE q

\* The list after its opener, and its closer: parseArgList, parseParamList,
\* parseFunctionTypeParamList.
ParseArgList(s) == IF Check(s, ")") THEN Consume(s) ELSE Expect(CommaList(s, "expr", ")"), ")")
ParseParamList(s) == IF Check(s, ")") THEN Consume(s) ELSE Expect(CommaList(s, "param", ")"), ")")
ParseFunctionTypeParamList(s) ==
    IF Check(s, ")") THEN Consume(s) ELSE Expect(CommaList(s, "type", ")"), ")")

----------------------------------------------------------------------------
(* Types.                                                                   *)

ParsePrimitiveType(s) == Node(Consume(s), FALSE)

ParseNamedType(s) ==
    IF ~Check(s, "id") THEN Fail(s)
    ELSE LET r == Consume(s) IN
         IF ~Check(r, ".") THEN Node(r, FALSE)
         ELSE LET q == Consume(r)
              IN  IF Check(q, "id") THEN Node(Consume(q), FALSE) ELSE Node(Error(q), TRUE)

\* `[N, T]` or `[T]`; only the sized form is marked when it is not closed.
ParseArrayType(s) ==
    LET body    == Consume(s)
        sized   == Check(body, "int")
        comma   == Match(body, "int")
        element == Element(IF sized THEN Expect(comma, ",") ELSE body, "type")
        closed  == Check(element, "]")
    IN  Node(Expect(element, "]"),
             Marked(element) \/ (sized /\ (~Check(comma, ",") \/ ~closed)))

ParseRowRefType(s) ==
    LET r == ParseNamedType(Consume(s))
    IN  IF r.v = "null" THEN Node(Error(r), TRUE) ELSE r

ParseFunctionType(s) ==
    LET r == ParseFunctionTypeParamList(Consume(s)) IN
    IF ~Check(r, "->") THEN Node(Error(r), TRUE)
    ELSE LET ret == Parse("type", Consume(r))
         IN  IF ret.v = "null" THEN Node(Error(ret), TRUE) ELSE Node(ret, Marked(ret))

ParseBaseType(s) ==
    CASE Peek(s) = "prim" -> ParsePrimitiveType(s)
      [] Check(s, "id")   -> ParseNamedType(s)
      [] Peek(s) = "&"    -> ParseRowRefType(s)
      [] Peek(s) = "["    -> ParseArrayType(s)
      [] Peek(s) = "("    -> ParseFunctionType(s)
      [] OTHER            -> Fail(s)

\* A `?` wraps the type in a new node, which does not inherit the mark.
ParseType(s) ==
    LET r == ParseBaseType(s)
    IN  IF r.v # "null" /\ Check(r, "?") THEN Node(Consume(r), FALSE) ELSE r

----------------------------------------------------------------------------
(* Expressions.                                                             *)

RECURSIVE ParsePrattExpr(_, _)

ParseExpr(s) == IF AtEnd(s) THEN Fail(s) ELSE ParsePrattExpr(s, -1)

ParseRequiredExpr(s) == Placeholder(ParseExpr(s))

ParseUnaryExpr(s) ==
    LET r == ParsePrattExpr(s, UnaryPrec)
    IN  IF r.v = "null" THEN Node(Error(r), TRUE) ELSE Node(r, Marked(r))

ParseLiteralExpr(s) == Node(Consume(s), FALSE)
ParseIdentifierExpr(s) == Node(Consume(s), FALSE)

ParseArrayLiteralExpr(s) ==
    LET body == Consume(s)
    IN  IF Check(body, "]") THEN Node(Consume(body), FALSE)
        ELSE Node(Expect(CommaList(body, "expr", "]"), "]"), FALSE)

ParenNotClosed(s) == LET r == Parse("required", Consume(s)) IN Node(Match(r, ")"), Marked(r))

ParseParenExpr(s) ==
    LET r == Parse("required", Consume(s)) IN Node(Expect(r, ")"), Marked(r))

\* Looks past the matching `)`; other brackets are not counted.
RECURSIVE AfterParens(_, _)
AfterParens(s, depth) ==
    IF AtEnd(s) \/ (depth = 0) THEN s
    ELSE AfterParens(Consume(s), CASE Peek(s) = "(" -> depth + 1
                                   [] Peek(s) = ")" -> depth - 1
                                   [] OTHER -> depth)
LooksLikeLambda(s) == LET r == AfterParens(Consume(s), 1) IN ~AtEnd(r) /\ Check(r, "->")

ParseLambdaExpr(s) ==
    LET r == ParseParamList(Consume(s)) IN
    IF ~Check(r, "->") THEN Node(Error(r), TRUE)
    ELSE LET body == Parse("required", Consume(r)) IN Node(body, Marked(body))

ParseStartExpr(s) ==
    LET r == Parse("required", Consume(s)) IN
    IF r.call THEN Node(r, FALSE)
    ELSE Node(IF Marked(r) THEN r ELSE Error(r), TRUE)

ParsePrimaryExpr(s) ==
    CASE Peek(s) \in Literals -> ParseLiteralExpr(s)
      [] Peek(s) = "["        -> ParseArrayLiteralExpr(s)
      [] Check(s, "id")       -> ParseIdentifierExpr(s)
      [] Peek(s) = "("        -> IF LooksLikeLambda(s) THEN ParseLambdaExpr(s) ELSE ParseParenExpr(s)
      [] Peek(s) = "start"    -> ParseStartExpr(s)
      [] OTHER                -> Fail(s)

ParsePrefixExpr(s) ==
    IF Peek(s) \in {"-", "~", "not"} THEN ParseUnaryExpr(Consume(s)) ELSE ParsePrimaryExpr(s)

\* A call, an index or a field access on the expression just read.
ParseCallExpr(s) == [Node(ParseArgList(Consume(s)), FALSE) EXCEPT !.call = TRUE]
ParseIndexExpr(s) == Node(Expect(Parse("required", Consume(s)), "]"), FALSE)
ParseFieldAccessExpr(s) ==
    LET r == Consume(s) IN IF Check(r, "id") THEN Node(Consume(r), FALSE) ELSE Fail(r)

ParsePostfixExpr(s) ==
    CASE Peek(s) = "(" -> ParseCallExpr(s)
      [] Peek(s) = "[" -> ParseIndexExpr(s)
      [] Peek(s) = "." -> ParseFieldAccessExpr(s)

\* The operator is consumed.  A range replaces a missing bound by a placeholder,
\* any other operator gives up.
Bound(r) == IF r.v = "null" THEN Node(Error(r), TRUE) ELSE r
ParseInfixBinary(s, op) ==
    IF op = ".."
    THEN LET hi == Bound(ParsePrattExpr(s, InfixPrec(op) + 1))
         IN  Node(IF Check(hi, "..")
                  THEN Bound(ParsePrattExpr(Consume(hi), InfixPrec(op) + 1)) ELSE hi, FALSE)
    ELSE LET rhs == ParsePrattExpr(s, IF op = "**" THEN InfixPrec(op) ELSE InfixPrec(op) + 1)
         IN  IF rhs.v = "null" THEN Fail(rhs) ELSE Node(rhs, FALSE)

RECURSIVE Continue(_, _)
Continue(s, minPrec) ==
    IF s.v = "null" \/ AtEnd(s) THEN s
    ELSE IF Peek(s) \in {"(", "[", "."} THEN Continue(ParsePostfixExpr(s), minPrec)
    ELSE IF InfixPrec(Peek(s)) < 0 \/ InfixPrec(Peek(s)) < minPrec THEN s
    ELSE Continue(ParseInfixBinary(Consume(s), Peek(s)), minPrec)

ParsePrattExpr(s, minPrec) == Continue(ParsePrefixExpr(s), minPrec)

----------------------------------------------------------------------------
(* Attributes.                                                              *)

ParseAttribute(s) ==
    LET name == Consume(s)
        args == Consume(Consume(name))
        list == CommaList(args, "arg", ")")
    IN  IF ~Check(name, "id") THEN Node(Error(name), TRUE)
        ELSE IF ~Check(Consume(name), "(") THEN Node(Consume(name), FALSE)
        ELSE IF Check(args, ")") THEN Node(Consume(args), FALSE)
        ELSE Node(Expect(list, ")"), ~Check(list, ")"))

RECURSIVE ParseAttributes(_)
ParseAttributes(s) ==
    IF AtEnd(s) \/ ~Check(s, "@") \/ ~CanContinue(s) THEN s
    ELSE LET r == ParseAttribute(s) IN ParseAttributes(Turn(s, r))

----------------------------------------------------------------------------
(* Declarations.                                                            *)

\* `a.b.c`; "null" when there is no first part.
RECURSIVE ImportTail(_)
ImportTail(s) == IF ~Check(s, ".") THEN s
                 ELSE LET r == Consume(s)
                      IN  IF Check(r, "id") THEN ImportTail(Consume(r)) ELSE Error(r)
ParseImportPath(s) == IF Check(s, "id") THEN Node(ImportTail(Consume(s)), FALSE) ELSE Return(s, "null")

ParseImportDecl(s) ==
    LET path == ParseImportPath(Consume(s)) IN
    IF path.v = "null" THEN Fail(path)
    ELSE IF ~Check(path, "as") THEN Node(path, FALSE)
    ELSE LET r == Consume(path) IN IF Check(r, "id") THEN Node(Consume(r), FALSE) ELSE Fail(r)

\* `[const] name: type` and `[const] name: ...type`.
TypeAfterColon(s) == Element(s, "type")
ParseParam(s) ==
    LET name  == Match(s, "const")
        colon == Consume(name)
    IN  IF ~Check(name, "id") THEN Fail(name)
        ELSE IF ~Check(colon, ":") THEN Node(Error(colon), TRUE)
        ELSE LET r == TypeAfterColon(Match(Consume(colon), "...")) IN Node(r, Marked(r))

ParseColumnDecl(s) ==
    LET name  == ParseAttributes(s)
        colon == Consume(name)
    IN  IF ~Check(name, "id") THEN Fail(name)
        ELSE IF ~Check(colon, ":") THEN Node(Error(colon), TRUE)
        ELSE LET r == TypeAfterColon(Consume(colon)) IN Node(r, Marked(r))

\* The columns of a table and the rows of its initializer are juxtaposed; `;`
\* and `,` between them are free.
ParseRow(s) ==
    LET body == Consume(s)
    IN  IF ~Check(s, "{") THEN Fail(s)
        ELSE IF Check(body, "}") THEN Node(Consume(body), FALSE)
        ELSE Node(Expect(CommaList(body, "expr", "}"), "}"), FALSE)

RECURSIVE TableItems(_, _, _, _)
TableItems(s, starts, close, columns) ==
    LET sync(r) == SyncUntil(r, starts \union {close, ";"})
        again(r) == TableItems(Turn(s, r), starts, close, columns)
    IN  IF AtEnd(s) \/ Check(s, close) \/ ~CanContinue(s) THEN s
        ELSE IF Peek(s) \in {";", ","} THEN again(Consume(s))
        ELSE IF Peek(s) \notin starts
        THEN LET r == sync(Error(s))
             IN  IF Check(r, close) \/ AtEnd(r) THEN r ELSE again(r)
        ELSE LET r == Parse(IF columns THEN "column" ELSE "row", s)
             IN  IF r.v # "null" \/ r.p # s.p THEN again(r)
                 ELSE LET q == sync(r) IN IF Check(q, close) \/ AtEnd(q) THEN q ELSE again(q)

ParseTableBody(s) == Expect(TableItems(Consume(s), ColumnStarts, "}", TRUE), "}")
ParseTableInit(s) ==
    LET r == Consume(s)
    IN  IF ~Check(r, "[") THEN Error(r)
        ELSE Expect(TableItems(Consume(r), {"{"}, "]", FALSE), "]")

\* `host("name")`; v tells whether it was read.
ParseHostTarget(s) ==
    LET lparen == Consume(s)
        name   == Consume(lparen)
        rparen == Consume(name)
    IN  CASE ~Check(s, "host")    -> Fail(s)
          [] ~Check(lparen, "(")  -> Fail(lparen)
          [] ~Check(name, "str")  -> Fail(name)
          [] ~Check(rparen, ")")  -> Fail(rparen)
          [] OTHER                -> Node(Consume(rparen), FALSE)

ParseTableDecl(s) ==
    LET name == Consume(s)
        tail == Consume(name)
    IN  IF ~Check(name, "id") THEN Fail(name)
        ELSE IF Check(tail, "{")
        THEN LET body == ParseTableBody(tail)
             IN  Node(IF Check(body, "=") THEN ParseTableInit(body) ELSE body, FALSE)
        ELSE IF Check(tail, "=")
        THEN LET r == ParseHostTarget(Consume(tail)) IN Node(r, r.v = "null")
        ELSE Node(SyncToDeclaration(Error(tail)), TRUE)

ParseFnDecl(s) ==
    LET name   == Consume(s)
        lparen == Consume(name)
        params == IF Check(lparen, "(") THEN ParseParamList(Consume(lparen))
                  ELSE SyncToFunctionBody(Error(lparen))
        type   == Parse("type", Consume(params))
        ret    == IF ~Check(params, "->") THEN Error(params)
                  ELSE IF type.v = "null" THEN Error(type) ELSE type
        body   == Parse("block", ret)
        target == ParseHostTarget(Consume(ret))
        broken == ~Check(lparen, "(") \/ ~Check(params, "->") \/ type.v = "null"
    IN  IF ~Check(name, "id") THEN Fail(name)
        ELSE IF Check(ret, "{") THEN Node(body, broken \/ Marked(body))
        ELSE IF Check(ret, "=") THEN Node(target, broken \/ target.v = "null")
        ELSE Node(Error(ret), TRUE)

ParseVarDecl(s) ==
    LET name  == Consume(s)
        colon == Consume(name)
        type  == IF Check(colon, ":") THEN TypeAfterColon(Consume(colon)) ELSE Node(Error(colon), TRUE)
        init  == Parse("required", Consume(type))
    IN  IF ~Check(name, "id") THEN Fail(name)
        ELSE IF ~Check(type, "=") THEN Node(Error(type), TRUE)
        ELSE Node(init, Marked(type) \/ Marked(init))

ParseDecl(s) ==
    LET r == ParseAttributes(s)
        d == CASE Peek(r) = "import" -> ParseImportDecl(r)
               [] Peek(r) = "TABLE"  -> ParseTableDecl(r)
               [] Peek(r) = "FN"     -> ParseFnDecl(r)
               [] Peek(r) \in {"let", "const"} -> ParseVarDecl(r)
               [] OTHER -> Return(SyncToDeclaration(Error(r)), "null")
    IN  Placeholder(d)

----------------------------------------------------------------------------
(* Statements.                                                              *)

ParseVarDeclStmt(s) == ParseVarDecl(s)

ParseAssignOrExprStmt(s) ==
    LET lhs == Parse("expr", s)
        rhs == Parse("required", Consume(lhs))
    IN  IF lhs.v = "null" THEN lhs
        ELSE IF Peek(lhs) \in {"=", "+="} THEN Node(rhs, Marked(lhs) \/ Marked(rhs))
        ELSE Node(lhs, Marked(lhs))

ParseReturnStmt(s) ==
    LET r == Consume(s)
    IN  IF Peek(r) \in ExpressionStarts
        THEN LET value == Parse("required", r) IN Node(value, Marked(value))
        ELSE Node(r, FALSE)

\* An identifier after the keyword is the label, whatever line it is on.
ParseBreakStmt(s) == Node(Match(Consume(s), "id"), FALSE)
ParseContinueStmt(s) == Node(Match(Consume(s), "id"), FALSE)

\* The block a statement needs, or an error and a scan to a place to resume.
Body(s, stops) == IF Check(s, "{") THEN Parse("block", s)
                  ELSE Return(SyncUntil(Error(s), stops), "marked")

ParseIfStmt(s) ==
    LET cond  == Parse("required", Consume(s))
        then  == Body(cond, {"else"} \union BlockBoundaries)
        other == Consume(then)
        else  == CASE Check(other, "if") -> Parse("if", other)
                   [] Check(other, "{")  -> Parse("block", other)
                   [] OTHER              -> Node(Error(other), TRUE)
    IN  IF Check(then, "else") THEN Node(else, Marked(then) \/ Marked(else))
        ELSE Node(then, Marked(then))

ParseSwitchCase(s) ==
    LET values == CommaList(Consume(s), "expr", ":")
        body   == Body(Expect(values, ":"), {"case", "default", "}"})
    IN  Node(body, ~Check(values, ":") \/ Marked(body))

\* One turn per clause; seen is "none", "ok" or "marked", the default so far.
ParseDefault(s) ==
    LET r == Expect(s, ":")
    IN  IF Check(r, "{") THEN Parse("block", r) ELSE Node(Error(r), TRUE)
DiscardDefault(s) ==
    LET r == Match(Error(s), ":")
    IN  IF Check(s, ":") /\ Check(r, "{") THEN Parse("block", r) ELSE r

RECURSIVE SwitchClauses(_, _)
SwitchClauses(s, seen) ==
    LET again(r, d) == SwitchClauses(Turn(s, r), d)
        clause == ParseDefault(Consume(s))
    IN  IF AtEnd(s) \/ Check(s, "}") \/ ~CanContinue(s) THEN Return(s, seen)
        ELSE CASE Peek(s) \in {";", ","} -> again(Consume(s), seen)
               [] Check(s, "case") -> again(ParseSwitchCase(s), seen)
               [] Check(s, "default") /\ seen = "none" -> again(clause, clause.v)
               [] Check(s, "default") /\ seen # "none" -> again(DiscardDefault(Consume(s)), seen)
               [] OTHER -> again(SyncUntil(Error(s), {"case", "default", "}"}), seen)

ParseSwitchStmt(s) ==
    LET subject == Parse("required", Consume(s))
        clauses == SwitchClauses(Consume(subject), "none")
        closed  == Expect(clauses, "}")
    IN  IF ~Check(subject, "{") THEN Fail(subject)
        ELSE IF clauses.v = "none" THEN Node(Error(closed), TRUE)
        ELSE Node(closed, clauses.v = "marked")

\* The dispatch hands over on `while` and `for` only: the label both rules would
\* read before their keyword is never there.
ParseWhileStmt(s) ==
    LET cond == Parse("required", Consume(s))
        body == Body(cond, BlockBoundaries)
    IN  Node(body, Marked(body))

ParseForBinding(s) ==
    LET colon == Consume(s)
    IN  CASE Peek(s) = "_"        -> Return(Consume(s), "null")
          [] ~Check(s, "id")      -> Fail(s)
          [] ~Check(colon, ":")   -> Node(Error(colon), TRUE)
          [] OTHER -> LET r == TypeAfterColon(Consume(colon)) IN Node(r, Marked(r))

\* A missing iterable leaves the node unmarked with a null child.
ParseForStmt(s) ==
    LET first    == Parse("binding", Consume(s))
        lost     == first.v = "null" /\ Peek(first) \notin {",", "in"}
        comma    == IF lost THEN SyncUntil(first, {"in"} \union BlockBoundaries) ELSE first
        in       == IF Check(comma, ",") THEN Parse("binding", Consume(comma)) ELSE comma
        over     == IF Check(in, "in") THEN Parse("expr", Consume(in))
                    ELSE SyncUntil(Error(in), BlockBoundaries)
        body     == Body(over, BlockBoundaries)
        marked   == ~Check(in, "in") \/ Marked(over) \/ ~Check(over, "{")
        hole     == Check(in, "in") /\ over.v = "null" /\ ~marked
    IN  [Node(body, marked) EXCEPT !.holes = IF hole THEN @ \union {"for"} ELSE @]

\* `wait(e)` and the like; `waitUntil(f, e)`.
ReadSuspendArg(s) ==
    IF ~Check(s, "(") THEN Node(Error(s), TRUE)
    ELSE LET r == Parse("required", Consume(s))
         IN  Node(Expect(r, ")"), Marked(r) \/ ~Check(r, ")"))

ParseWaitUntilStmt(s) ==
    LET predicate == Parse("required", Consume(s))
        arg == IF Check(predicate, ",") THEN Parse("required", Consume(predicate))
               ELSE Error(predicate)
    IN  IF ~Check(s, "(") THEN Node(Error(s), TRUE)
        ELSE Node(Expect(arg, ")"), ~Check(predicate, ",") \/ ~Check(arg, ")"))

ParseSuspendStmt(s) ==
    IF Peek(s) = "waitUntil" THEN ParseWaitUntilStmt(Consume(s)) ELSE ReadSuspendArg(Consume(s))

AttributeKept(s) == Return(Error(s), "null")

RejectAttribute(s) == Return(Consume(Error(s)), "null")

\* TABLE and FN are parsed and dropped, `@` and anything unexpected consumed.
ParseStmt(s) ==
    LET t == Peek(s) IN
    CASE AtEnd(s) \/ ~CanContinue(s) -> Return(s, "null")
      [] t = ";" -> Return(Consume(s), "null")
      [] t \in {"let", "const"} -> ParseVarDeclStmt(s)
      [] t = "{" -> Parse("block", s)
      [] t = "if" -> Parse("if", s)
      [] t = "while" -> ParseWhileStmt(s)
      [] t = "for" -> ParseForStmt(s)
      [] t = "switch" -> ParseSwitchStmt(s)
      [] t = "return" -> ParseReturnStmt(s)
      [] t = "break" -> ParseBreakStmt(s)
      [] t = "continue" -> ParseContinueStmt(s)
      [] t \in SuspendKeywords -> ParseSuspendStmt(s)
      [] t = "TABLE" -> Return(ParseTableDecl(Error(s)), "null")
      [] t = "FN" -> Return(ParseFnDecl(Error(s)), "null")
      [] t = "@" -> RejectAttribute(s)
      [] t \in ExpressionStarts -> ParseAssignOrExprStmt(s)
      [] OTHER -> Return(Consume(Error(s)), "null")

RECURSIVE Statements(_)
Statements(s) ==
    IF AtEnd(s) \/ Check(s, "}") \/ ~CanContinue(s) THEN s
    ELSE IF Check(s, ";") THEN Statements(Turn(s, Consume(s)))
    ELSE LET r == Parse("stmt", s)
             q == IF r.v = "null" /\ r.p = s.p THEN SyncUntil(r, BlockBoundaries) ELSE r
         IN  IF q # r /\ (Check(q, "}") \/ AtEnd(q)) THEN q ELSE Statements(Turn(s, q))

\* The node is never marked, closed or not.
ParseBlock(s) == Node(Expect(Statements(Consume(s)), "}"), FALSE)

\* The rules that call each other.
Parse(rule, s) ==
    CASE rule = "decl"  -> ParseDecl(s)
      [] rule = "type"  -> ParseType(s)
      [] rule = "param" -> ParseParam(s)
      [] rule = "column" -> ParseColumnDecl(s)
      [] rule = "row"   -> ParseRow(s)
      [] rule = "expr"  -> ParseExpr(s)
      [] rule = "required" -> ParseRequiredExpr(s)
      [] rule = "block" -> ParseBlock(s)
      [] rule = "stmt"  -> ParseStmt(s)
      [] rule = "if"    -> ParseIfStmt(s)
      [] rule = "binding" -> ParseForBinding(s)

----------------------------------------------------------------------------
(* parseFile: the loop over the top-level declarations.                     *)

pvars == <<toks, st, decls, turns, phase>>

\* harvestDocComment looks one raw token back and takes a comment that starts on
\* the declaration's line or the line above; "olddoc" starts further up.
HarvestDocComment(s) == s.p > 1 /\ toks[s.p - 1] = "doc"

InitialState == [p |-> Visible(1), e |-> 0, v |-> "null", call |-> FALSE,
                 stall |-> {}, holes |-> {}]

Looping == phase = "parsing" /\ ~AtEnd(st) /\ CanContinue(st)

SkipSemicolon ==
    /\ Looping
    /\ Check(st, ";")
    /\ st' = Consume(st)
    /\ turns' = turns + 1
    /\ UNCHANGED <<toks, decls, phase>>

\* No declaration starts here.  The end of the file comes here too: its token is
\* still in the stream.
Resynchronize ==
    /\ Looping
    /\ Peek(st) \notin DeclarationStarts \union {";"}
    /\ st' = LET r == SyncToDeclaration(Error(st)) IN IF AtEnd(r) THEN r ELSE Turn(st, r)
    /\ turns' = turns + 1
    /\ UNCHANGED <<toks, decls, phase>>

Declare ==
    /\ Looping
    /\ Peek(st) \in DeclarationStarts
    /\ \E r \in {Parse("decl", st)} :
       /\ st' = Turn(st, r)
       /\ decls' = Append(decls, [at |-> st.p, v |-> r.v, doc |-> HarvestDocComment(st)])
    /\ turns' = turns + 1
    /\ UNCHANGED <<toks, phase>>

Finish ==
    /\ phase = "parsing"
    /\ AtEnd(st) \/ ~CanContinue(st)
    /\ phase' = "done"
    /\ UNCHANGED <<toks, st, decls, turns>>

ParseNext == SkipSemicolon \/ Resynchronize \/ Declare \/ Finish

\* module->hasErrors
HasErrors == st.e > 0
=============================================================================
