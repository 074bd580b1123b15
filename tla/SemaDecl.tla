------------------------------ MODULE SemaDecl ------------------------------
(* Top-level declarations, and the sequence rules.  *)
EXTENDS SemaStmt

(* Pass 1.  An import whose path no one has registered is left for pass 2.  *)
registerName(d, c) ==
    CASE d.k = "import" -> IF d.path \in DOMAIN c.byPath
                           THEN addImportAlias(d.n, c.byPath[d.path], c) ELSE c
      [] d.k = "table" -> insertTable(d, c)
      [] d.k = "fn" -> insertFunction(d, c)
      [] d.k = "var" -> insertVariable(d, c)

----------------------------------------------------------------------------
(* Pass 2 *)

resolveImportDecl(d, c) == IF d.path \in DOMAIN c.byPath THEN c ELSE Err(c, "Name_UndefinedModule")

(* A column keeps its resolved type, or the unknown one; its attributes are *)
(* not looked at.                                                           *)
resolveColumnDecl(col, c) ==
    LET t == resolveType(TypeOf(col, c), c)
    IN  SetType(col, IF Missing(t.ty) THEN Unknown ELSE t.ty, t.c)

resolveTableDecl(t, c) ==
    checkTableConstraints(t, FoldLeft(LAMBDA acc, col : resolveColumnDecl(col, acc),
                                      validateAllAttributes(t, c), t.cols))

(* A parameter is resolved in pass 2, where no scope is open, and in pass 3 *)
(* again, from the type the first time left; a variadic one is wrapped      *)
(* both times.                                                              *)
resolveParam(p, c) ==
    LET in == IF p.n = "" THEN c ELSE insertLocal(p, c)
        t == resolveType(TypeOf(p, in), in)
        ty == IF p.variadic THEN Arr("dynamic", 0, t.ty) ELSE t.ty
        typed == SetType(p, ty, t.c)
    IN  IF Missing(t.ty) THEN SetType(p, Unknown, t.c)
        ELSE IF p.const THEN validateConstType(ty, typed) ELSE typed

resolveParams(fn, c) == FoldLeft(LAMBDA acc, p : resolveParam(p, acc), c, fn.ps)

ReturnsValue(fn, c) == TypeOf(fn, c) \notin {None, Unit}

(* checkSequenceSignature: a sequence returns nothing and is compiled.  *)
checkSequenceSignature(fn, c) ==
    IF ~IsSequence(fn, c) THEN c
    ELSE Check(fn.host, "Seq_SequenceHasHostBody",
               Check(ReturnsValue(fn, c), "Seq_SequenceReturnsValue", c))

resolveFnDecl(fn, c) ==
    LET params == resolveParams(fn, validateAllAttributes(fn, c))
        ret == resolveType(fn.ty, params)
        typed == IF fn.ty = None THEN params
                 ELSE SetType(fn, IF Missing(ret.ty) THEN Unknown ELSE ret.ty, ret.c)
    IN  checkSequenceSignature(fn, typed)

resolveDeclaration(d, c) ==
    CASE d.k = "import" -> resolveImportDecl(d, c)
      [] d.k = "table" -> resolveTableDecl(d, c)
      [] d.k = "fn" -> resolveFnDecl(d, c)
      [] d.k = "var" -> resolveVarDecl(d, c)

----------------------------------------------------------------------------
(* Pass 3 *)

RECURSIVE bodyContainsSuspendPoint(_)
bodyContainsSuspendPoint(s) ==
    CASE s.k = "wait" -> TRUE
      [] s.k = "block" -> \E i \in DOMAIN s.ss : bodyContainsSuspendPoint(s.ss[i])
      [] s.k = "if" -> \/ bodyContainsSuspendPoint(s.then)
                       \/ s.else # None /\ bodyContainsSuspendPoint(s.else)
      [] s.k = "switch" -> \E ss \in {s.cases[i].body : i \in DOMAIN s.cases} \union ToSet(s.default) :
                              \E i \in DOMAIN ss : bodyContainsSuspendPoint(ss[i])
      [] s.k \in {"while", "for"} -> bodyContainsSuspendPoint(s.body)
      [] OTHER -> FALSE

Block(ss) == [k |-> "block", ss |-> ss]

checkSequenceBody(fn, c) ==
    IF IsSequence(fn, c) /\ ~bodyContainsSuspendPoint(Block(fn.body))
    THEN Warn(c, "Warn_SequenceNeverSuspends") ELSE c

resolveFnBody(fn, c) ==
    LET kind == IF IsSequence(fn, c) THEN "SequenceBody" ELSE "FuncBody"
        open == pushFunction(kind, TypeOf(fn, c), pushScope(c))
        body == resolveStmt(Block(fn.body), resolveParams(fn, open))
        left == Check(ReturnsValue(fn, body.c) /\ ~body.tr, "Type_MissingReturn", body.c)
    IN  popScope(pop(checkSequenceBody(fn, left)))

(* A host-bound function has no body to resolve.  *)
resolveBody(d, c) == IF d.k = "fn" /\ ~d.host THEN resolveFnBody(d, c) ELSE c
=============================================================================
