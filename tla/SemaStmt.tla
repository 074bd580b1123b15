------------------------------ MODULE SemaStmt ------------------------------
(****************************************************************************)
(* Statements.  A resolver gives [tr, c]: whether the statement always      *)
(* leaves the block it stands in, and the checker state after it.           *)
(****************************************************************************)
EXTENDS SemaTable

Outcome(tr, c) == [tr |-> tr, c |-> c]
Stays(c) == Outcome(FALSE, c)

(* A variable at module level must start at a constant.  Its initializer    *)
(* has been resolved by then.                                               *)
resolveVarDecl(d, c) ==
    LET attrs == validateAllAttributes(d, c)
        t == resolveType(d.ty, attrs)
        typed == SetType(d, IF Missing(t.ty) THEN Unknown ELSE t.ty, t.c)
        const == IF d.const THEN validateConstType(t.ty, typed) ELSE typed
        init == Resolve(d.init, t.ty, const)
        v == EvaluateIn(d.init, TRUE, init.c)
    IN  IF Missing(t.ty) \/ const # typed THEN const
        ELSE IF Bad(init) \/ ~d.top THEN init.c
        ELSE IF v.x.k = "error" THEN v.c
        ELSE IF ~isEvaluated(v.x) THEN Err(v.c, "Type_TopLevelInitNotConstant")
        ELSE [v.c EXCEPT !.consts = With(@, d.id, v.x)]

RECURSIVE resolveStmt(_, _)

(* The statements up to the first that always leaves; the rest is not       *)
(* looked at.                                                               *)
Statements(ss, c) ==
    LET Step(acc, s) == IF acc.done THEN acc
                        ELSE IF acc.tr THEN [acc EXCEPT !.done = TRUE,
                                                        !.c = Warn(@, "Warn_UnreachableCode")]
                        ELSE LET r == resolveStmt(s, acc.c)
                             IN  [done |-> FALSE, tr |-> r.tr, c |-> r.c]
        end == FoldLeft(Step, [done |-> FALSE, tr |-> FALSE, c |-> c], ss)
    IN  Outcome(end.tr, end.c)

(* The inverse narrowing a block applies is the one its own, new frame      *)
(* holds, which is none.                                                    *)
resolveBlock(ss, c) ==
    LET entered == push("Block", c)
        inverse == getPendingInverse(entered)
        open == pushScope(IF inverse.has THEN pushNarrowing(inverse.m, setPendingInverse(NoNarrowing, entered))
                          ELSE entered)
        body == Statements(ss, open)
        closed == popScope(body.c)
    IN  Outcome(body.tr, pop(IF inverse.has THEN popNarrowing(closed) ELSE closed))

Under(m, s, c) == LET r == resolveStmt(s, pushNarrowing(m, c)) IN Outcome(r.tr, popNarrowing(r.c))

(* else is None or a statement; a branch under narrowing sees the names     *)
(* with the type inside their nullable one.                                 *)
resolveIfStmt(s, c) ==
    LET cond == Resolve(s.cond, Bool, ScopedIfCondition(push("IfStmt", c)))
        info == getPendingNarrowing(cond.c)
        after == setIfConditionCtx(FALSE, cond.c)
        then == IF info.has /\ ~info.eq THEN Under(info.m, s.then, after) ELSE resolveStmt(s.then, after)
        else == IF s.else = None THEN Stays(then.c)
                ELSE IF info.has /\ info.eq /\ s.else.k # "if" THEN Under(info.m, s.else, then.c)
                ELSE resolveStmt(s.else, then.c)
        left == IF s.else = None /\ then.tr /\ info.has /\ info.eq
                THEN setPendingInverse(info, else.c) ELSE else.c
    IN  IF Bad(cond) THEN Stays(pop(setIfConditionCtx(FALSE, cond.c)))
        ELSE Outcome(then.tr /\ else.tr, pop(left))

(* A case is [values, body]; the case values must be constants.  *)
SwitchValue(v, subject, c) ==
    LET r == Resolve(v, subject, c)
        x == EvaluateIn(v, TRUE, r.c)
    IN  IF Bad(r) THEN r.c
        ELSE IF isEvaluated(x.x) THEN x.c ELSE Err(x.c, "Type_Mismatch")

RowNamed(v, c) == v.k = "field" /\ v.obj.k = "id" /\ IsConst(v, c)
checkFixedTableSwitchCoverage(s, subject, c) ==
    LET t == TableOf(subject.t, c)
        covered == {v.f : v \in {v \in UNION {ToSet(s.cases[i].values) : i \in DOMAIN s.cases} :
                                    RowNamed(v, c)}}
    IN  IF /\ hasFixedRowSet(t, c) /\ ~t.host
           /\ \E i \in DOMAIN t.rows : RowName(t.rows[i]) \notin covered \union {""}
        THEN Warn(c, "Warn_SwitchMissingMember") ELSE c

(* default is << >> or the sequence of one block.  A switch that has no     *)
(* case and no default leaves, by the loop that finds no case that stays.   *)
resolveSwitchStmt(s, c) ==
    LET subject == Resolve(s.subject, None, c)
        Case(acc, cs) ==
            LET values == FoldLeft(LAMBDA a, v : SwitchValue(v, subject.ty, a), acc.c, cs.values)
                body == resolveBlock(cs.body, values)
            IN  Outcome(acc.tr /\ body.tr, body.c)
        cases == FoldLeft(Case, Outcome(TRUE, push("SwitchBody", subject.c)), s.cases)
        all == IF s.default = << >> THEN cases
               ELSE LET body == resolveBlock(s.default[1], cases.c) IN Outcome(cases.tr /\ body.tr, body.c)
        covered == IF isRowRef(subject.ty) THEN checkFixedTableSwitchCoverage(s, subject.ty, all.c)
                   ELSE all.c
    IN  IF Bad(subject) \/ ~(\/ isRowRef(subject.ty) \/ isInteger(subject.ty)
                             \/ subject.ty \in {Bool, Char, String})
        THEN Stays(Err(subject.c, "Type_InvalidSwitchType"))
        ELSE Outcome(all.tr, pop(covered))

(* A condition that folds to false leaves the body unresolved.  *)
resolveWhileStmt(s, c) ==
    LET cond == Resolve(s.cond, Bool, push("LoopBody", c))
        x == EvaluateIn(s.cond, TRUE, cond.c)
    IN  IF Bad(cond) THEN Stays(pop(cond.c))
        ELSE IF x.x = BoolConst(FALSE) THEN Stays(pop(Warn(x.c, "Warn_UnreachableCode")))
        ELSE Stays(pop(resolveStmt(s.body, x.c).c))

----------------------------------------------------------------------------
(* The names a for binds: vars has one or two declarations, with name ""    *)
(* for one that is discarded.  Bind declares one whose type is as wanted.   *)
Bind(d, Suits(_), insertAnyway, c) ==
    LET t == resolveType(d.ty, c)
        declared == insertLocal(d, SetType(d, t.ty, t.c))
    IN  IF d.n = "" THEN c
        ELSE IF Missing(t.ty) THEN SetType(d, Unknown, t.c)
        ELSE IF Suits(t.ty) THEN declared
        ELSE Err(IF insertAnyway THEN declared ELSE t.c, "Type_Mismatch")

resolveRangeForBindings(vars, bound, c) ==
    IF Len(vars) = 2 THEN Err(c, "Type_Mismatch")
    ELSE Bind(vars[1], LAMBDA t : typesEqual(t, bound), TRUE, c)

(* Over the rows of a table and the elements of an array alike.  *)
resolveElementForBindings(vars, element, c) ==
    IF Len(vars) = 1 THEN Bind(vars[1], LAMBDA t : typesEqual(t, element), FALSE, c)
    ELSE Bind(vars[2], LAMBDA t : typesEqual(t, element), FALSE,
              Bind(vars[1], isInteger, TRUE, c))

(* A row reference is iterated as its table is.  *)
resolveForStmt(s, c) ==
    LET it == Resolve(s.it, None, pushScope(push("LoopBody", c)))
        bound == IF s.it.k = "range" THEN resolveRangeForBindings(s.vars, it.ty, it.c)
                 ELSE IF isRowRef(it.ty) THEN resolveElementForBindings(s.vars, it.ty, it.c)
                 ELSE IF it.ty.k = "named" THEN resolveElementForBindings(s.vars, RowRef(it.ty), it.c)
                 ELSE resolveElementForBindings(s.vars, it.ty.t, it.c)
        Leave(x) == Stays(pop(popScope(x)))
    IN  IF Bad(it) \/ ~(s.it.k = "range" \/ isRowRef(it.ty) \/ it.ty.k = "named" \/ isArray(it.ty))
        THEN Leave(Err(it.c, "Value_InvalidIterator"))
        ELSE Leave(resolveStmt(s.body, bound).c)

----------------------------------------------------------------------------
resolveReturnStmt(s, c) ==
    LET expected == currentReturnType(c)
        void == expected \in {None, Unit}
    IN  Outcome(TRUE, IF ~insideFunction(c) \/ (s.x # None) = void THEN Err(c, "Type_MissingReturn")
                ELSE IF s.x = None THEN c ELSE Resolve(s.x, expected, c).c)

resolveBreakStmt(c) == Outcome(TRUE, IF insideLoop(c) \/ insideSwitch(c) THEN c ELSE Err(c, "Type_Mismatch"))
resolveContinueStmt(c) == Outcome(TRUE, IF insideLoop(c) THEN c ELSE Err(c, "Type_Mismatch"))

resolveExprStmt(s, c) ==
    LET r == Resolve(s.x, None, c)
    IN  Stays(IF Bad(r) \/ s.x.k \in {"call", "start"} THEN r.c ELSE Warn(r.c, "Warn_DiscardedResult"))

(* The name is visible in its own initializer.  *)
resolveVarDeclStmt(s, c) == Stays(resolveVarDecl(s.d, insertLocal(s.d, c)))

AssignAccepts(op, t) ==
    CASE op = "=" -> TRUE
      [] op = "+=" -> isNumeric(t) \/ t = String
      [] op \in {"-=", "*=", "/=", "%="} -> isNumeric(t)
      [] op \in {"&=", "|=", "^=", "<<=", ">>="} -> isInteger(t)

AssignsAnything(s, c) == LET lhs == Resolve(s.lhs, None, c)
                         IN  Stays(IF Bad(lhs) THEN lhs.c ELSE Resolve(s.rhs, lhs.ty, lhs.c).c)

resolveAssignStmt(s, c) ==
    LET lhs == Resolve(s.lhs, None, c)
        Rhs(x) == Resolve(s.rhs, lhs.ty, x).c
    IN  Stays(IF Bad(lhs) THEN lhs.c
              ELSE IF ~lhs.lv THEN Err(lhs.c, "Mut_NonLValueAssignment")
              ELSE Rhs(IF AssignAccepts(s.op, lhs.ty) THEN lhs.c ELSE Err(lhs.c, "Type_Mismatch")))

----------------------------------------------------------------------------
(* The statements a sequence suspends at; s.x is the operand.  *)

resolveWaitUntil(s, c) ==
    LET p == Resolve(s.x, None, c)
    IN  IF Bad(p) THEN p.c
        ELSE IF ~(isFun(p.ty) /\ Len(p.ty.ps) = 1 /\ p.ty.ret = Bool)
        THEN Err(p.c, "Seq_WaitUntilArgTypeMismatch")
        ELSE Resolve(s.arg, p.ty.ps[1], p.c).c

resolveWaitForEvent(s, c) ==
    LET e == Resolve(s.x, None, c)
        x == EvaluateIn(s.x, TRUE, e.c)
    IN  IF Bad(e) THEN e.c
        ELSE IF isEvaluated(x.x) THEN x.c ELSE Err(x.c, "Seq_WaitForEventNotAFixedTable")

resolveWaitForRequest(s, c) ==
    LET r == Resolve(s.x, None, c)
        t == TableOf(r.ty.t, r.c)
    IN  IF Bad(r) THEN r.c
        ELSE IF isRowRef(r.ty) /\ t.host /\ Flag(t, "request", r.c) THEN r.c
        ELSE Err(r.c, "Seq_WaitForRequestNotARequest")

resolveWaits(s, c) ==
    IF ~insideSequence(c) THEN Err(c, "Seq_SuspendOutsideSequence")
    ELSE CASE s.for = "seconds" -> Resolve(s.x, Float32, c).c
           [] s.for = "frames" -> Resolve(s.x, Uint32, c).c
           [] s.for = "until" -> resolveWaitUntil(s, c)
           [] s.for = "event" -> resolveWaitForEvent(s, c)
           [] s.for = "request" -> resolveWaitForRequest(s, c)

resolveStmt(s, c) ==
    CASE s.k = "block" -> resolveBlock(s.ss, c)
      [] s.k = "if" -> resolveIfStmt(s, c)
      [] s.k = "switch" -> resolveSwitchStmt(s, c)
      [] s.k = "while" -> resolveWhileStmt(s, c)
      [] s.k = "for" -> resolveForStmt(s, c)
      [] s.k = "return" -> resolveReturnStmt(s, c)
      [] s.k = "break" -> resolveBreakStmt(c)
      [] s.k = "continue" -> resolveContinueStmt(c)
      [] s.k = "expr" -> resolveExprStmt(s, c)
      [] s.k = "let" -> resolveVarDeclStmt(s, c)
      [] s.k = "assign" -> resolveAssignStmt(s, c)
      [] s.k = "wait" -> Stays(resolveWaits(s, c))
=============================================================================
