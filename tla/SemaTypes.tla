------------------------------ MODULE SemaTypes ------------------------------
(* Which types are the same, which are assignable, and what a written type  *)
(* names.  The canonical nodes of the type cache make equality of types     *)
(* equality of the records here; a canonical named type carries only its    *)
(* name, and the cache says which table it points to at the moment.         *)
EXTENDS ConstEval

typesEqual(a, b) == a = b

NilAnywhere(target, source) == typesEqual(unwrapNullable(target), unwrapNullable(source))

RECURSIVE isAssignable(_, _)
isAssignable(target, source) ==
    /\ target # None /\ source # None
    /\ \/ typesEqual(target, source)
       \/ isNullable(target) /\ isAssignable(target.t, source)

(* A type that is a table's name; the cache gives the table.  *)
NamesTable(t, c) == t.k = "named" /\ t.n \in DOMAIN c.named
TableOf(t, c) == c.named[t.n]
isColumnedTable(t, c) == NamesTable(t, c) /\ ~TableOf(t, c).host
isTableType(t, c) == NamesTable(t, c)

(* getNamedType keys the cache by the name alone, and the caller points the *)
(* node it returns at the table it has found.                               *)
Canonical(d, c) == [c EXCEPT !.named = With(@, d.n, d)]

T(ty, c) == [ty |-> ty, c |-> c]
TErr(c, code) == T(Unknown, Err(c, code))

resolveNamedType(t, c) ==
    LET m == lookupImport(t.q, c)
        found == IF t.q = "" THEN lookupType(t.n, c) ELSE lookupModuleMember(m, t.n, c)
    IN  IF t.q # "" /\ m = "" THEN TErr(c, "Name_UndefinedModule")
        ELSE IF found.kind # "table" THEN TErr(c, "Name_UndefinedType")
        ELSE IF t.q # "" /\ ~Flag(found.d, "export", c) THEN TErr(c, "Name_PrivateMember")
        ELSE T(Named(t.n), Canonical(found.d, c))

RECURSIVE resolveType(_, _)
resolveType(t, c) ==
    CASE t.k = "named" -> resolveNamedType(t, c)
      [] t.k = "array" ->
           LET el == resolveType(t.t, c)
           IN  IF Missing(el.ty) THEN T(Unknown, el.c) ELSE T(Arr(t.kind, t.size, el.ty), el.c)
      [] t.k = "rowref" ->
           LET inner == resolveType(t.t, c)
           IN  IF Missing(inner.ty) THEN T(Unknown, inner.c)
               ELSE IF ~isTableType(inner.ty, inner.c) THEN TErr(inner.c, "Type_Mismatch")
               ELSE T(RowRef(inner.ty), inner.c)
      [] t.k = "nullable" ->
           LET inner == resolveType(t.t, c)
           IN  IF Missing(inner.ty) THEN T(Unknown, inner.c)
               ELSE IF isRowRef(inner.ty) THEN inner
               ELSE IF isFun(inner.ty) \/ inner.ty = Unit \/ isColumnedTable(inner.ty, inner.c)
                    THEN TErr(inner.c, "Type_Mismatch")
               ELSE T(Nullable(inner.ty), inner.c)
      [] t.k = "fun" ->
           LET Step(acc, p) == LET r == resolveType(p, acc.c)
                               IN  IF acc.bad THEN acc
                                   ELSE [bad |-> Missing(r.ty), tys |-> Append(acc.tys, r.ty), c |-> r.c]
               ps == FoldLeft(Step, [bad |-> FALSE, tys |-> << >>, c |-> c], t.ps)
               ret == resolveType(t.ret, ps.c)
           IN  IF ps.bad THEN T(Unknown, ps.c)
               ELSE IF Missing(ret.ty) THEN T(Unknown, ret.c) ELSE T(Fun(ps.tys, ret.ty), ret.c)
      [] OTHER -> T(t, c)     \* primitive, unknown, or none

(* validateConstType: a const is never nil, so it is no row reference.  *)
validateConstType(t, c) == IF isNullable(t) \/ isRowRef(t) THEN Err(c, "Mut_ConstAssignment") ELSE c

----------------------------------------------------------------------------
(* What the condition of an if says about nullable names.  *)

NullableDecl(n, c) == LET lv == lookupValue(n, c)
                      IN  lv.kind \in {"var", "param"} /\ isNullable(TypeOf(lv.d, c))
Inner(n, c) == unwrapNullable(TypeOf(lookupValue(n, c).d, c))
IsNil(e) == e.k = "lit" /\ e.lk = "nil"

extractSingle(e, c) ==
    LET id == IF e.l.k = "id" THEN e.l ELSE e.r
        lit == IF e.l.k = "id" THEN e.r ELSE e.l
    IN  IF e.op \in {"==", "!="} /\ id.k = "id" /\ IsNil(lit) /\ NullableDecl(id.n, c)
        THEN Narrowing(e.op = "==", [n \in {id.n} |-> Inner(n, c)])
        ELSE NoNarrowing

Union(a, b) == [n \in DOMAIN a \union DOMAIN b |-> IF n \in DOMAIN b THEN b[n] ELSE a[n]]

RECURSIVE extractNarrowings(_, _)
extractNarrowings(e, c) ==
    IF e.k = "binary" /\ e.op \in LogicalOps
    THEN LET l == extractNarrowings(e.l, c)
             r == extractNarrowings(e.r, c)
             against == e.op = "and"       \* the side of == or != that spoils it
         IN  IF (l.has /\ l.eq = against) \/ (r.has /\ r.eq = against) THEN NoNarrowing
             ELSE Narrowing(~against, Union(l.m, r.m))
    ELSE IF e.k = "binary" THEN extractSingle(e, c)
    ELSE IF e.k = "unary" /\ e.op = "not" /\ e.x.k = "id" /\ NullableDecl(e.x.n, c)
    THEN Narrowing(TRUE, [n \in {e.x.n} |-> Inner(n, c)])
    ELSE NoNarrowing

detectNarrowingPattern(e, c) ==
    LET found == extractNarrowings(e, c)
    IN  Narrowing(found.eq, [n \in {m \in DOMAIN found.m : NullableDecl(m, c)} |-> found.m[n]])
=============================================================================
