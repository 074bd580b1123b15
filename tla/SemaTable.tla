----------------------------- MODULE SemaTable -----------------------------
(* The attributes of a declaration, and what a table must satisfy.  An      *)
(* attribute is [a |-> name, args |-> the kinds of its literal arguments].  *)
EXTENDS SemaExpr

AttributesOf == [table |-> {"export", "deprecated", "fixed", "readonly", "packed", "reserve",
                            "columnar", "request"},
                 fn |-> {"export", "deprecated", "sequence"},
                 var |-> {"export", "deprecated"}]
ColumnAttributes == {"readonly", "unique", "primary"}
Registered == UNION {AttributesOf[k] : k \in DOMAIN AttributesOf} \union ColumnAttributes

Arity(a) == CASE a = "reserve" -> {1} [] a = "deprecated" -> {0, 1} [] OTHER -> {0}
LocalPlacement == [export |-> "Attr_ExportInLocalScope",
                   deprecated |-> "Attr_DeprecatedInLocalScope"]

(* The argument of @reserve is a non-negative integer literal, that of      *)
(* @deprecated a string literal.                                            *)
ArgumentFits(at) == CASE at.args = << >> -> TRUE
                      [] at.a = "reserve" -> at.args[1] = "int"
                      [] OTHER -> at.args[1] = "str"

(* validateAttribute: the flag is set only when everything is in order.  *)
validateAttribute(at, d, c) ==
    IF at.a \notin Registered THEN Err(c, "Attr_Unknown")
    ELSE IF at.a \notin AttributesOf[d.k] THEN Err(c, "Attr_NotApplicable")
    ELSE IF Len(at.args) \notin Arity(at.a) THEN Err(c, "Attr_InvalidArgCount")
    ELSE IF at.a \in DOMAIN LocalPlacement /\ ~d.top THEN Err(c, LocalPlacement[at.a])
    ELSE IF ~ArgumentFits(at) THEN Err(c, "Attr_InvalidArgValue")
    ELSE [c EXCEPT !.flags = @ \union {<<d.id, at.a>>}]

checkTableAttributeCombinations(d, c) ==
    LET packed == IF Flag(d, "packed", c) /\ ~hasFixedRowSet(d, c)
                  THEN Err(c, "Attr_InvalidCombination") ELSE c
    IN  IF Flag(d, "fixed", c) /\ Flag(d, "readonly", c)
        THEN Err(packed, "Attr_InvalidCombination") ELSE packed

(* Every attribute is validated, then the repeated ones, then combinations. *)
validateAllAttributes(d, c) ==
    LET each == FoldLeft(LAMBDA acc, at : validateAttribute(at, d, acc), c, d.attrs)
        Repeated(i) == \E j \in 1 .. i - 1 : d.attrs[j].a = d.attrs[i].a
        unique == FoldLeft(LAMBDA acc, i : IF Repeated(i) THEN Err(acc, "Attr_Duplicate") ELSE acc,
                           each, [i \in DOMAIN d.attrs |-> i])
    IN  IF d.k = "table" THEN checkTableAttributeCombinations(d, unique) ELSE unique

----------------------------------------------------------------------------
(* Table constraints: each reports at most one error, or one per offender.  *)

Check(bad, code, c) == IF bad THEN Err(c, code) ELSE c
CheckEach(S, code, c) == [c EXCEPT !.errs = @ + Cardinality(S),
                                   !.codes = IF S = {} THEN @ ELSE @ \union {code}]

checkPackedRequiresFixed(t, c) ==
    Check(Flag(t, "packed", c) /\ ~hasFixedRowSet(t, c), "Table_PackedRequiresFixed", c)
checkFixedReadonlyConflict(t, c) ==
    Check(Flag(t, "fixed", c) /\ Flag(t, "readonly", c), "Table_FixedReadonlyConflict", c)
checkReserveOnGrowingTable(t, c) ==
    Check(/\ Flag(t, "reserve", c) /\ ~t.host
          /\ hasFixedRowSet(t, c) \/ Flag(t, "packed", c), "Table_ReserveOnFixedTable", c)
checkRequestOnHostTable(t, c) ==
    Check(Flag(t, "request", c) /\ ~t.host, "Table_RequestOnNonHost", c)
checkFixedTableHasRows(t, c) ==
    Check(hasFixedRowSet(t, c) /\ ~t.host /\ t.rows = << >>, "Table_FixedTableEmpty", c)

checkUniqueColumnNames(t, c) ==
    CheckEach({j \in DOMAIN t.cols : \E i \in 1 .. j - 1 : t.cols[i].n = t.cols[j].n},
              "Name_ColumnDuplicate", c)
Primaries(t, c) == {i \in DOMAIN t.cols : Flag(t.cols[i], "primary", c)}
checkAtMostOnePrimary(t, c) ==
    CheckEach({j \in Primaries(t, c) : \E i \in Primaries(t, c) : i < j}, "Table_PrimaryAtMostOne", c)

MethodNames == TableMethods \union DynamicMethods \union {"TOARRAY"}
checkNamesCollideWithMethods(t, c) ==
    CheckEach({<<"column", i>> : i \in {i \in DOMAIN t.cols : t.cols[i].n \in MethodNames}}
                \union {<<"row", i>> : i \in {i \in DOMAIN t.rows : RowName(t.rows[i]) \in MethodNames}},
              "Table_NameCollidesWithMethod", c)
checkByColumnNameCollision(t, c) ==
    Check(\E p \in Primaries(t, c) :
             LET by == byColumnName(t.cols[p].n)
             IN  /\ \A q \in Primaries(t, c) : p <= q
                 /\ \/ \E i \in DOMAIN t.cols \ {p} : t.cols[i].n = by
                    \/ \E i \in DOMAIN t.rows : RowName(t.rows[i]) = by,
          "Table_GeneratedNameCollides", c)

IsKeyType(ty, c) == \/ isInteger(ty) \/ ty \in {Bool, Char, String}
                    \/ NamesTable(ty, c) /\ TableOf(ty, c).host
checkPrimaryKeyType(t, c) ==
    CheckEach({i \in Primaries(t, c) : ~IsKeyType(TypeOf(t.cols[i], c), c)},
              "Table_PrimaryNotHashable", c)
checkFunctionColumnNotNilable(t, c) ==
    CheckEach({i \in DOMAIN t.cols : LET ty == TypeOf(t.cols[i], c)
                                     IN  isNullable(ty) /\ isFun(ty.t)}, "Type_Mismatch", c)

(* The cells are evaluated as they were parsed: no resolver has seen them.  *)
Cells(t) == FlattenSeq(t.rows)
checkInitializerCellsAreConstant(t, c) ==
    LET Cell(acc, cell) ==
            LET r == EvaluateIn(cell, FALSE, acc)
            IN  Check(r.x.k = "unknown", "Table_FixedCellNotConstant", r.c)
    IN  IF t.host THEN c ELSE FoldLeft(Cell, c, Cells(t))

(* The values a @unique or @primary column starts with: a value equal to an *)
(* earlier one is an error.  Cells are evaluated again, and report again.   *)
checkInitializerUniqueValues(t, c) ==
    LET Keyed == {i \in DOMAIN t.cols : Flag(t.cols[i], "unique", c) \/ Flag(t.cols[i], "primary", c)}
        At(i, r) == Evaluate(t.rows[r][i], FALSE, c)
        Has(i, r) == i <= Len(t.rows[r]) /\ isEvaluated(At(i, r).x)
        Twice == {<<i, r>> \in Keyed \X DOMAIN t.rows :
                     Has(i, r) /\ \E q \in 1 .. r - 1 : Has(i, q) /\ At(i, q).x = At(i, r).x}
        Faulty == {<<i, r>> \in Keyed \X DOMAIN t.rows :
                     i <= Len(t.rows[r]) /\ At(i, r).code # ""}
    IN  IF t.host THEN c
        ELSE CheckEach(Faulty, "Value_IntegerOverflow",
                       CheckEach(Twice, "Table_DuplicateInitializerValue", c))

(* A cycle of fixed tables is looked for through the cells that a resolver  *)
(* has marked as compile-time rows, which is none of them.                  *)
checkTableConstraints(t, c) ==
    LET attributes == checkRequestOnHostTable(t, checkReserveOnGrowingTable(t,
                          checkFixedReadonlyConflict(t, checkPackedRequiresFixed(t, c))))
        names == checkByColumnNameCollision(t, checkNamesCollideWithMethods(t,
                     checkAtMostOnePrimary(t, checkUniqueColumnNames(t,
                         checkFixedTableHasRows(t, attributes)))))
        types == checkFunctionColumnNotNilable(t, checkPrimaryKeyType(t, names))
    IN  checkInitializerUniqueValues(t, checkInitializerCellsAreConstant(t, types))

----------------------------------------------------------------------------
(* The linker symbol of a declaration: its name when exported, and else the *)
(* module's path and the name run together; a path is a sequence of parts   *)
(* between characters that become underscores.                              *)
mangledModulePath(path) == FoldLeft(LAMBDA acc, part : acc \o "_" \o part, Head(path), Tail(path))
generateMangledName(d, path, c) ==
    IF Flag(d, "export", c) THEN d.n ELSE "_L" \o mangledModulePath(path) \o "_" \o d.n
=============================================================================
