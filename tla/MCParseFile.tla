---------------------------- MODULE MCParseFile ----------------------------
(* Instances of ParseFile for TLC: short texts over small alphabets, a file  *)
(* for each form of the grammar, and every file one token away from one.     *)
EXTENDS ParseFile

TextsOver(chars, n) == UNION {[1 .. k -> chars] : k \in 0 .. n}
MCTexts ==
    TextsOver({"a", "/", "-", "sp"}, 6)
      \union TextsOver({"dq", "sq", "bs", "n", "nl"}, 5)
      \union TextsOver({"0", "1", ".", "e", "-", "x"}, 5)
      \union TextsOver({"<", "=", ".", "*", "?", "F"}, 4)
      \union {<<"/", "-", "-", "-", "-", "/">> \o n \o <<"F", "N", "sp", "a">> :
                 n \in {<<"nl">>, <<"nl", "nl">>}}

Types == {<<"prim">>, <<"id", ".", "id">>, <<"&", "id">>, <<"[", "prim", "]">>,
          <<"[", "int", ",", "id", "]">>, <<"(", "prim", ")", "->", "prim">>, <<"id", "?">>}
Exprs == {<<"int">>, <<"nil">>, <<"id", "(", "id", ",", "lit", ")">>, <<"id", "[", "int", "]">>,
          <<"id", ".", "id">>, <<"[", "id", ",", "id", "]">>, <<"-", "id", "**", "int">>,
          <<"(", "id", ")">>, <<"(", "id", ":", "prim", ")", "->", "id">>, <<"start", "id", "(", ")">>,
          <<"id", "+", "id", "==", "id", "and", "not", "id">>, <<"int", "..", "id", "..", "int">>,
          <<"id", "??", "id">>, <<"id", "or", "id", "*", "id">>}
Block == <<"{", "id", "(", ")", "}">>
Stmts == {<<"id", "=", "id">>, <<"id", ".", "id", "+=", "int">>, <<"return">>, <<"return", "id">>,
          <<"break">>, <<"continue", ";">>, <<"wait", "(", "id", ")">>,
          <<"waitUntil", "(", "id", ",", "int", ")">>, <<"if", "id">> \o Block,
          <<"if", "id", "{", "}", "else", "if", "id", "{", "}", "else">> \o Block,
          <<"while", "id">> \o Block, <<"for", "_", ",", "id", ":", "prim", "in", "id">> \o Block,
          <<"for", "id", ":", "prim", "in", "int", "..", "id", "{", "}">>,
          <<"switch", "id", "{", "case", "int", ",", "id", ":", "{", "}", "default", ":", "{", "}", "}">>,
          <<"switch", "id", "{", "case", "int", ":", "{", "}", "default", ":", "{", "}", "}">>,
          <<"{", "let", "id", ":", "prim", "=", "int", "}">>}
Decls == {<<"import", "id", ".", "id", "as", "id">>,
          <<"@", "id", "(", "int", ",", "str", ")", "TABLE", "id", "{", "@", "id", "id", ":", "prim", "}">>,
          <<"TABLE", "id", "{", "id", ":", "prim", "id", ":", "id", "}", "=", "[", "{", "int", ",", "id", "}", "]">>,
          <<"TABLE", "id", "=", "host", "(", "str", ")">>,
          <<"FN", "id", "(", "const", "id", ":", "prim", ",", "id", ":", "...", "prim", ")", "->", "prim", "{", "}">>,
          <<"FN", "id", "(", ")", "->", "prim", "=", "host", "(", "str", ")">>,
          <<"doc", "const", "id", ":", "prim", "=", "int", ";">>}

\* A fragment between what stands before and after it in its file.
Fragments ==
    {[pre |-> <<"let", "id", ":">>, mid |-> m, post |-> <<"=", "int">>] : m \in Types}
      \union {[pre |-> <<"let", "id", ":", "prim", "=">>, mid |-> m, post |-> << >>] : m \in Exprs}
      \union {[pre |-> <<"FN", "id", "(", ")", "->", "prim", "{">>, mid |-> m, post |-> <<"}">>] : m \in Stmts}
      \union {[pre |-> << >>, mid |-> m, post |-> << >>] : m \in Decls}

\* Every file ends with one more declaration.
File(f, mid) == f.pre \o mid \o f.post \o <<"import", "id", "eof">>

Alphabet == {"id", "int", "(", ")", "{", "}", "[", "]", ";", ",", ":", "=", "->", "FN", "let", "@",
             "case", "default", "else", "in", "doc", ".", "?", "-", "&", "const", "TABLE", "import",
             "for", "return", "wait", "start"}
Without(m, k) == SubSeq(m, 1, k - 1) \o SubSeq(m, k + 1, Len(m))
Inserted(m, k, t) == SubSeq(m, 1, k) \o <<t>> \o SubSeq(m, k + 1, Len(m))
Edits(m) == {Without(m, k) : k \in DOMAIN m}
              \union {Inserted(m, k, t) : k \in 0 .. Len(m), t \in Alphabet}
              \union {[m EXCEPT ![k] = t] : k \in DOMAIN m, t \in Alphabet}

GrammarFiles == {File(f, f.mid) : f \in Fragments}
MCFiles == UNION {{File(f, m) : m \in {f.mid} \union Edits(f.mid)} : f \in Fragments}

(* Every form of the grammar is parsed: a file made of them is read to its   *)
(* end without a diagnostic, as two sound declarations.                      *)
GrammarParsesClean ==
    AtEndOfFile /\ toks \in GrammarFiles =>
        st.e = 0 /\ Len(decls) = 2 /\ \A k \in DOMAIN decls : decls[k].v = "ok"

\* The brackets of a file match.
RECURSIVE Matched(_, _)
Matched(ts, open) ==
    IF ts = << >> THEN open = << >>
    ELSE CASE Head(ts) \in Openers -> Matched(Tail(ts), <<CloserOf[Head(ts)]>> \o open)
           [] Head(ts) \in Closers -> open # << >> /\ Head(open) = Head(ts) /\ Matched(Tail(ts), Tail(open))
           [] OTHER -> Matched(Tail(ts), open)

(* Damage stays in its declaration: whatever is wrong in a file whose        *)
(* brackets match, the declaration at its end is found (an attribute before  *)
(* it may take it), unless a loop stalled on a closing bracket and spent the  *)
(* diagnostics there.                                                        *)
NextDeclSurvives ==
    phase = "done" /\ tokens = << >> /\ Matched(toks, << >>) /\ st.stall = {} =>
        \E k \in DOMAIN decls : \/ decls[k].at = Len(toks) - 2
                                \/ k = Len(decls) /\ toks[decls[k].at] = "@"

(* A file is accepted when it is derived by the grammar.                     *)
GrammarAccepted == phase = "done" /\ toks \in GrammarFiles => ~HasErrors

(* Without a diagnostic means in the grammar, in both directions but for a   *)
(* `case` without a value, and a node that lost a part is never without one. *)
ParsesTheGrammar == TypeOK /\ GrammarParsesClean /\ CleanMeansGrammatical /\ LossesReported
=============================================================================
