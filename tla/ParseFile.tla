----------------------------- MODULE ParseFile -----------------------------
(****************************************************************************)
(* The parser's entry point: a file is lexed into a token vector, then the  *)
(* loop over its declarations runs until the tokens or the diagnostics are  *)
(* used up.  Lexer and parser report to one diagnostic engine.              *)
(****************************************************************************)
EXTENDS Parser, Lexer

CONSTANTS
    Texts,      \* sources, sequences of characters
    Files       \* sources given as the tokens the lexer makes of them

Syntax == INSTANCE LucidSyntax

vars == <<lvars, pvars>>

\* A comment belongs to the next token's declaration from the line above on.
LinesBetween(k) == Cardinality({i \in tokens[k].first .. tokens[k + 1].first - 1 : text[i] = "nl"})
TokenType(k) == IF tokens[k].type = "doc" /\ LinesBetween(k) > 1 THEN "olddoc" ELSE tokens[k].type

Tokenize ==
    /\ phase = "lexing"
    /\ Lex
    /\ UNCHANGED pvars

HandOver ==
    /\ phase = "lexing"
    /\ Lexed
    /\ toks' = [k \in DOMAIN tokens |-> TokenType(k)]
    /\ st' = [InitialState' EXCEPT !.e = IF lexErrors < MaxErrors THEN lexErrors ELSE MaxErrors]
    /\ phase' = "parsing"
    /\ UNCHANGED <<lvars, decls, turns>>

ReadText ==
    /\ text \in Texts
    /\ LexInit
    /\ toks = << >>
    /\ phase = "lexing"

ReadFile ==
    /\ toks \in Files
    /\ text = << >> /\ position = 1 /\ tokens = << >> /\ lexErrors = 0
    /\ phase = "parsing"

Init == (ReadText \/ ReadFile) /\ st = InitialState /\ decls = << >> /\ turns = 0

Done == phase = "done" /\ UNCHANGED vars

Next == Tokenize \/ HandOver \/ (ParseNext /\ UNCHANGED lvars) \/ Done

Spec == Init /\ [][Next]_vars

----------------------------------------------------------------------------
TypeOK ==
    /\ phase \in {"lexing", "parsing", "done"}
    /\ position \in 1 .. Len(text) + 1
    /\ lexErrors \in 0 .. Len(text)
    /\ st.p \in 1 .. Len(toks) + 1
    /\ st.e \in 0 .. MaxErrors
    /\ st.v \in {"null", "ok", "marked"}
    /\ \A k \in DOMAIN decls : decls[k].at \in 1 .. Len(toks) /\ decls[k].v \in {"ok", "marked"}

(* Tokens depend on nothing but their own characters: the tokens of a file  *)
(* without errors, each followed by a blank and nothing else of the file    *)
(* kept, lex to the same types.  So a comment separates and means nothing,  *)
(* and every scanner ends where its token does.                             *)
RespacedLexesSame ==
    Lexed /\ lexErrors = 0 => TypesFrom(Respaced(Len(tokens)), 1) = TypesOf(tokens)

(* What the loop has read when it comes to the end of the file.             *)
AtEndOfFile == phase = "parsing" /\ Peek(st) = "eof" /\ ~AtEnd(st)

(* A file that is read to its end without a diagnostic is derived by the    *)
(* reference syntax, but for `case` lists without a value: no other rule    *)
(* lets a damaged file through unreported.                                  *)
CleanMeansGrammatical == AtEndOfFile /\ st.e = 0 => Syntax!GrammaticalFilled(toks)

(* "case_value { ',' case_value }" (LucidGrammar.md:1702): a `case` has a   *)
(* value.  The loop over the values of a case looks for `:` before the      *)
(* first one (ParseStmt.cpp:692), so one without a value is read silently.  *)
CasesHaveValues == AtEndOfFile /\ st.e = 0 => Syntax!Grammatical(toks)

(* A node that lost a part, marked or not, has a diagnostic, and a file read *)
(* without one has only sound declarations.                                 *)
LossesReported ==
    (st.holes # {} \/ \E k \in DOMAIN decls : decls[k].v = "marked") => st.e > 0

(* A loop of the parser turns over without moving only on a closing bracket *)
(* that opens nowhere around it: any other token that a rule cannot use is  *)
(* consumed by the rule or by the synchronizer.                             *)
StallsOnlyAtClosers == st.stall \subseteq Closers

(* The top-level loop ends: every turn of it moved the cursor or reported   *)
(* an error, and there are only so many of either.                          *)
LoopAdvances == turns < st.p + st.e

(* The parser moves: a loop stalls only where the top-level loop has to      *)
(* spend a diagnostic, and that loop ends.                                   *)
RecoveryMoves == StallsOnlyAtClosers /\ LoopAdvances
=============================================================================
