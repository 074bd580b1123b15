------------------------------- MODULE Lexer -------------------------------
(****************************************************************************)
(* The lexer of one source file.  A text t is a sequence of characters, and *)
(* each scanner an operator from the place i of its first character to what *)
(* it found there: the token's type, "none" for what is dropped; the place  *)
(* after it; and whether an error was reported.  The loop of tokenize() is  *)
(* the state machine, one lexOne() a step.  The types are those of Parser:  *)
(* the types that no rule tells apart are one.                              *)
(****************************************************************************)
EXTENDS Integers, Sequences, FiniteSets

VARIABLES
    text,       \* the source
    position,   \* the index of the next character
    tokens,     \* the tokens so far, the last one "eof" at the end
    lexErrors   \* how many diagnostics the lexer reported

lvars == <<text, position, tokens, lexErrors>>

----------------------------------------------------------------------------
(* Characters: "sp" and "nl" are a space and a newline, "dq", "sq" and "bs" *)
(* the quotes and the backslash; any other stands for itself.               *)

Digits == {"0", "1", "2"}
RadixDigits == [x |-> Digits \union {"a", "b", "e", "F"}, b |-> {"0", "1"}]
Letters == {"a", "b", "e", "n", "x", "i", "f", "s", "F", "N", "_"}
Blanks == {"sp", "nl"}
Escapes == {"n", "bs", "dq", "sq", "0"}

Keywords == [w \in {<<"F", "N">>, <<"i", "f">>, <<"a", "s">>, <<"i", "n">>, <<"_">>} |->
                 CASE w = <<"F", "N">> -> "FN" [] w = <<"i", "f">> -> "if" [] w = <<"a", "s">> -> "as"
                   [] w = <<"i", "n">> -> "in" [] w = <<"_">> -> "_"]
KeywordToType(word) == IF word \in DOMAIN Keywords THEN Keywords[word] ELSE "id"

Operators3 == << <<"<", "<", "=">>, <<".", ".", ".">>, <<".", ".", "<">> >>
Operators2 == << <<"*", "*">>, <<"<", "<">>, <<".", ".">>, <<"-", ">">>, <<"=", "=">>, <<"<", "=">>,
                 <<"?", "?">>, <<"-", "=">>, <<"*", "=">>, <<"/", "=">> >>
Operators1 == << <<"-">>, <<"*">>, <<"/">>, <<"<">>, <<"=">>, <<"&">>, <<"~">>, <<":">>, <<",">>,
                 <<";">>, <<"(">>, <<")">>, <<"{">>, <<"}">>, <<"[">>, <<"]">>, <<".">>, <<"?">>, <<"@">> >>
OperatorType(w) ==
    CASE w = <<".", ".", ".">> -> "..."
      [] w \in {<<".", ".">>, <<".", ".", "<">>} -> ".."
      [] w = <<"*", "*">> -> "**"
      [] w = <<"-", ">">> -> "->"
      [] w = <<"?", "?">> -> "??"
      [] w = <<"<", "<">> -> "bits"
      [] w \in {<<"=", "=">>, <<"<", "=">>, <<"<">>} -> "=="
      [] w \in {<<"*">>, <<"/">>} -> "*"
      [] Len(w) > 1 -> "+="
      [] OTHER -> w[1]

----------------------------------------------------------------------------
(* The cursor.                                                              *)

CharAt(t, i) == IF i <= Len(t) THEN t[i] ELSE "end"
Ahead(t, i, w) == \A k \in 1 .. Len(w) : CharAt(t, i + k - 1) = w[k]

\* The first place from i on whose character is not in S.
Past(t, i, S) == CHOOSE j \in i .. Len(t) + 1 :
                     CharAt(t, j) \notin S /\ \A k \in i .. j - 1 : t[k] \in S
\* The first place from i on where w is spelled, or the end.
Find(t, i, w) == CHOOSE j \in i .. Len(t) + 1 :
                     /\ j = Len(t) + 1 \/ Ahead(t, j, w)
                     /\ \A k \in i .. j - 1 : ~Ahead(t, k, w)

Found(type, next) == [type |-> type, next |-> next, bad |-> FALSE]
Bad(type, next) == [type |-> type, next |-> next, bad |-> TRUE]

SkipWhitespace(t, i) == Past(t, i, Blanks)

----------------------------------------------------------------------------
(* Comments.                                                                *)

LineComment == <<"-", "-">>
BlockOpen == <<"/", "-">>
BlockClose == <<"-", "/">>
DocOpen == <<"/", "-", "-">>
DocClose == <<"-", "-", "/">>

SkipLineComment(t, i) == Found("none", Find(t, i, <<"nl">>))

RECURSIVE ReadBlockComment(_, _, _)
ReadBlockComment(t, i, depth) ==
    CASE i > Len(t) -> Bad("none", i)
      [] Ahead(t, i, BlockOpen) -> ReadBlockComment(t, i + 2, depth + 1)
      [] ~Ahead(t, i, BlockOpen) /\ Ahead(t, i, BlockClose) ->
             IF depth = 1 THEN Found("none", i + 2) ELSE ReadBlockComment(t, i + 2, depth - 1)
      [] OTHER -> ReadBlockComment(t, i + 1, depth)

DocCommentKeepsSlash(t, i) ==
    LET j == Find(t, i, DocClose)
    IN  IF j > Len(t) THEN Bad("none", j) ELSE Found("doc", j + 2)

ReadDocComment(t, i) ==
    LET j == Find(t, i, DocClose)
    IN  IF j > Len(t) THEN Bad("none", j) ELSE Found("doc", j + 3)

----------------------------------------------------------------------------
(* Literals.                                                                *)

LexIdentifier(t, i) ==
    LET j == Past(t, i, Letters \union Digits) IN Found(KeywordToType(SubSeq(t, i, j - 1)), j)

LexRadix(t, i, digits) ==
    LET j == Past(t, i, digits) IN IF j = i THEN Bad("unknown", j) ELSE Found("lit", j)

LexNumber(t, i) ==
    LET whole  == Past(t, i, Digits)
        dotted == CharAt(t, whole) = "." /\ CharAt(t, whole + 1) \in Digits
        part   == IF dotted THEN Past(t, whole + 1, Digits) ELSE whole
        sign   == IF CharAt(t, part + 1) = "-" THEN part + 2 ELSE part + 1
        power  == Past(t, sign, Digits)
    IN  IF CharAt(t, i) = "0" /\ CharAt(t, i + 1) \in DOMAIN RadixDigits
        THEN LexRadix(t, i + 2, RadixDigits[t[i + 1]])
        ELSE IF CharAt(t, part) = "e"
        THEN IF power = sign THEN Bad("unknown", sign) ELSE Found("lit", power)
        ELSE Found(IF dotted THEN "lit" ELSE "int", part)

\* After the backslash at i: a bad escape is consumed with its character.
ReadEscape(t, i) == IF CharAt(t, i + 1) \in Escapes THEN Found("none", i + 2)
                    ELSE Bad("unknown", IF i + 1 > Len(t) THEN i + 1 ELSE i + 2)

RECURSIVE LexString(_, _)
LexString(t, i) ==
    LET c == CharAt(t, i) escape == ReadEscape(t, i) IN
    CASE c = "dq" -> Found("str", i + 1)
      [] c \in {"nl", "end"} -> Bad("unknown", i)
      [] c = "bs" -> IF escape.bad THEN escape ELSE LexString(t, escape.next)
      [] OTHER -> LexString(t, i + 1)

RawQuote == <<"dq", "dq", "dq">>
LexRawString(t, i) ==
    LET j == Find(t, i + 3, RawQuote)
    IN  IF j > Len(t) THEN Bad("unknown", j) ELSE Found("nil", j + 3)

LexChar(t, i) ==
    LET c == CharAt(t, i + 1)
        r == IF c = "bs" THEN ReadEscape(t, i + 1) ELSE Found("none", i + 2)
    IN  IF c = "end" THEN Bad("unknown", i + 1)
        ELSE IF r.bad THEN r
        ELSE IF CharAt(t, r.next) = "sq" THEN Found("nil", r.next + 1) ELSE Bad("unknown", r.next)

----------------------------------------------------------------------------
(* One token.                                                               *)

\* The first operator of the table that is spelled here.
LexOperatorOrPunctuation(t, i) ==
    LET all == Operators3 \o Operators2 \o Operators1
        hit == {k \in DOMAIN all : Ahead(t, i, all[k])}
        k   == CHOOSE k \in hit : \A m \in hit : k <= m
    IN  IF hit = {} THEN Bad("unknown", i + 1) ELSE Found(OperatorType(all[k]), i + Len(all[k]))

LexOne(t, i) ==
    LET c == CharAt(t, i) IN
    CASE c = "end" -> Found("eof", i)
      [] Ahead(t, i, DocOpen) -> ReadDocComment(t, i + 3)
      [] Ahead(t, i, BlockOpen) /\ ~Ahead(t, i, DocOpen) -> ReadBlockComment(t, i + 2, 1)
      [] Ahead(t, i, LineComment) -> SkipLineComment(t, i + 2)
      [] c \in Letters -> LexIdentifier(t, i)
      [] c \in Digits \/ (c = "." /\ CharAt(t, i + 1) \in Digits) -> LexNumber(t, i)
      [] c = "dq" -> IF Ahead(t, i, RawQuote) THEN LexRawString(t, i) ELSE LexString(t, i + 1)
      [] c = "sq" -> LexChar(t, i)
      [] OTHER -> LexOperatorOrPunctuation(t, i)

----------------------------------------------------------------------------
(* tokenize                                                                 *)

Lexed == tokens # << >> /\ tokens[Len(tokens)].type = "eof"

LexInit == position = 1 /\ tokens = << >> /\ lexErrors = 0

Lex ==
    /\ ~Lexed
    /\ LET i == SkipWhitespace(text, position)
           r == LexOne(text, i)
       IN  /\ position' = r.next
           /\ tokens' = IF r.type = "none" THEN tokens
                        ELSE Append(tokens, [type |-> r.type, first |-> i, past |-> r.next])
           /\ lexErrors' = lexErrors + (IF r.bad THEN 1 ELSE 0)
    /\ UNCHANGED text

----------------------------------------------------------------------------
(* What the lexer promises.                                                 *)

RECURSIVE TypesFrom(_, _)
TypesFrom(t, i) ==
    LET j == SkipWhitespace(t, i) r == LexOne(t, j)
    IN  CASE r.type = "eof" -> <<r.type>>
          [] r.type = "none" -> TypesFrom(t, r.next)
          [] OTHER -> <<r.type>> \o TypesFrom(t, r.next)

TypesOf(ts) == [k \in DOMAIN ts |-> ts[k].type]

\* The tokens' characters with a blank after each, a newline where it may matter.
RECURSIVE Respaced(_)
Respaced(k) == IF k = 0 THEN << >>
               ELSE Respaced(k - 1) \o SubSeq(text, tokens[k].first, tokens[k].past - 1) \o <<"sp">>
=============================================================================
