---------------------------- MODULE MCTokenizer -----------------------------
(***************************************************************************)
(* Files for the tokenizer, and what their tokens are: at every place the  *)
(* longest lexeme, whatever the pieces in which the file is read.          *)
(***************************************************************************)
EXTENDS Tokenizer, SequencesExt

Words(alphabet, n) == UNION {[1..m -> alphabet] : m \in 0..n}

MCTexts ==
    Words({"a", "1", " ", "\n"}, 3)
    \cup Words({"0", "8", "l", "u"}, 3) \cup Words({"1", "l", "u"}, 4)
    \cup Words({"0", "x", "a", "."}, 4) \cup Words({"1", "e", "."}, 3) \cup Words({"0", "x", "p"}, 4)
    \cup Words({"\"", "\\", "\n", "a"}, 4) \cup Words({"'", "\\", "n", "\n"}, 4)
    \cup Words({"'", "\\", "0"}, 5) \cup {<<"\"">> \o w : w \in Words({"\"", "\\", "a"}, 4)}
    \cup Words({"/", "\\", "\n", "a"}, 4) \cup {<<"/", "/">> \o w : w \in Words({"/", " ", "\n", "a"}, 3)}
    \cup {<<"/", "/">> \o w \o <<"\n", "a">> : w \in Words({"\\", "\n", "a"}, 3)}
    \cup Words({"<", "=", ":", "%", ">"}, 3) \cup Words(Singles, 2) \cup Words({"@", "/", "*"}, 2)

-----------------------------------------------------------------------------
\* The lexemes.

AllIn(s, cls) == \A i \in DOMAIN s : s[i] \in cls
From(s, n)    == SubSeq(s, n, Len(s))

IsIdentifier(s) == s[1] \in Letters /\ AllIn(s, Letters \cup Digits)
IsDecimal(s) == s[1] \in Digits \ {"0"} /\ AllIn(s, Digits)
IsOctal(s)   == s[1] = "0" /\ AllIn(s, Octals)
IsHex(s)     == Len(s) > 2 /\ SubSeq(s, 1, 2) = <<"0", "x">> /\ AllIn(From(s, 3), Hexals)
LLUSuffixes  == {<<>>, <<"l">>, <<"l", "l">>, <<"u">>, <<"l", "u">>, <<"l", "l", "u">>}
IsInteger(s) ==
    \E n \in 1..Len(s) : LET digits == SubSeq(s, 1, n)
                         IN  /\ IsDecimal(digits) \/ IsOctal(digits) \/ IsHex(digits)
                             /\ From(s, n + 1) \in LLUSuffixes
IsFloat(s) ==
    /\ Len(s) > 1
    /\ \/ IsDecimal(Front(s)) /\ Last(s) \in {".", "e"}
       \/ IsHex(Front(s))     /\ Last(s) \in {".", "p"}
IsPunctuation(s) ==
    \/ Len(s) = 1 /\ s[1] \in Singles \ {"."}
    \/ s \in Pairs
    \/ Len(s) = 3 /\ Front(s) \in Shifts /\ s[3] = "="

\* Behind an odd number of backslashes.
IsEscaped(s, i) ==
    \E k \in 1..(i - 1) :
        /\ k % 2 = 1
        /\ \A j \in (i - k)..(i - 1) : s[j] = "\\"
        /\ i - k - 1 \in DOMAIN s => s[i - k - 1] # "\\"
EscapesOf(quote) == IF quote = "\"" THEN {"\"", "\n"} ELSE {"'", "\\", "n", "t", "r", "0", "\n"}
IsOpen(s, quote) ==
    /\ s[1] = quote
    /\ \A i \in 2..Len(s) :
        IF IsEscaped(s, i) THEN s[i] \in EscapesOf(quote) ELSE s[i] \notin {quote, "\n"}
IsLiteral(s, quote) ==
    Len(s) > 1 /\ IsOpen(Front(s), quote) /\ Last(s) = quote /\ ~IsEscaped(s, Len(s))
IsBroken(s, quote) ==
    Len(s) > 1 /\ IsOpen(Front(s), quote) /\ Last(s) = "\n" /\ ~IsEscaped(s, Len(s))
IsUnknownEscape(s, quote) ==
    Len(s) > 1 /\ IsOpen(Front(s), quote) /\ Last(s) \notin EscapesOf(quote) /\ IsEscaped(s, Len(s))

IsUnsupported(s) ==
    \/ IsFloat(s)
    \/ s = <<"/", "*">>
    \/ Len(s) = 1 /\ s[1] \notin White \cup Letters \cup Digits \cup Singles \cup {"'", "\""}
    \/ \E quote \in {"'", "\""} : IsUnknownEscape(s, quote)
IsMalformed(s) == s = <<"0", "x">> \/ \E quote \in {"'", "\""} : IsBroken(s, quote)
IsToken(s) ==
    \/ IsIdentifier(s) \/ IsInteger(s) \/ IsPunctuation(s) \/ AllIn(s, {"."})
    \/ \E quote \in {"'", "\""} : IsLiteral(s, quote)
IsLexeme(s) == IsToken(s) \/ IsUnsupported(s) \/ IsMalformed(s) \/ s = <<"/", "/">>

KindOf(s) ==
    CASE IsIdentifier(s)      -> "ident"
      [] IsInteger(s)         -> "integer"
      [] AllIn(s, {"."})      -> "dots"
      [] IsLiteral(s, "\"")   -> "string"
      [] IsLiteral(s, "'")    -> "char"
      [] IsPunctuation(s)     -> PunctuationKind(s)

\* Line continuations are no part of a token, nor is the backslash of an
\* escaped quote in a string.
RawOf(s) ==
    IF s[1] \notin {"'", "\""} THEN s
    ELSE LET dropped == {i \in DOMAIN s :
                            \/ s[i] = "\n"
                            \/ s[i] = "\\" /\ ~IsEscaped(s, i) /\ (s[i + 1] = "\n" \/ s[1] = "\"")}
         IN  [k \in 1..(Len(s) - Cardinality(dropped)) |->
              s[CHOOSE i \in DOMAIN s \ dropped : Cardinality((1..i) \ dropped) = k]]

-----------------------------------------------------------------------------
\* The tokens of a text, and how they end.

PositionOf(t, p) ==
    LET breaks == {i \in 1..(p - 1) : t[i] = "\n"}
    IN  <<Cardinality(breaks) + 1, p - Max(breaks \cup {0})>>

\* A comment ends at a line break; one behind a backslash continues it in the
\* next line (tokenizer_comment.go:16 and :34).
IsContinuation(t, i) == i > 1 /\ t[i] = "\n" /\ t[i - 1] = "\\"
LineBreaks(t, i)  == {j \in i..Len(t) : t[j] = "\n"}
CommentEnds(t, i) == {j \in LineBreaks(t, i) : ~IsContinuation(t, j)}

\* The tokens of t behind place i for a call of lex that began at place p, where
\* ends(t, k) are the places that can end a comment whose text begins at k.
TokensOf(t, ends(_, _)) ==
    LET Longest(i) == LET last == {j \in i..Len(t) : IsLexeme(SubSeq(t, i, j))}
                      IN  IF last = {} THEN 0 ELSE Max(last)
        Nothing(o) == [tokens |-> <<>>, outcome |-> o]
        scan[i \in 1..(Len(t) + 1), p \in 1..(Len(t) + 1)] ==
            IF i > Len(t) THEN Nothing(EOF)
            ELSE IF t[i] \in White THEN scan[i + 1, i + 1]
            ELSE LET j == Longest(i)
                     s == SubSeq(t, i, j)
                 IN  IF j = 0 THEN Nothing(EOF)
                     ELSE IF s = <<"/", "/">>
                     THEN IF ends(t, j + 1) = {} THEN Nothing(EOF)
                          ELSE scan[Min(ends(t, j + 1)) + 1, p]
                     ELSE IF IsMalformed(s) THEN Nothing(Malformed)
                     ELSE IF IsUnsupported(s) THEN Nothing(Unsupported)
                     ELSE LET rest == scan[j + 1, j + 1]
                          IN  [rest EXCEPT !.tokens = <<[kind |-> KindOf(s), raw |-> RawOf(s),
                                                         at |-> PositionOf(t, p)]>> \o @]
    IN  scan[1, 1]

TokensOfText == [t \in Texts |-> TokensOf(t, CommentEnds)]

\* The texts with a comment that is to be continued.  The code takes the
\* backslash, reads up to the line break and takes that for the end: for these
\* texts the tokens are those of comments that end with their line.
ContinuedTexts == {t \in Texts : TokensOf(t, LineBreaks) # TokensOf(t, CommentEnds)}
TokensOfLines  == [t \in ContinuedTexts |-> TokensOf(t, LineBreaks)]

\* The tokens and the refusals depend on the text alone: not on the pieces in
\* which Read returns it, the size of the buffer, or where in a token a refill
\* falls.  Each is the longest one at its place and is reported at the place
\* where it begins, one that follows a line comment at the place of the comment
\* (lex and all it calls).  A failing read cuts the tokens short and adds none.
\* A comment that is to be continued is not, wherever a refill falls between
\* its backslash and the line break.
TokensIgnoreChunking ==
    LET expected == IF text \in ContinuedTexts THEN TokensOfLines[text] ELSE TokensOfText[text]
    IN  /\ IsPrefix(tokens, expected.tokens)
        /\ outcome \in {EOF, Unsupported, Malformed} =>
               tokens = expected.tokens /\ outcome = expected.outcome

=============================================================================
