----------------------------- MODULE Tokenizer ------------------------------
(***************************************************************************)
(* lexer/tokenizer*.go above lexer/scanner.go: the bytes of a file become  *)
(* tokens, one call of lex after the other until one returns an error.     *)
(*                                                                         *)
(* fn is the function that runs, or the place in it where it waits for a   *)
(* byte; a file is read at any of these places.  Upper-case letters are in *)
(* the classes of the lower-case ones and are left out.                    *)
(***************************************************************************)
EXTENDS Scanner

CONSTANT Texts      \* the files

VARIABLES
    fn,         \* where lex is
    raw,        \* the preprocessor's accumulator, and a punctuation's first bytes
    start,      \* line and column at which the call of lex began
    tokens,     \* the tokens so far; white space is not kept
    outcome     \* the error that ended the last call

lexVars == <<fn, raw, start, tokens, outcome>>
vars == <<scannerVars, lexVars>>

Unsupported == "unsupported"    \* ErrNotImplementedInV0
Malformed   == "malformed"

-----------------------------------------------------------------------------
\* Byte classes and tables.

White   == {" ", "\n", "\r", "\t"}
Digits  == {"0", "1", "2", "3", "4", "5", "6", "7", "8", "9"}
Octals  == Digits \ {"8", "9"}
Hexals  == Digits \cup {"a", "b", "c", "d", "e", "f"}
Letters == {"a", "b", "c", "d", "e", "f", "g", "h", "i", "j", "k", "l", "m", "n",
            "o", "p", "q", "r", "s", "t", "u", "v", "w", "x", "y", "z", "_"}
Singles == {"#", "-", "+", "&", "*", "!", "/", "%", "<", ">", "^", ":", "|", "=",
            "[", "]", "(", ")", "{", "}", "~", "?", ";", ",", "."}
Bytes   == White \cup Digits \cup Letters \cup Singles \cup {"\"", "'", "\\", "@"}

ASSUME TextsAssumption == Texts \subseteq Seq(Bytes)

EqualPairs == {<<c, "=">> : c \in {"-", "+", "&", "*", "!", "/", "%", "<", ">", "^", "|", "="}}
Digraphs   == [spelling \in {<<"<", ":">>, <<":", ">">>, <<"<", "%">>, <<"%", ">">>, <<"%", ":">>} |->
                  CASE spelling = <<"<", ":">> -> <<"[">>
                    [] spelling = <<":", ">">> -> <<"]">>
                    [] spelling = <<"<", "%">> -> <<"{">>
                    [] spelling = <<"%", ">">> -> <<"}">>
                    [] spelling = <<"%", ":">> -> <<"#">>]
Shifts     == {<<"<", "<">>, <<">", ">">>}
Pairs      == {<<"#", "#">>, <<"-", ">">>, <<"-", "-">>, <<"+", "+">>, <<"&", "&">>, <<"|", "|">>}
                  \cup Shifts \cup EqualPairs \cup DOMAIN Digraphs

\* The type of a punctuation is its spelling, a digraph's the one it stands for.
PunctuationKind(spelling) ==
    IF spelling \in DOMAIN Digraphs THEN Digraphs[spelling] ELSE spelling

\* The places that read a class, and what the class is.
ClassOf == [white    |-> White,
            ident    |-> Letters \cup Digits,
            dots     |-> {"."},
            decimal  |-> Digits,
            octal    |-> Octals,
            hexFirst |-> Hexals,
            hex      |-> Hexals,
            string   |-> Bytes \ {"\n", "\\", "\""},
            char     |-> Bytes \ {"\n", "\\", "'"},
            comment  |-> Bytes \ {"\n", "\\"}]

\* Where io.EOF is as good as a byte that ends the token.
EndTolerated == {"ident", "dots", "decimal", "decimalTail", "zero", "octal", "hexFirst",
                 "hex", "hexTail", "suffix", "suffixL", "suffixLL", "punctuation", "shift"}

-----------------------------------------------------------------------------
\* What a call ends with.

Goto(place) ==
    /\ fn' = place
    /\ UNCHANGED <<start, tokens, outcome>>

\* p.lex is called again: it clears the accumulator and notes the position.
Restart ==
    /\ fn' = "lex"
    /\ raw' = <<>>
    /\ start' = <<line', column'>>
    /\ UNCHANGED outcome

Emit(kind, spelling) ==
    /\ Restart
    /\ tokens' = Append(tokens, [kind |-> kind, raw |-> spelling, at |-> start])

Stop(error) ==
    /\ fn' = "stopped"
    /\ outcome' = error
    /\ UNCHANGED <<raw, start, tokens>>

-----------------------------------------------------------------------------
\* A byte is needed and the buffer is empty.  The end of the file is seen by
\* the places that tolerate it; every other error ends the call.

atEnd == remaining = 0 /\ failure = EOF /\ fn \in EndTolerated
ready == remaining > 0 \/ atEnd

Refill ==
    /\ fn # "stopped"
    /\ ~ready
    /\ FillBuffer
    /\ IF failure' = NoError \/ (failure' = EOF /\ fn \in EndTolerated)
       THEN UNCHANGED lexVars
       ELSE Stop(failure')

\* Seeded bug: an identifier is not continued behind a refill.
ContinuesOnce(n) == IsPartial(n) /\ fn # "ident"

\* readBytesInClass said that the token goes on behind the buffer.
Continues(n) == IsPartial(n) /\ fn # "white"

\* The class reads.  White space and comments are not accumulated.
ReadClass ==
    /\ fn \in DOMAIN ClassOf
    /\ ready
    /\ LET n    == InClass(ClassOf[fn])
           data == SubSeq(buff, pos + 1, pos + n)
       IN  /\ IF n = 0 THEN Keep ELSE Pop(n)
           /\ \/ /\ fn = "white"
                 /\ Restart
                 /\ UNCHANGED tokens
              \/ /\ fn = "hexFirst" /\ n = 0
                 /\ Stop(Malformed)
              \/ /\ fn = "comment"
                 /\ Goto(IF Continues(n) THEN fn ELSE "commentEnd")
                 /\ UNCHANGED raw
              \/ /\ fn \notin {"white", "comment"}
                 /\ fn = "hexFirst" => n > 0
                 /\ Continues(n)
                 /\ Goto(IF fn = "hexFirst" THEN "hex" ELSE fn)
                 /\ raw' = raw \o data
              \/ /\ fn \in {"ident", "dots"}
                 /\ ~Continues(n)
                 /\ Emit(fn, raw \o data)
              \/ /\ fn \notin {"white", "comment", "ident", "dots"}
                 /\ fn = "hexFirst" => n > 0
                 /\ ~Continues(n)
                 /\ Goto(CASE fn = "decimal" -> "decimalTail"
                           [] fn = "octal"   -> "suffix"
                           [] fn \in {"hexFirst", "hex"} -> "hexTail"
                           [] fn = "string"  -> "stringTail"
                           [] fn = "char"    -> "charTail")
                 /\ raw' = raw \o data

-----------------------------------------------------------------------------
\* The places that look at one byte: b is that byte, or none at the end.

NoByte == "none"
b == IF remaining > 0 THEN buff[pos + 1] ELSE NoByte

\* fn is at the place, and the byte is there.
At(place) == fn = place /\ ready

\* The byte is taken into the token, or left.
TakeTo(place) == Pop(1) /\ raw' = Append(raw, b) /\ Goto(place)
LeaveTo(place) == Keep /\ Goto(place) /\ UNCHANGED raw

Lex ==
    /\ At("lex")
    /\ \/ b \in White               /\ LeaveTo("white")
       \/ b \in Letters             /\ LeaveTo("ident")
       \/ b = "0"                   /\ TakeTo("zero")
       \/ b \in Digits \ {"0"}      /\ LeaveTo("decimal")
       \/ b = "'"                   /\ TakeTo("char")
       \/ b = "\""                  /\ TakeTo("string")
       \/ b = "."                   /\ LeaveTo("dots")
       \/ b \in ({"\\", "@"} \cup Singles) \ {"."} /\ TakeTo("punctuation")

\* lexOctalOrHexadecimalConstant, lexDecimalInteger, lexHexadecimalConstant
Zero ==
    /\ At("zero")
    /\ \/ b = NoByte                /\ Keep /\ Emit("integer", raw)
       \/ b = "x"                   /\ TakeTo("hexFirst")
       \/ b \notin {NoByte, "x"}    /\ LeaveTo("octal")

NumberTail ==
    \/ /\ At("decimalTail") \/ At("hexTail")
       /\ b \in {".", IF fn = "hexTail" THEN "p" ELSE "e"}
       /\ Keep /\ Stop(Unsupported)
    \/ /\ At("decimalTail") \/ At("hexTail")
       /\ b \notin {".", IF fn = "hexTail" THEN "p" ELSE "e"}
       /\ LeaveTo("suffix")

\* consumeLLUSuffix: l, ll and at last u.
Suffix ==
    \/ /\ At("suffix") \/ At("suffixL")
       /\ b = "l"
       /\ TakeTo(IF fn = "suffix" THEN "suffixL" ELSE "suffixLL")
    \/ /\ At("suffix") \/ At("suffixL") \/ At("suffixLL")
       /\ b = "u"
       /\ Pop(1) /\ Emit("integer", Append(raw, b))
    \/ /\ At("suffix") \/ At("suffixL") \/ At("suffixLL")
       /\ b # "u" /\ (b = "l" => fn = "suffixLL")
       /\ Keep /\ Emit("integer", raw)

\* lexPunctuation, with the first byte in raw.
Punctuation ==
    /\ At("punctuation")
    /\ LET two == Append(raw, b)
       IN  \/ two \in Pairs \ Shifts /\ Pop(1) /\ Emit(PunctuationKind(two), two)
           \/ two \in Shifts         /\ TakeTo("shift")
           \/ two = <<"/", "/">>     /\ Pop(1) /\ Goto("comment") /\ raw' = <<>>
           \/ two = <<"/", "*">>     /\ Pop(1) /\ Stop(Unsupported)
           \/ /\ two \notin Pairs \cup {<<"/", "/">>, <<"/", "*">>}
              /\ raw[1] \in Singles
              /\ Keep /\ Emit(raw, raw)
           \/ raw[1] \notin Singles  /\ Keep /\ Stop(Unsupported)

Shift ==
    /\ At("shift")
    /\ \/ b = "=" /\ Pop(1) /\ Emit(Append(raw, b), Append(raw, b))
       \/ b # "=" /\ Keep   /\ Emit(raw, raw)

\* lexCommentSingleLine, whose end calls lex within the same token.
CommentEnd ==
    /\ At("commentEnd")
    /\ Pop(1)
    /\ Goto(IF b = "\\" THEN "comment" ELSE "lex")
    /\ UNCHANGED raw

\* lexStringLiteral and lexCharacterConstant
Quote == IF fn \in {"stringTail", "stringEscape"} THEN "\"" ELSE "'"
Body  == IF Quote = "\"" THEN "string" ELSE "char"

LiteralTail ==
    /\ At("stringTail") \/ At("charTail")
    /\ \/ b = Quote /\ Pop(1) /\ Emit(Body, Append(raw, b))
       \/ b = "\n"  /\ Keep   /\ Stop(Malformed)
       \/ /\ b = "\\"
          /\ Pop(1) /\ UNCHANGED raw
          /\ Goto(IF Body = "string" THEN "stringEscape" ELSE "charEscape")

Escapes == IF Body = "string" THEN {"\""} ELSE {"'", "\\", "n", "t", "r", "0"}

LiteralEscape ==
    /\ At("stringEscape") \/ At("charEscape")
    /\ \/ /\ b = "\n"
          /\ Pop(1) /\ UNCHANGED raw /\ Goto(Body)
       \/ /\ b \in Escapes
          /\ Pop(1) /\ Goto(Body)
          /\ raw' = raw \o (IF Body = "string" THEN <<b>> ELSE <<"\\", b>>)
       \/ /\ b \notin Escapes \cup {"\n"}
          /\ Keep /\ Stop(Unsupported)

-----------------------------------------------------------------------------
Init ==
    /\ text \in Texts
    /\ ScannerInit
    /\ fn = "lex" /\ raw = <<>> /\ start = <<1, 1>> /\ tokens = <<>>
    /\ outcome = NoError

Next ==
    \/ Refill \/ ReadClass \/ Lex \/ Zero \/ NumberTail \/ Suffix \/ Punctuation
    \/ Shift \/ CommentEnd \/ LiteralTail \/ LiteralEscape

Spec == Init /\ [][Next]_vars

\* The caller asks for tokens until it is given an error, and a read of a file
\* returns.
FairSpec == Spec /\ WF_vars(Next)

-----------------------------------------------------------------------------
\* The scanner under the tokenizer is the stream of bytes it promises to be:
\* whatever Read returns, every byte is taken once and in order, line and
\* column are those of the next byte, and an error, the end of the file
\* included, comes behind all bytes that were returned before it
\* (fillBuffer, popOneFromBuffer, advanceLineColumn).
Stream == INSTANCE ByteStream WITH
    given <- fed, taken <- fed - remaining, reported <- failure
ScannerIsStream == Stream!Spec

\* An error that Read returned together with bytes is kept for the call behind
\* them: unless the text itself is refused before, it ends the tokens and is
\* not taken for the end of the file (scanner.err).
FaultsSurface == err = Fault ~> outcome \in {Fault, Unsupported, Malformed}

\* No text and no way of reading it makes the tokenizer call itself for ever
\* (the functions that continue a token call themselves).
Terminates == <>(fn = "stopped")

=============================================================================
