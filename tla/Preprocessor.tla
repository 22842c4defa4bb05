---------------------------- MODULE Preprocessor ----------------------------
(***************************************************************************)
(* lexer/preprocesor*.go and lexer.go: the lexemes of a file become tokens *)
(* through the macros of its #define lines, behind a lookahead of one.     *)
(*                                                                         *)
(* A file is a sequence of lines, each with its words and whether a line   *)
(* comment follows them.  next calls itself through nextPPToken, so the    *)
(* functions that wait for one of its tokens are a stack of frames.        *)
(***************************************************************************)
EXTENDS Naturals, Sequences, Functions

CONSTANTS
    Files,          \* the files
    Identifiers     \* the words that are identifiers

ASSUME FilesAssumption == Files \subseteq Seq([words : Seq(STRING), comment : BOOLEAN])

VARIABLES
    file,
    row, col,       \* s.line, and the next word in that line
    begun,          \* the line on which a comment began the call of lex, or 0
    macros,         \* name -> the tokens of its body
    readyTokens,
    lastSeenLine, ppLine,
    frames,         \* the callers of next within the preprocessor
    returned,       \* the token next returns to the last of them
    call,           \* the operation of the lexer that runs
    nextTok,        \* the token Peek has read
    produced,       \* all that next returned to the lexer
    results         \* all that the lexer returned, a token when Next did

lexState == <<row, col, begun>>
ppState  == <<macros, readyTokens, lastSeenLine, ppLine, frames, returned>>
vars == <<file, lexState, ppState, call, nextTok, produced, results>>

\* line is Token.Line, where the call of lex began; at is the line of the file
\* that the word stands in, which no action reads.
Token(word, line, at) == [word |-> word, line |-> line, at |-> at]
NoToken == Token("none", 0, 0)
EOF     == Token("EOF", 0, 0)
Error   == Token("error", 0, 0)

IsToken(r) == r \notin {NoToken, EOF, Error}
IsIdentifier(tok) == tok.word \in Identifiers

DirectiveFrame == [kind |-> "directive", name |-> "none", body |-> <<>>]
NameFrame      == [kind |-> "name", name |-> "none", body |-> <<>>]
BodyFrame(name) == [kind |-> "body", name |-> name, body |-> <<>>]

Top     == frames[Len(frames)]
Below   == SubSeq(frames, 1, Len(frames) - 1)
Waits(kind) == returned # NoToken /\ frames # <<>> /\ Top.kind = kind

-----------------------------------------------------------------------------
\* lexer.go

Init ==
    /\ file \in Files
    /\ row = 1 /\ col = 1 /\ begun = 0
    /\ macros = <<>> /\ readyTokens = <<>>
    /\ lastSeenLine = 0 /\ ppLine = 0
    /\ frames = <<>> /\ returned = NoToken
    /\ call = "none" /\ nextTok = NoToken
    /\ produced = <<>> /\ results = <<>>

Ended == \E i \in DOMAIN results : results[i] = EOF

Peek ==
    /\ call = "none" /\ ~Ended
    /\ nextTok = NoToken
    /\ call' = "Peek"
    /\ UNCHANGED <<file, lexState, ppState, nextTok, produced, results>>

\* Seeded bug: the token that was read ahead is returned and kept.
NextKeepingLookahead ==
    /\ call = "none" /\ ~Ended
    /\ IF nextTok # NoToken
       THEN results' = Append(results, nextTok) /\ UNCHANGED call
       ELSE call' = "Next" /\ UNCHANGED results
    /\ UNCHANGED <<file, lexState, ppState, nextTok, produced>>

NextToken ==
    /\ call = "none" /\ ~Ended
    /\ IF nextTok # NoToken
       THEN /\ results' = Append(results, nextTok)
            /\ nextTok' = NoToken
            /\ UNCHANGED call
       ELSE /\ call' = "Next"
            /\ UNCHANGED <<nextTok, results>>
    /\ UNCHANGED <<file, lexState, ppState, produced>>

\* An error is returned by both and not kept.
Returns(r) ==
    /\ call' = "none"
    /\ produced' = Append(produced, r)
    /\ IF call = "Peek" /\ IsToken(r)
       THEN nextTok' = r /\ UNCHANGED results
       ELSE results' = Append(results, r) /\ UNCHANGED nextTok

Return ==
    /\ returned # NoToken /\ frames = <<>>
    /\ Returns(returned)
    /\ returned' = NoToken
    /\ UNCHANGED <<file, lexState, macros, readyTokens, lastSeenLine, ppLine, frames>>

\* Every caller returns an error to its own caller.
Fail(error) ==
    /\ Returns(error)
    /\ frames' = <<>> /\ returned' = NoToken
    /\ UNCHANGED <<macros, readyTokens, lastSeenLine, ppLine>>

-----------------------------------------------------------------------------
\* next: ready tokens first, then a call of lex.

ReadsFile == call # "none" /\ returned = NoToken /\ readyTokens = <<>>

PopFromReady ==
    /\ call # "none" /\ returned = NoToken /\ readyTokens # <<>>
    /\ returned' = Head(readyTokens)
    /\ readyTokens' = Tail(readyTokens)
    /\ UNCHANGED <<file, lexState, macros, lastSeenLine, ppLine, frames, call, nextTok,
                   produced, results>>

AtEnd  == row > Len(file)
AtWord == ~AtEnd /\ col <= Len(file[row].words)
word   == file[row].words[col]
\* p.line: where the call of lex began.
tokenLine == IF begun = 0 THEN row ELSE begun

ReadEnd ==
    /\ ReadsFile /\ AtEnd
    /\ begun' = 0
    /\ Fail(EOF)
    /\ UNCHANGED <<file, row, col>>

\* The end of a line is white space, after which next calls lex again.  The end
\* of a comment is not: lexCommentSingleLine calls lex itself.
ReadLineEnd ==
    /\ ReadsFile /\ ~AtEnd /\ ~AtWord
    /\ row' = row + 1 /\ col' = 1
    /\ begun' = IF file[row].comment THEN tokenLine ELSE 0
    /\ UNCHANGED <<file, ppState, call, nextTok, produced, results>>

TakeWord ==
    /\ ReadsFile /\ AtWord
    /\ col' = col + 1 /\ begun' = 0
    /\ UNCHANGED <<file, row>>

\* makeToken, for a word that is no macro.
ReadToken ==
    /\ TakeWord
    /\ word \notin {"#", ".."} \cup DOMAIN macros
    /\ returned' = Token(word, tokenLine, row)
    /\ lastSeenLine' = row
    /\ UNCHANGED <<macros, readyTokens, ppLine, frames, call, nextTok, produced, results>>

\* handleSubstitution: the tokens of the body as they are, none for an empty one.
ReadMacro ==
    /\ TakeWord
    /\ word \in DOMAIN macros
    /\ LET body == macros[word]
       IN  IF body = <<>> THEN UNCHANGED <<returned, readyTokens>>
           ELSE returned' = Head(body) /\ readyTokens' = Tail(body)
    /\ UNCHANGED <<macros, lastSeenLine, ppLine, frames, call, nextTok, produced, results>>

\* handleDots, for a number of dots that is no token.
ReadDots ==
    /\ TakeWord
    /\ word = ".."
    /\ Fail(Error)

\* Seeded bug: a directive is taken anywhere in a line.
ReadDirectiveAnywhere ==
    /\ TakeWord
    /\ word = "#"
    /\ ppLine' = row
    /\ frames' = Append(frames, DirectiveFrame)
    /\ UNCHANGED <<macros, readyTokens, lastSeenLine, returned, call, nextTok, produced, results>>

ReadDirective ==
    /\ TakeWord
    /\ word = "#"
    /\ IF lastSeenLine >= tokenLine THEN Fail(Error)
       ELSE /\ ppLine' = row
            /\ frames' = Append(frames, DirectiveFrame)
            /\ UNCHANGED <<macros, readyTokens, lastSeenLine, returned, call, nextTok,
                           produced, results>>

-----------------------------------------------------------------------------
\* preprocesor_directive.go

\* Seeded bug: off by one line.
sameLineOrNext == returned.line \in {ppLine, ppLine + 1}

\* nextPPToken
sameLine == returned.line = ppLine

\* handleDirective has its token.
Directive ==
    /\ Waits("directive")
    /\ IF sameLine /\ returned.word = "define"
       THEN /\ frames' = Append(Below, NameFrame)
            /\ returned' = NoToken
            /\ UNCHANGED <<macros, readyTokens, lastSeenLine, ppLine, call, nextTok,
                           produced, results>>
       ELSE Fail(Error)
    /\ UNCHANGED <<file, lexState>>

\* handleDefineName has the name.
DefineName ==
    /\ Waits("name")
    /\ IF sameLine /\ IsIdentifier(returned)
       THEN /\ frames' = Append(Below, BodyFrame(returned.word))
            /\ returned' = NoToken
            /\ UNCHANGED <<macros, readyTokens, lastSeenLine, ppLine, call, nextTok,
                           produced, results>>
       ELSE Fail(Error)
    /\ UNCHANGED <<file, lexState>>

\* Seeded bug: the loop that collects the body is not left.
DefineBodyWithoutReturn ==
    /\ Waits("body")
    /\ IF sameLine
       THEN /\ frames' = Append(Below, [Top EXCEPT !.body = Append(@, returned)])
            /\ returned' = NoToken
       ELSE UNCHANGED <<frames, returned>>
    /\ UNCHANGED <<file, lexState, macros, readyTokens, lastSeenLine, ppLine, call, nextTok,
                   produced, results>>

\* handleDefineName has a token of the body, or the first one behind it: only
\* now the macro is set, and that token is what next returns.
DefineBody ==
    /\ Waits("body")
    /\ IF sameLine
       THEN /\ frames' = Append(Below, [Top EXCEPT !.body = Append(@, returned)])
            /\ returned' = NoToken
            /\ UNCHANGED macros
       ELSE /\ macros' = [w \in DOMAIN macros \cup {Top.name} |->
                             IF w = Top.name THEN Top.body ELSE macros[w]]
            /\ frames' = Below
            /\ UNCHANGED returned
    /\ UNCHANGED <<file, lexState, readyTokens, lastSeenLine, ppLine, call, nextTok,
                   produced, results>>

-----------------------------------------------------------------------------
Step ==
    \/ Return \/ PopFromReady \/ ReadEnd \/ ReadLineEnd \/ ReadToken \/ ReadMacro
    \/ ReadDots \/ ReadDirective \/ Directive \/ DefineName \/ DefineBody

Next == Peek \/ NextToken \/ Step

Spec == Init /\ [][Next]_vars

\* A call runs to its end.
FairSpec == Spec /\ WF_vars(Step)

-----------------------------------------------------------------------------
\* What the preprocessor returns reaches the caller of Next once and in order,
\* wherever the caller looked ahead in between; an error, once, by whichever
\* call met it (Lexer.Peek, Lexer.Next).
LookaheadLosesNothing ==
    produced = results \o (IF nextTok = NoToken THEN <<>> ELSE <<nextTok>>)

\* The tokens of a macro's body stand in one line of the file, unless comments
\* end all the lines between them, although the #define of the next line is
\* handled inside the loop that collects them and moves the line they are
\* compared with (handleDefineName, ppLine).  The line that is compared is the
\* recorded one, which behind a comment is that of the comment: the first word
\* behind `#define A 1 // one` does become a part of A.
BodiesAreOneLine ==
    \A name \in DOMAIN macros : \A i, j \in DOMAIN macros[name] :
        \A r \in macros[name][i].at..(macros[name][j].at - 1) : file[r].comment

\* Every call returns, whatever the macros are (next, nextPPToken and
\* handleSubstitution call each other).
CallsReturn == call # "none" ~> call = "none"

=============================================================================
