------------------------------ MODULE MCParser ------------------------------
(***************************************************************************)
(* Files for the parser, and the language it is to accept: a grammar over  *)
(* spans of tokens, which knows neither lookahead nor order.               *)
(***************************************************************************)
EXTENDS CParser, SequencesExt, FiniteSetsExt

\* At most n pieces, one after the other.
Pieces(pieces, n) ==
    LET upTo[m \in 0..n] ==
            IF m = 0 THEN {<<>>} ELSE upTo[m - 1] \cup {s \o p : s \in upTo[m - 1], p \in pieces}
    IN  upTo[n]
Tokens(alphabet, n) == UNION {[1..m -> alphabet] : m \in 0..n}

FunctionHead == <<"int", "id", "(", ")", "{">>
InFunction(statements) == {FunctionHead \o s \o <<"}">> : s \in statements}

\* The binary operators, from the loosest to the tightest, and the prefix ones,
\* as in C; the texts with any three of them, and with parentheses or prefixes.
Ladder  == <<"||", "&&", "|", "^", "&", "==", "<", "<<", "-", "*">>
Signs   == {"-", "*", "&", "!"}
OperatorExpressions ==
    LET ops == Range(Ladder)
        operands == {<<"id">>} \cup {<<p, "id">> : p \in Signs}
    IN  {<<"id", o, "id", p, "id", q, "id">> : o, p, q \in ops}
        \cup {<<"(", "id", o, "id", ")", p, "id">> : o, p \in ops}
        \cup {<<"id", o, "(", "id", p, "id", ")">> : o, p \in ops}
        \cup {x \o <<o>> \o y : x, y \in operands, o \in ops}
        \cup {<<"id", "=", "id", o, "id", "=", "id">> : o \in ops}
        \cup Tokens({"id", "&", "|"}, 4)

Expressions == {e \o <<";">> : e \in
    Tokens({"id", "-", "*", "="}, 5) \cup Tokens({"id", "<", "==", "("}, 4) \cup Tokens({"id", "(", ")"}, 6)
    \cup {<<"id", "(">> \o a : a \in Tokens({"id", ")", ",", "?"}, 4)}
    \cup OperatorExpressions
    \cup Tokens({"num", "||", "&&", "!"}, 4) \cup Tokens({"id", "=", "+=", "++"}, 3)
    \cup {<<"(", "int", ")", "id">>}}
Statements == Pieces({<<"if", "(", "id", ")">>, <<"else">>, <<"id", ";">>, <<"{">>, <<"}">>}, 4)
              \cup Pieces({<<"if", "(", "id", ")">>, <<"while", "(", "id", ")">>, <<"else">>, <<";">>}, 4)
Loops == {<<"for", "(">> \o s \o <<";">> : s \in Tokens({";", "id", ")", ","}, 4)}
         \cup {<<"for", "(">> \o s \o <<"id", ")", ";">> :
                   s \in Pieces({<<"int", "id">>, <<"=">>, <<"id">>, <<";">>, <<"void">>}, 4)}
Declarations == Tokens({"int", "void", "*", "id", ";"}, 4)
                \cup Pieces({<<"int", "id">>, <<"=", "num">>, <<"[">>, <<",">>, <<"return">>, <<";">>}, 3)
Externals == Tokens({"int", "*", "id", "(", ")", ";"}, 4) \cup Tokens({"int", "id", "(", ")", ";"}, 5)
             \cup {<<"int", "id", "(">> \o p \o <<")", ";">> :
                       p \in Tokens({"void", "*", "id", ",", "..."}, 3)
                              \cup Pieces({<<"int", "id">>, <<",">>, <<"void", "*">>, <<"...">>}, 4)}
             \cup Pieces({<<"void", "id", "(", ")">>, <<"{">>, <<"}">>, <<"=", "id", ";">>, <<"struct">>}, 4)

\* Texts with the constructs in them that v0 does not support, each with the
\* number of reports it is to get.
Case(text, reports) == [text |-> text, reports |-> reports]
Then(c, d) == Case(c.text \o d.text, c.reports + d.reports)
Within(before, C, after) == {Case(before \o c.text \o after, c.reports) : c \in C}
InARow(C, n) ==
    LET upTo[m \in 0..n] ==
            IF m = 0 THEN {Case(<<>>, 0)} ELSE upTo[m - 1] \cup {Then(c, d) : c \in upTo[m - 1], d \in C}
    IN  upTo[n]

Unsupported == {"?", "+=", "++", "[", "switch", "break", "struct", "float", "..."}
BrokenExpressions ==
    {e \o t : e \in {<<"id">>, <<"id", "-", "id">>, <<"id", "=", "id">>, <<"id", "(", "id", ")">>, <<"(", "id", ")">>},
              t \in {<<"?", "id">>, <<",", "id">>, <<"+=", "id">>}}
    \cup {<<"++", "id">>, <<"id", "-", "++", "id">>, <<"(", "++", "id", ")">>, <<"id", "(", "++", "id", ")">>,
          <<"(", "int", ")", "id">>, <<"-", "(", "void", ")", "id">>, <<"id", "(", "id", "?", "id", ")">>}
BrokenStatements ==
    {before \o x \o after : x \in BrokenExpressions,
        <<before, after>> \in {
            <<<<>>, <<";">>>>, <<<<"return">>, <<";">>>>, <<<<"int", "id", "=">>, <<";">>>>,
            <<<<"if", "(">>, <<")", "id", ";">>>>, <<<<"while", "(">>, <<")", "id", ";">>>>,
            <<<<"for", "(", ";", ";">>, <<")", "id", ";">>>>}}
    \cup {<<"break", ";">>, <<"switch", "(", "id", ")", "id", ";">>, <<"struct", "id", ";">>,
          <<"int", "id", "[", "num", "]", ";">>, <<"int", "id", ",", "id", ";">>,
          <<"int", "id", "=", "num", ",", "id", ";">>, <<"void", "id", ";">>,
          <<"int", "(", "*", "id", ")", "(", ")", ";">>}

SoundStatement == Case(<<"id", ";">>, 0)
Sample == {SoundStatement}
          \cup {Case(s, 1) : s \in {<<"id", "?", "id", ";">>, <<"return", "++", "id", ";">>,
                    <<"int", "id", "[", "num", "]", ";">>, <<"if", "(", "id", "+=", "id", ")", "id", ";">>,
                    <<"break", ";">>}}
SampleBlocks(n) == Within(<<"{">>, InARow(Sample, n), <<"}">>)
RecoveryStatements ==
    {Then(SoundStatement, Then(Case(s, 1), SoundStatement)) : s \in BrokenStatements}
    \cup InARow(Sample, 3)
    \cup {Then(c, d) : d \in Sample, c \in UNION {Within(head, SampleBlocks(2), <<>>) :
              head \in {<<>>, <<"if", "(", "id", ")">>, <<"while", "(", "id", ")">>, <<"for", "(", ";", ";", ")">>}}}
    \cup {Then(c, d) : c \in Within(<<"if", "(", "id", ")">>, SampleBlocks(1), <<"else">>),
                       d \in Sample \cup SampleBlocks(1)}
SampleDeclarations ==
    {Case(<<"int", "id", ";">>, 0)}
    \cup {Case(d, 1) : d \in {<<"int", "id", "[", "num", "]", ";">>, <<"int", "id", ",", "id", ";">>,
              <<"int", "id", "=", "id", "?", "id", ";">>, <<"int", "id", "(", "...", ")", ";">>,
              <<"void", "id", "(", "int", "id", ",", "...", ")", "{", "id", ";", "}">>,
              <<"int", "id", "(", ")", "{", "break", ";", "}">>}}
RecoveryCases ==
    {Then(c, Case(<<"struct", "id", ";", "int", "id", "(", ")", "{", "break", ";", "}">>, 2)) :
         c \in Within(FunctionHead, RecoveryStatements, <<"}">>)}
    \cup InARow(SampleDeclarations, 3)
    \cup {Then(Case(<<"float", "id", ";">>, 1), c) : c \in InARow(SampleDeclarations, 2)}

\* The texts with n reports.
Reported == [n \in {c.reports : c \in RecoveryCases} |-> {c.text : c \in {d \in RecoveryCases : d.reports = n}}]
RecoveryFiles == UNION {Reported[n] : n \in DOMAIN Reported}

\* Files with a token that the lexer refuses, anywhere.
Refused == {<<"int", "id", "(", "int", "id", ")", "{", "if", "(", "id", ")", "{", "id", "=", "-", "id", ";",
              "}", "return", "id", "(", "id", ",", "id", ")", ";", "}">>,
            <<"int", "id", "=", "num", ";", "void", "id", "(", ")", ";">>,
            <<"int", "id", "(", ")", "{", "for", "(", "int", "id", ";", ";", "id", ")", "{", "break", ";", "}",
              "}", "int", "id", ";">>}
LexErrorFiles ==
    UNION {{SubSeq(f, 1, i) \o <<LexError>> \o SubSeq(f, j, Len(f)) : i \in 0..Len(f), j \in 1..Len(f)} : f \in Refused}

MCFiles ==
    InFunction(Expressions \cup Statements \cup Loops \cup Declarations)
    \cup Externals \cup RecoveryFiles \cup LexErrorFiles

-----------------------------------------------------------------------------
\* The grammar.  Trees of each nonterminal are the ways in which a span is one,
\* written as the parser writes them.

Prefix(s, n) == SubSeq(s, 1, n)
Rest(s, n)   == SubSeq(s, n + 1, Len(s))
Joined(S, T, end) == {x \o y \o end : x \in S, y \in T}
Starts(s, tokens) == Len(s) >= Len(tokens) /\ Prefix(s, Len(tokens)) = tokens
\* The places of a token in s that leave something on both sides of it.
Places(s, token) == {i \in 2..(Len(s) - 1) : s[i] = token}
Ends(s, token)   == s # <<>> /\ Last(s) = token

RECURSIVE Assignments(_)
RECURSIVE Binaries(_, _)
RECURSIVE Unaries(_)
RECURSIVE Arguments(_)

Postfixes(s) ==
    LET \* A call's closing parenthesis is the last token.
        calls[n \in 0..Len(s)] ==
            IF n = 0 THEN {}
            ELSE LET t == Prefix(s, n)
                 IN  (IF n = 1 /\ t[1] \in Literals THEN {t} ELSE {})
                     \cup (IF n > 2 /\ t[1] = "(" /\ t[n] = ")" THEN Assignments(SubSeq(t, 2, n - 1)) ELSE {})
                     \cup (IF n > 2 /\ t[n] = ")"
                           THEN UNION {Joined({c \o <<"args">> : c \in calls[i - 1]},
                                              Arguments(SubSeq(t, i + 1, n - 1)), <<"call">>) :
                                          i \in {k \in 2..(n - 1) : t[k] = "("}}
                           ELSE {})
    IN  calls[Len(s)]

Arguments(s) ==
    (IF s = <<>> THEN {<<>>} ELSE Assignments(s))
    \cup UNION {Joined(Assignments(Prefix(s, i - 1)), Arguments(Rest(s, i)), <<>>) : i \in Places(s, ",")}

Unaries(s) ==
    Postfixes(s)
    \cup (IF Len(s) > 1 /\ s[1] \in Signs
          THEN {x \o <<"unary", s[1]>> : x \in Unaries(Tail(s))} ELSE {})

\* The binary operators from a rung of the ladder upwards.
Binaries(s, rung) ==
    LET rungs == {r \in rung..Len(Ladder) : Places(s, Ladder[r]) # {}}
    IN  IF rungs = {} THEN Unaries(s)
        ELSE LET r == Min(rungs)
             IN  Binaries(s, r + 1)
                 \cup UNION {Joined(Binaries(Prefix(s, i - 1), r), Binaries(Rest(s, i), r + 1), <<Ladder[r]>>) :
                                i \in Places(s, Ladder[r])}

Assignments(s) ==
    IF s = <<>> THEN {}
    ELSE Binaries(s, 1)
         \cup UNION {Joined(Binaries(Prefix(s, i - 1), 1), Assignments(Rest(s, i)), <<"=">>) : i \in Places(s, "=")}

\* A type and a name, and whether it declares a void object.
Declarators(s) ==
    IF Len(s) >= 2 /\ s[1] \in Types /\ Last(s) = "id"
          /\ \A i \in 2..(Len(s) - 1) : s[i] = "*"
    THEN {Front(s)} ELSE {}
Objects(s) == IF Starts(s, <<"void", "id">>) THEN {} ELSE Declarators(s)

\* A declaration with its semicolon, whose declarator is one of D.
DeclarationsOf(s, D(_)) ==
    IF ~Ends(s, ";") THEN {}
    ELSE LET t == Front(s)
         IN  {x \o <<"decl">> : x \in D(t)}
             \cup UNION {Joined(D(Prefix(t, i - 1)), Assignments(Rest(t, i)), <<"init", "decl">>) :
                            i \in Places(t, "=")}

OptionalExpressions(s) ==
    IF s = <<";">> THEN {s} ELSE IF Ends(s, ";") THEN Assignments(Front(s)) ELSE {}

RECURSIVE StatementsOf(_, _)
RECURSIVE Lists(_)
Blocks(s) ==
    IF Len(s) >= 2 /\ s[1] = "{" /\ Last(s) = "}"
    THEN {<<"{">> \o x \o <<"}">> : x \in Lists(SubSeq(s, 2, Len(s) - 1))} ELSE {}
Lists(s) ==
    IF s = <<>> THEN {<<>>}
    ELSE UNION {Joined(StatementsOf(Prefix(s, i), FALSE), Lists(Rest(s, i)), <<>>) : i \in 1..Len(s)}

\* The statements; closed ones are those that no else can follow, so that an
\* else belongs to the last if without one.
StatementsOf(s, closed) ==
    LET closes(k) == {i \in k..(Len(s) - 1) : s[i] = ")"}
        conditioned(i) == Assignments(SubSeq(s, 3, i - 1))
        ifs == IF ~Starts(s, <<"if", "(">>) THEN {}
               ELSE UNION {
                   LET c == {<<"if">> \o x : x \in conditioned(i)}
                   IN  (IF closed THEN {} ELSE Joined(c, StatementsOf(Rest(s, i), FALSE), <<"fi">>))
                       \cup UNION {Joined(Joined(c, StatementsOf(SubSeq(s, i + 1, j - 1), TRUE), <<"else">>),
                                          StatementsOf(Rest(s, j), closed), <<"fi">>) :
                                      j \in {k \in (i + 2)..(Len(s) - 1) : s[k] = "else"}}
                   : i \in closes(4)}
        whiles == IF ~Starts(s, <<"while", "(">>) THEN {}
                  ELSE UNION {Joined({<<"while">> \o x : x \in conditioned(i)}, StatementsOf(Rest(s, i), closed), <<>>) :
                                 i \in closes(4)}
        semicolons == {i \in 3..Len(s) : s[i] = ";"}
        post(t) == IF t = <<>> THEN {<<";">>} ELSE Assignments(t)
        fors == IF ~Starts(s, <<"for", "(">>) THEN {}
                ELSE UNION {
                    LET init == SubSeq(s, 3, i)
                    IN  Joined(Joined({<<"for">> \o x : x \in OptionalExpressions(init) \cup DeclarationsOf(init, Objects)},
                                      OptionalExpressions(SubSeq(s, i + 1, j)), <<>>),
                               Joined(post(SubSeq(s, j + 1, k - 1)), StatementsOf(Rest(s, k), closed), <<>>), <<>>)
                    : <<i, j, k>> \in {p \in semicolons \X semicolons \X closes(5) : p[1] < p[2] /\ p[2] < p[3]}}
    IN  {x \o <<"expression">> : x \in OptionalExpressions(s)}
        \cup (IF s # <<>> /\ s[1] = "return" THEN {x \o <<"return">> : x \in OptionalExpressions(Tail(s))} ELSE {})
        \cup DeclarationsOf(s, Objects)
        \cup Blocks(s) \cup ifs \cup whiles \cup fors

RECURSIVE ParametersOf(_)
ParametersOf(s) ==
    Objects(s) \cup UNION {Joined(Objects(Prefix(s, i - 1)), ParametersOf(Rest(s, i)), <<>>) : i \in Places(s, ",")}

ExternalsOf(s) ==
    DeclarationsOf(s, Declarators)
    \cup UNION {
        LET head == Joined({d \o <<"function">> : d \in Declarators(Prefix(s, i - 1))},
                           IF j = i + 1 THEN {<<>>} ELSE ParametersOf(SubSeq(s, i + 1, j - 1)), <<>>)
        IN  Joined(head, (IF Rest(s, j) = <<";">> THEN {<<"prototype">>} ELSE Blocks(Rest(s, j))), <<>>)
        : <<i, j>> \in {p \in (3..Len(s)) \X (4..Len(s)) : p[1] < p[2] /\ s[p[1]] = "(" /\ s[p[2]] = ")"}}

RECURSIVE Units(_)
Units(s) ==
    IF s = <<>> THEN {<<>>}
    ELSE UNION {Joined(ExternalsOf(Prefix(s, i)), Units(Rest(s, i)), <<>>) :
                   i \in {k \in 1..Len(s) : s[k] \in {";", "}"}}}

TreesOf == [f \in Files |-> IF \E i \in DOMAIN f : f[i] = LexError \/ f[i] \in Unsupported THEN {} ELSE Units(f)]

\* The parser accepts the texts of the grammar and no others, and the tree it
\* builds is the only one the grammar gives them: precedence, associativity, the
\* nearest if of an else, what a semicolon or parenthesis closes.  In
\* particular no failure goes without a diagnostic, which would silently drop a
\* statement (parseExpression, parseStatement, addDiagnostic).
AcceptsTheLanguage ==
    result # "none" =>
        /\ result = "accepted" <=> TreesOf[input] # {}
        /\ result = "accepted" => TreesOf[input] = {out}

\* A statement or declaration with a construct that v0 does not support is
\* reported once, and nothing else is: recovery neither skips what follows it nor
\* stops within it (synchronizeStatement, synchronizeTopLevel).  The texts are
\* those where the parser looks for the construct, which for ?, a comma or a
\* compound assignment is behind a whole expression and for ? behind an argument,
\* not within other parentheses; and where recovery finds the end: behind the
\* construct the statement has no brace, semicolon or else left, the declaration
\* no type, and no declaration of an unsupported type comes next.
UnsupportedReportedOnce ==
    result # "none" =>
        \A n \in DOMAIN Reported : input \in Reported[n] => diagnostics = [i \in 1..n |-> "unsupported"]

=============================================================================
