------------------------------ MODULE CParser -------------------------------
(***************************************************************************)
(* parser/parser.go: the recursive descent parser with its recovery from   *)
(* errors, over the tokens of a file.                                      *)
(*                                                                         *)
(* The functions that are still to run, the current one first, are a stack *)
(* of goals; a function that looks at a token replaces its goal by what it *)
(* calls next.  A token is its type; one identifier, two literals and one  *)
(* binary operator for each of the ten precedences of infixPrecedence are  *)
(* enough, of which three are prefix operators too.  The AST is written to *)
(* out in the order in which its nodes are completed.                      *)
(***************************************************************************)
EXTENDS Naturals, Sequences

CONSTANT Files      \* the sequences of tokens

ASSUME FilesAssumption == Files \subseteq Seq(STRING)

VARIABLES
    input,          \* the tokens, LexError for one the lexer refuses
    at,             \* the next of them
    stack,          \* the goals
    voidType,       \* the type just read is void without a pointer
    out,            \* the AST so far
    fatal,          \* p.fatalLexErr is set
    diagnostics,
    result          \* what ParseTranslationUnit returned

vars == <<input, at, stack, voidType, out, fatal, diagnostics, result>>

LexError == "error"
EOF      == "EOF"

Types       == {"int", "void"}
Literals    == {"id", "num"}
PrefixOps   == {"-", "*", "&", "!"}
CompoundOps == {"+="}

\* Seeded bug: & and == are the other way round.
PrecedenceOfAmpersand ==
    [op \in {"||", "&&", "|", "^", "&", "==", "<", "<<", "-", "*"} |->
        CASE op = "||" -> 1 [] op = "&&" -> 2 [] op = "|" -> 3 [] op = "^" -> 4 [] op = "&" -> 6
          [] op = "==" -> 5 [] op = "<" -> 7 [] op = "<<" -> 8 [] op = "-" -> 9 [] op = "*" -> 10]

\* infixPrecedence
Precedence ==
    [op \in {"||", "&&", "|", "^", "&", "==", "<", "<<", "-", "*"} |->
        CASE op = "||" -> 1 [] op = "&&" -> 2 [] op = "|" -> 3 [] op = "^" -> 4 [] op = "&" -> 5
          [] op = "==" -> 6 [] op = "<" -> 7 [] op = "<<" -> 8 [] op = "-" -> 9 [] op = "*" -> 10]
InfixOps == DOMAIN Precedence

UnsupportedTypes      == {"struct", "union", "float"}
UnsupportedStatements == {"struct", "switch", "break"}

-----------------------------------------------------------------------------
\* Goals.

Goal(name)      == <<name, EOF>>
Expect(token)   == <<"expect", token>>
Build(node)     == <<"build", node>>
Infix(minPrec)  == <<"infix", minPrec>>

Expression(minPrec) == <<Goal("unary"), Infix(minPrec)>>
\* parseExpression(0) and hasDisallowedExprTail
WholeExpression  == Expression(0) \o <<Goal("exprTail")>>
Declarator       == <<Goal("stars"), Goal("noFunctionPointer"), Expect("id"), Goal("noArray")>>
Condition        == <<Expect("(")>> \o WholeExpression \o <<Expect(")")>>
LocalDeclaration == <<Goal("type")>> \o Declarator \o <<Goal("noVoid"), Goal("declTail")>>
Parameter        == <<Goal("type")>> \o Declarator \o <<Goal("noVoid"), Goal("moreParams")>>
Block            == <<Expect("{"), Build("{"), Goal("items")>>

\* The current goal.
Runs(name) == stack # <<>> /\ stack[1][1] = name
arg  == stack[1][2]

\* peekTok: a token the lexer refuses reads as the end of the file, once.
tok == IF at > Len(input) \/ input[at] = LexError THEN EOF ELSE input[at]
atLexError == at <= Len(input) /\ input[at] = LexError

\* Seeded bug: a refused token is only the end of the file.
LookQuietly ==
    /\ at' = IF atLexError THEN at + 1 ELSE at
    /\ UNCHANGED fatal

\* The token is looked at and left, or taken.
Look ==
    /\ at' = IF atLexError THEN at + 1 ELSE at
    /\ fatal' = (fatal \/ atLexError)
Take == at' = at + 1 /\ UNCHANGED fatal

Continue(goals) ==
    /\ stack' = goals \o Tail(stack)
    /\ UNCHANGED <<input, out, diagnostics, result>>

Leave(goals)  == Look /\ Continue(goals) /\ UNCHANGED voidType
Accept(goals) == Take /\ Continue(goals) /\ UNCHANGED voidType

\* A function returns false: so do its callers, up to the block whose statement
\* it was, or to the top level.
Unwind(goals) ==
    LET blocks == {i \in DOMAIN goals : goals[i][1] = "items"}
    IN  IF blocks = {} THEN <<Goal("recover")>>
        ELSE LET i == CHOOSE k \in blocks : \A j \in blocks : k <= j
             IN  <<Goal("syncStatement")>> \o SubSeq(goals, i, Len(goals))

FailTaking(diagnostic, takes) ==
    /\ IF takes THEN Take ELSE Look
    /\ diagnostics' = Append(diagnostics, diagnostic)
    /\ stack' = Unwind(Tail(stack))
    /\ out' = <<>>
    /\ UNCHANGED <<input, voidType, result>>
Fail(diagnostic) == FailTaking(diagnostic, FALSE)

-----------------------------------------------------------------------------
\* expect takes the token that it refuses, too.
ExpectToken ==
    /\ Runs("expect")
    /\ IF tok = arg THEN Accept(<<>>) ELSE FailTaking("syntax", tok # EOF)

BuildNode ==
    /\ Runs("build")
    /\ out' = Append(out, arg)
    /\ stack' = Tail(stack)
    /\ UNCHANGED <<input, at, voidType, fatal, diagnostics, result>>

ParseTranslationUnit ==
    /\ Runs("unit")
    /\ IF tok = EOF
       THEN Leave(<<Goal("finish")>>)
       ELSE Leave(<<Goal("type")>> \o Declarator \o <<Goal("external"), Goal("unit")>>)

\* finishError
Finish ==
    /\ Runs("finish")
    /\ result' = CASE fatal -> "fatal"
                   [] ~fatal /\ diagnostics # <<>> -> "rejected"
                   [] OTHER -> "accepted"
    /\ stack' = <<>>
    /\ UNCHANGED <<input, at, voidType, out, fatal, diagnostics>>

ParseExternalDeclaration ==
    \/ /\ Runs("external")
       /\ IF tok = "("
          THEN Accept(<<Build("function"), Goal("params"), Expect(")"), Goal("body")>>)
          ELSE Leave(<<Goal("declTail")>>)
    \/ /\ Runs("body")
       /\ IF tok = ";" THEN Accept(<<Build("prototype")>>) ELSE Leave(Block)

ParseTypeName ==
    /\ Runs("type")
    /\ \/ /\ tok \in Types
          /\ Take /\ Continue(<<Build(tok)>>)
          /\ voidType' = (tok = "void")
       \/ tok \in UnsupportedTypes /\ FailTaking("unsupported", TRUE)
       \/ tok \notin Types \cup UnsupportedTypes /\ Fail("syntax")

ParseDeclarator ==
    \/ /\ Runs("stars")
       /\ IF tok = "*"
          THEN Take /\ Continue(<<Build("*"), Goal("stars")>>) /\ voidType' = FALSE
          ELSE Leave(<<>>)
    \/ /\ Runs("noFunctionPointer")
       /\ IF tok = "(" THEN Fail("unsupported") ELSE Leave(<<>>)
    \/ /\ Runs("noArray")
       /\ IF tok = "[" THEN Fail("unsupported") ELSE Leave(<<>>)
    \/ /\ Runs("noVoid")
       /\ IF voidType
          THEN /\ diagnostics' = Append(diagnostics, "unsupported")
               /\ stack' = Unwind(Tail(stack)) /\ out' = <<>>
               /\ UNCHANGED <<input, at, voidType, fatal, result>>
          ELSE Continue(<<>>) /\ UNCHANGED <<at, voidType, fatal>>

ParseParameterList ==
    \/ /\ Runs("params")
       /\ IF tok = ")" THEN Leave(<<>>) ELSE Leave(<<Goal("noEllipsis")>> \o Parameter)
    \/ /\ Runs("noEllipsis")
       /\ IF tok = "..." THEN Fail("unsupported") ELSE Leave(<<>>)
    \/ /\ Runs("moreParams")
       /\ IF tok = "," THEN Accept(<<Goal("noEllipsis")>> \o Parameter) ELSE Leave(<<>>)

ParseDeclarationTail ==
    \/ /\ Runs("declTail")
       /\ IF tok = "="
          THEN Accept(WholeExpression \o <<Build("init"), Goal("declEnd")>>)
          ELSE Leave(<<Goal("declEnd")>>)
    \/ /\ Runs("declEnd")
       /\ IF tok = "," THEN FailTaking("unsupported", TRUE)
          ELSE Leave(<<Expect(";"), Build("decl")>>)

-----------------------------------------------------------------------------
\* Statements.

ParseStatement ==
    /\ Runs("statement")
    /\ \/ tok = "{"      /\ Leave(Block)
       \/ tok = "return" /\ Accept(<<Goal("returnValue"), Build("return")>>)
       \/ tok = "if"     /\ Accept(<<Build("if")>> \o Condition
                                   \o <<Goal("statement"), Goal("else"), Build("fi")>>)
       \/ tok = "while"  /\ Accept(<<Build("while")>> \o Condition \o <<Goal("statement")>>)
       \/ tok = "for"    /\ Accept(<<Build("for"), Expect("("), Goal("forInit"), Goal("forCond"),
                                     Goal("forPost"), Expect(")"), Goal("statement")>>)
       \/ tok \in Types  /\ Leave(LocalDeclaration)
       \/ tok \in UnsupportedStatements /\ Fail("unsupported")
       \/ /\ tok \notin {"{", "return", "if", "while", "for"} \cup Types \cup UnsupportedStatements
          /\ Leave(<<Goal("expressionStatement"), Build("expression")>>)

\* parseExpressionStatement, parseReturnStatement and the condition of a for:
\* a semicolon, or an expression with one.
ParseOptionalExpression ==
    /\ Runs("expressionStatement") \/ Runs("returnValue") \/ Runs("forCond")
    /\ IF tok = ";" THEN Accept(<<Build(";")>>)
       ELSE Leave(WholeExpression \o <<Expect(";")>>)

ParseElse ==
    /\ Runs("else")
    /\ IF tok = "else" THEN Accept(<<Build("else"), Goal("statement")>>) ELSE Leave(<<>>)

ParseForStatement ==
    \/ /\ Runs("forInit")
       /\ IF tok = ";" THEN Accept(<<Build(";")>>) ELSE Leave(<<Goal("forInitNonempty")>>)
    \/ /\ Runs("forInitNonempty")
       /\ IF tok \in Types THEN Leave(LocalDeclaration)
          ELSE Leave(WholeExpression \o <<Expect(";")>>)
    \/ /\ Runs("forPost")
       /\ IF tok = ")" THEN Leave(<<Build(";")>>) ELSE Leave(WholeExpression)

\* parseBlockStatement: the statements up to the brace.  A block that the end of
\* the file cuts off fails for its caller.
ParseBlockStatement ==
    /\ Runs("items")
    /\ \/ tok = "}" /\ Accept(<<Build("}")>>)
       \/ tok = EOF /\ Fail("syntax")
       \/ tok \notin {"}", EOF} /\ Leave(<<Goal("statement"), Goal("items")>>)

-----------------------------------------------------------------------------
\* Expressions.

\* Seeded bug: binary operators associate to the right.
ParseExpressionToTheRight ==
    /\ Runs("infix")
    /\ \/ tok = "=" /\ arg > 0 /\ Leave(<<>>)
       \/ tok = "=" /\ arg = 0 /\ Accept(Expression(0) \o <<Build("="), Infix(0)>>)
       \/ /\ tok \in InfixOps /\ Precedence[tok] >= arg
          /\ Accept(Expression(Precedence[tok]) \o <<Build(tok), Infix(arg)>>)
       \/ tok # "=" /\ (tok \in InfixOps => Precedence[tok] < arg) /\ Leave(<<>>)

\* The loop of parseExpression(minPrec).
ParseExpression ==
    /\ Runs("infix")
    /\ \/ tok = "=" /\ arg > 0 /\ Leave(<<>>)
       \/ tok = "=" /\ arg = 0 /\ Accept(Expression(0) \o <<Build("="), Infix(0)>>)
       \/ /\ tok \in InfixOps /\ Precedence[tok] >= arg
          /\ Accept(Expression(Precedence[tok] + 1) \o <<Build(tok), Infix(arg)>>)
       \/ tok # "=" /\ (tok \in InfixOps => Precedence[tok] < arg) /\ Leave(<<>>)

ParseUnaryExpression ==
    /\ Runs("unary")
    /\ IF tok \in PrefixOps
       THEN Accept(<<Goal("unary"), Build("unary"), Build(tok)>>)
       ELSE Leave(<<Goal("primary"), Goal("postfix")>>)

ParsePostfixExpression ==
    \/ /\ Runs("postfix")
       /\ IF tok = "("
          THEN Accept(<<Build("args"), Goal("args"), Expect(")"), Build("call"), Goal("postfix")>>)
          ELSE Leave(<<>>)
    \/ /\ Runs("args")
       /\ IF tok = ")" THEN Leave(<<>>) ELSE Leave(Expression(0) \o <<Goal("argTail")>>)
    \/ /\ Runs("argTail")
       /\ IF tok = "?" THEN Fail("unsupported") ELSE Leave(<<Goal("moreArgs")>>)
    \/ /\ Runs("moreArgs")
       /\ IF tok = "," THEN Accept(Expression(0) \o <<Goal("argTail")>>) ELSE Leave(<<>>)

ParsePrimaryExpression ==
    \/ /\ Runs("primary")
       /\ \/ tok \in Literals /\ Accept(<<Build(tok)>>)
          \/ tok = "("        /\ Accept(<<Goal("noCast")>> \o Expression(0) \o <<Expect(")")>>)
          \/ tok = "++"       /\ Fail("unsupported")
          \/ tok \notin Literals \cup {"(", "++"} /\ Fail("syntax")
    \/ /\ Runs("noCast")
       /\ IF tok \in Types THEN Fail("unsupported") ELSE Leave(<<>>)

HasDisallowedExprTail ==
    /\ Runs("exprTail")
    /\ IF tok \in {"?", ","} \cup CompoundOps THEN Fail("unsupported") ELSE Leave(<<>>)

-----------------------------------------------------------------------------
\* Recovery.

\* Seeded bug: the token that is skipped is not taken.
SynchronizeStatementInPlace ==
    /\ Runs("syncStatement")
    /\ \/ tok \in {EOF, "}"} /\ Leave(<<>>)
       \/ tok = ";"          /\ Accept(<<>>)
       \/ tok \notin {EOF, "}", ";"} /\ Leave(<<Goal("syncStatement")>>)

\* Seeded bug: the rest of the block is skipped.
SynchronizeBlock ==
    /\ Runs("syncStatement")
    /\ \/ tok \in {EOF, "}"} /\ Leave(<<>>)
       \/ tok \notin {EOF, "}"} /\ Accept(<<Goal("syncStatement")>>)

SynchronizeStatement ==
    /\ Runs("syncStatement")
    /\ \/ tok \in {EOF, "}"} /\ Leave(<<>>)
       \/ tok = ";"          /\ Accept(<<>>)
       \/ tok \notin {EOF, "}", ";"} /\ Accept(<<Goal("syncStatement")>>)

SynchronizeTopLevel ==
    \/ /\ Runs("recover")
       /\ IF tok = EOF THEN Leave(<<Goal("finish")>>) ELSE Leave(<<Goal("syncTopLevel")>>)
    \/ /\ Runs("syncTopLevel")
       /\ IF tok \in {EOF} \cup Types THEN Leave(<<Goal("unit")>>)
          ELSE Accept(<<Goal("syncTopLevel")>>)

-----------------------------------------------------------------------------
Init ==
    /\ input \in Files
    /\ at = 1 /\ stack = <<Goal("unit")>>
    /\ voidType = FALSE /\ out = <<>> /\ fatal = FALSE /\ diagnostics = <<>>
    /\ result = "none"

Next ==
    \/ ExpectToken \/ BuildNode \/ ParseTranslationUnit \/ Finish \/ ParseExternalDeclaration
    \/ ParseTypeName \/ ParseDeclarator \/ ParseParameterList \/ ParseDeclarationTail
    \/ ParseStatement \/ ParseOptionalExpression \/ ParseElse \/ ParseForStatement
    \/ ParseBlockStatement \/ ParseExpression \/ ParseUnaryExpression \/ ParsePostfixExpression
    \/ ParsePrimaryExpression \/ HasDisallowedExprTail \/ SynchronizeStatement
    \/ SynchronizeTopLevel

Spec == Init /\ [][Next]_vars

\* ParseTranslationUnit runs to its end.
FairSpec == Spec /\ WF_vars(Next)

-----------------------------------------------------------------------------
\* A token that the lexer refuses and the parser reads, if only to look at it
\* while it recovers from another error, is what the parse ends with: its
\* reading as an end of the file never lets the text around it pass
\* (normalizeToken, fatalLexErr).
FatalLexerErrorWins ==
    result # "none" => (result = "fatal" <=> \E i \in 1..(at - 1) : input[i] = LexError)

\* The parser ends for every sequence of tokens: recovery from an error always
\* leaves a token less, or a block less (synchronizeStatement,
\* synchronizeTopLevel, the loops of parseBlockStatement).
Terminates == <>(result # "none")

=============================================================================
