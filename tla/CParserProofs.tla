--------------------------- MODULE CParserProofs ---------------------------
(***************************************************************************)
(* A theorem about the parser, for files of any length.                    *)
(***************************************************************************)
EXTENDS CParser, SequenceTheorems, WellFoundedInduction, TLAPS

(***************************************************************************)
(* The goals that can be on the stack.                                     *)
(***************************************************************************)

GoalNames ==
    {"unit", "finish", "type", "stars", "noFunctionPointer", "noArray", "noVoid", "external",
     "body", "params", "noEllipsis", "moreParams", "declTail", "declEnd", "statement", "items",
     "else", "forInit", "forInitNonempty", "forCond", "forPost", "expressionStatement",
     "returnValue", "unary", "primary", "noCast", "postfix", "args", "argTail", "moreArgs",
     "exprTail", "syncStatement", "recover", "syncTopLevel"}
Nodes ==
    {"{", "}", ";", "function", "prototype", "init", "decl", "return", "if", "fi", "while",
     "for", "else", "expression", "=", "unary", "args", "call"}
        \cup Types \cup Literals \cup PrefixOps \cup InfixOps
Goals == {Goal(n) : n \in GoalNames} \cup {Build(n) : n \in Nodes} \cup {Infix(m) : m \in Nat}
             \cup {Expect(t) : t \in {"(", ")", "{", ";", "id"}}

\* The goals that the functions put on the stack.
LEMMA GoalsTyped ==
    /\ \A n \in GoalNames : Goal(n) \in Goals
    /\ \A n \in Nodes : Build(n) \in Goals
    /\ \A m \in Nat : Infix(m) \in Goals
    /\ \A t \in {"(", ")", "{", ";", "id"} : Expect(t) \in Goals
BY DEF Goals

LEMMA NodesTyped ==
    /\ Build("{") \in Goals /\ Build("}") \in Goals /\ Build(";") \in Goals
    /\ Build("function") \in Goals /\ Build("prototype") \in Goals /\ Build("init") \in Goals
    /\ Build("decl") \in Goals /\ Build("return") \in Goals /\ Build("if") \in Goals
    /\ Build("fi") \in Goals /\ Build("while") \in Goals /\ Build("for") \in Goals
    /\ Build("else") \in Goals /\ Build("expression") \in Goals /\ Build("=") \in Goals
    /\ Build("unary") \in Goals /\ Build("args") \in Goals /\ Build("call") \in Goals
    /\ Build("*") \in Goals
    /\ \A n \in Types \cup Literals \cup PrefixOps \cup InfixOps : Build(n) \in Goals
BY GoalsTyped DEF Nodes, PrefixOps

LEMMA NamesTyped ==
    /\ Goal("unit") \in Goals /\ Goal("finish") \in Goals /\ Goal("type") \in Goals
    /\ Goal("stars") \in Goals /\ Goal("noFunctionPointer") \in Goals /\ Goal("noArray") \in Goals
    /\ Goal("noVoid") \in Goals /\ Goal("external") \in Goals /\ Goal("body") \in Goals
    /\ Goal("params") \in Goals /\ Goal("noEllipsis") \in Goals /\ Goal("moreParams") \in Goals
    /\ Goal("declTail") \in Goals /\ Goal("declEnd") \in Goals /\ Goal("statement") \in Goals
    /\ Goal("items") \in Goals /\ Goal("else") \in Goals /\ Goal("forInit") \in Goals
    /\ Goal("forInitNonempty") \in Goals /\ Goal("forCond") \in Goals /\ Goal("forPost") \in Goals
    /\ Goal("expressionStatement") \in Goals /\ Goal("returnValue") \in Goals
    /\ Goal("unary") \in Goals /\ Goal("primary") \in Goals /\ Goal("noCast") \in Goals
    /\ Goal("postfix") \in Goals /\ Goal("args") \in Goals /\ Goal("argTail") \in Goals
    /\ Goal("moreArgs") \in Goals /\ Goal("exprTail") \in Goals /\ Goal("syncStatement") \in Goals
    /\ Goal("recover") \in Goals /\ Goal("syncTopLevel") \in Goals
BY GoalsTyped DEF GoalNames

LEMMA TuplesTyped ==
    /\ <<>> \in Seq(Goals)
    /\ \A a \in Goals : <<a>> \in Seq(Goals)
    /\ \A a, b \in Goals : <<a, b>> \in Seq(Goals)
    /\ \A a, b, c \in Goals : <<a, b, c>> \in Seq(Goals)
    /\ \A a, b, c, d \in Goals : <<a, b, c, d>> \in Seq(Goals)
    /\ \A a, b, c, d, e \in Goals : <<a, b, c, d, e>> \in Seq(Goals)
    /\ \A a, b, c, d, e, f, g \in Goals : <<a, b, c, d, e, f, g>> \in Seq(Goals)
OBVIOUS

LEMMA ListsTyped ==
    /\ \A m \in Nat : Expression(m) \in Seq(Goals)
    /\ WholeExpression \in Seq(Goals) /\ Declarator \in Seq(Goals) /\ Condition \in Seq(Goals)
    /\ LocalDeclaration \in Seq(Goals) /\ Parameter \in Seq(Goals) /\ Block \in Seq(Goals)
    /\ Expect("(") \in Goals /\ Expect(")") \in Goals /\ Expect("{") \in Goals
    /\ Expect(";") \in Goals /\ Expect("id") \in Goals
<1>1. /\ Expect("(") \in Goals /\ Expect(")") \in Goals /\ Expect("{") \in Goals
      /\ Expect(";") \in Goals /\ Expect("id") \in Goals
  BY GoalsTyped
<1>2. \A m \in Nat : Expression(m) \in Seq(Goals)
  BY GoalsTyped, NamesTyped, TuplesTyped DEF Expression
<1>3. Declarator \in Seq(Goals) /\ Block \in Seq(Goals)
  BY <1>1, NamesTyped, NodesTyped, TuplesTyped DEF Declarator, Block
<1>4. /\ <<Goal("exprTail")>> \in Seq(Goals) /\ <<Goal("type")>> \in Seq(Goals)
      /\ <<Expect("(")>> \in Seq(Goals) /\ <<Expect(")")>> \in Seq(Goals)
      /\ <<Goal("noVoid"), Goal("declTail")>> \in Seq(Goals)
      /\ <<Goal("noVoid"), Goal("moreParams")>> \in Seq(Goals)
  BY <1>1, NamesTyped, TuplesTyped
<1>5. WholeExpression \in Seq(Goals)
  BY <1>2, <1>4, ConcatProperties DEF WholeExpression
<1>6. Condition \in Seq(Goals)
  BY <1>4, <1>5, ConcatProperties DEF Condition
<1>7. LocalDeclaration \in Seq(Goals) /\ Parameter \in Seq(Goals)
  BY <1>3, <1>4, ConcatProperties DEF LocalDeclaration, Parameter
<1> QED BY <1>1, <1>2, <1>3, <1>5, <1>6, <1>7

\* What is expected is never the end of the file.
LEMMA ExpectedTokens ==
    ASSUME NEW g \in Goals, g[1] = "expect"
    PROVE  g[2] # EOF
<1>1. CASE \E n \in GoalNames : g = Goal(n)
  BY <1>1 DEF GoalNames, Goal
<1>2. CASE \E n \in Nodes : g = Build(n)
  BY <1>2 DEF Build
<1>3. CASE \E m \in Nat : g = Infix(m)
  BY <1>3 DEF Infix
<1>4. CASE \E t \in {"(", ")", "{", ";", "id"} : g = Expect(t)
  <2>1. PICK t \in {"(", ")", "{", ";", "id"} : g = Expect(t)
    BY <1>4
  <2>2. g[2] = t
    BY <2>1 DEF Expect
  <2>3. t # EOF
    BY DEF EOF
  <2> QED BY <2>2, <2>3
<1> QED BY <1>1, <1>2, <1>3, <1>4 DEF Goals

\* The argument of the expression loop is a precedence.
LEMMA InfixTyped ==
    ASSUME NEW g \in Goals, g[1] = "infix"
    PROVE  g[2] \in Nat
<1>1. CASE \E n \in GoalNames : g = Goal(n)
  BY <1>1 DEF GoalNames, Goal
<1>2. CASE \E n \in Nodes : g = Build(n)
  BY <1>2 DEF Build
<1>3. CASE \E m \in Nat : g = Infix(m)
  <2>1. PICK m \in Nat : g = Infix(m)
    BY <1>3
  <2>2. g[2] = m
    BY <2>1 DEF Infix
  <2> QED BY <2>2
<1>4. CASE \E t \in {"(", ")", "{", ";", "id"} : g = Expect(t)
  <2>1. PICK t \in {"(", ")", "{", ";", "id"} : g = Expect(t)
    BY <1>4
  <2>2. g[1] = "expect"
    BY <2>1 DEF Expect
  <2> QED BY <2>2
<1> QED BY <1>1, <1>2, <1>3, <1>4 DEF Goals

LEMMA PrecedenceTyped ==
    ASSUME NEW op \in InfixOps
    PROVE  Precedence[op] + 1 \in Nat /\ op # EOF
<1>1. op \in {"||", "&&", "|", "^", "&", "==", "<", "<<", "-", "*"}
  BY DEF InfixOps, Precedence
<1>2. Precedence[op] \in Nat
  BY <1>1 DEF Precedence
<1>3. \A n \in Nat : n + 1 \in Nat
  OBVIOUS
<1>4. op # EOF
  BY <1>1 DEF EOF
<1> QED BY <1>2, <1>3, <1>4

(***************************************************************************)
(* A refused token is remembered.                                          *)
(***************************************************************************)

RefusedBefore(n) == \E i \in 1..(n - 1) : input[i] = LexError

Inv ==
    /\ Len(input) \in Nat
    /\ stack \in Seq(Goals)
    /\ at \in Nat \ {0}
    /\ fatal \in BOOLEAN
    /\ fatal <=> RefusedBefore(at)
    /\ result # "none" => stack = <<>> /\ (result = "fatal" <=> fatal)

LEMMA TopTyped ==
    ASSUME Inv, stack # <<>>
    PROVE  stack[1] \in Goals
<1>1. stack \in Seq(Goals) /\ Len(stack) \in Nat \ {0}
  BY EmptySeq DEF Inv
<1> QED BY <1>1, ElementOfSeq

\* A token is taken or looked at: taken only when the lexer did not refuse it.
LEMMA TokensRead ==
    ASSUME Inv, UNCHANGED input, Look \/ (Take /\ tok # EOF)
    PROVE  at' \in Nat \ {0} /\ fatal' \in BOOLEAN /\ (fatal' <=> RefusedBefore(at)')
<1>1. at \in Nat \ {0} /\ fatal \in BOOLEAN /\ (fatal <=> RefusedBefore(at)) /\ Len(input) \in Nat
  BY DEF Inv
<1>2. ASSUME at' = at + 1
      PROVE  RefusedBefore(at)' <=> RefusedBefore(at) \/ input[at] = LexError
  BY <1>1, <1>2 DEF RefusedBefore
<1>3. CASE Look /\ atLexError
  <2>1. at' = at + 1 /\ input[at] = LexError /\ fatal' = (fatal \/ atLexError)
    BY <1>3 DEF Look, atLexError
  <2>2. fatal' = TRUE
    BY <1>1, <1>3, <2>1
  <2> QED BY <1>1, <1>2, <2>1, <2>2
<1>4. CASE Look /\ ~atLexError
  <2>1. at' = at /\ fatal' = (fatal \/ atLexError)
    BY <1>4 DEF Look
  <2>2. fatal' = fatal
    BY <1>1, <1>4, <2>1
  <2> QED BY <1>1, <2>1, <2>2 DEF RefusedBefore
<1>5. CASE Take /\ tok # EOF
  <2>1. input[at] # LexError
    BY <1>5 DEF tok
  <2> QED BY <1>1, <1>2, <1>5, <2>1 DEF Take
<1> QED BY <1>3, <1>4, <1>5

\* A function that goes on, and one that fails.
LEMMA ContinueKeeps ==
    ASSUME Inv, stack # <<>>, NEW goals \in Seq(Goals), Continue(goals),
           Look \/ (Take /\ tok # EOF) \/ UNCHANGED <<at, fatal>>
    PROVE  Inv'
<1>1. Tail(stack) \in Seq(Goals)
  BY HeadTailProperties DEF Inv
<1>2. stack' \in Seq(Goals)
  BY <1>1, ConcatProperties DEF Continue
<1>3. UNCHANGED <<input, result>> /\ result = "none"
  BY DEF Continue, Inv
<1>4. at' \in Nat \ {0} /\ fatal' \in BOOLEAN /\ (fatal' <=> RefusedBefore(at)')
  BY <1>3, TokensRead DEF Inv, RefusedBefore
<1> QED BY <1>2, <1>3, <1>4 DEF Inv

LEMMA LeaveKeeps ==
    ASSUME Inv, stack # <<>>, NEW goals \in Seq(Goals), Leave(goals)
    PROVE  Inv'
BY ContinueKeeps DEF Leave

LEMMA AcceptKeeps ==
    ASSUME Inv, stack # <<>>, NEW goals \in Seq(Goals), Accept(goals), tok # EOF
    PROVE  Inv'
BY ContinueKeeps DEF Accept

\* A non-empty set of naturals has a least element.
LEMMA LeastNatural ==
    ASSUME NEW T \in SUBSET Nat, T # {}
    PROVE  \E m \in T : \A k \in T : m <= k
<1>1. PICK m \in T : \A k \in T : ~ (<<k, m>> \in OpToRel(<, Nat))
  BY WFMin, NatLessThanWellFounded
<1>2. \A k \in T : m <= k
  <2> TAKE k \in T
  <2>1. ~ (k < m)
    BY <1>1 DEF OpToRel
  <2> QED BY <2>1
<1> QED BY <1>2

LEMMA UnwindTyped ==
    ASSUME NEW goals \in Seq(Goals)
    PROVE  Unwind(goals) \in Seq(Goals)
<1> DEFINE blocks == {i \in DOMAIN goals : goals[i][1] = "items"}
           i == CHOOSE k \in blocks : \A j \in blocks : k <= j
<1>1. CASE blocks = {}
  BY <1>1, NamesTyped DEF Unwind
<1>2. CASE blocks # {}
  <2>1. \E k \in blocks : \A j \in blocks : k <= j
    <3>1. blocks \subseteq Nat
      BY LenProperties
    <3> QED BY <1>2, <3>1, LeastNatural
  <2>2. i \in 1..Len(goals)
    BY <2>1, LenProperties
  <2> HIDE DEF i
  <2>3. SubSeq(goals, i, Len(goals)) \in Seq(Goals)
    <3>1. Len(goals) \in Nat /\ \A k \in i..Len(goals) : goals[k] \in Goals
      BY <2>2, LenProperties, ElementOfSeq
    <3> QED BY <2>2, <3>1, SubSeqProperties
  <2> USE DEF i
  <2>4. <<Goal("syncStatement")>> \o SubSeq(goals, i, Len(goals)) \in Seq(Goals)
    BY <2>3, NamesTyped, ConcatProperties
  <2> QED BY <1>2, <2>4 DEF Unwind
<1> QED BY <1>1, <1>2

LEMMA FailKeeps ==
    ASSUME Inv, stack # <<>>, NEW d, NEW takes \in BOOLEAN, takes => tok # EOF,
           FailTaking(d, takes)
    PROVE  Inv'
<1>1. Tail(stack) \in Seq(Goals)
  BY HeadTailProperties DEF Inv
<1>2. stack' \in Seq(Goals) /\ UNCHANGED <<input, result>> /\ result = "none"
  BY <1>1, UnwindTyped DEF FailTaking, Inv
<1>3. Look \/ (Take /\ tok # EOF)
  BY DEF FailTaking
<1> QED BY <1>2, <1>3, TokensRead DEF Inv

\* All of them, for an action of a function that runs.
LEMMA StepKeeps ==
    ASSUME Inv, stack # <<>>,
           \/ \E goals \in Seq(Goals) : Leave(goals)
           \/ tok # EOF /\ \E goals \in Seq(Goals) : Accept(goals)
           \/ \E d : Fail(d)
           \/ tok # EOF /\ \E d : FailTaking(d, TRUE)
    PROVE  Inv'
BY LeaveKeeps, AcceptKeeps, FailKeeps DEF Fail

\* A token that the lexer refuses and the parser reads is what the parse ends
\* with, for every file and wherever the token is.
THEOREM RefusedTokensEndTheParse == Spec => []FatalLexerErrorWins
<1>1. Init => Inv
  <2> SUFFICES ASSUME Init PROVE Inv
    OBVIOUS
  <2>1. Len(input) \in Nat
    BY FilesAssumption, LenProperties DEF Init
  <2>2. stack \in Seq(Goals)
    BY NamesTyped, TuplesTyped DEF Init
  <2>3. ~RefusedBefore(1)
    BY DEF RefusedBefore
  <2>4. at = 1 /\ fatal = FALSE /\ result = "none"
    BY DEF Init
  <2>5. RefusedBefore(at) = RefusedBefore(1) /\ at \in Nat \ {0}
    BY <2>4
  <2>6. (fatal <=> RefusedBefore(at)) /\ fatal \in BOOLEAN
    BY <2>3, <2>4, <2>5
  <2> QED BY <2>1, <2>2, <2>4, <2>5, <2>6 DEF Inv
<1>2. Inv /\ [Next]_vars => Inv'
  <2> SUFFICES ASSUME Inv, [Next]_vars PROVE Inv'
    OBVIOUS
  <2> USE NamesTyped, NodesTyped, ListsTyped, TuplesTyped, ConcatProperties
  <2>1. CASE ExpectToken
    <3>1. stack # <<>> /\ stack[1] \in Goals /\ stack[1][1] = "expect"
      <4>1. stack # <<>> /\ stack[1][1] = "expect"
        BY <2>1 DEF ExpectToken, Runs
      <4> QED BY <4>1, TopTyped
    <3>2. arg # EOF
      BY <3>1, ExpectedTokens DEF arg
    <3>3. CASE tok = arg
      BY <2>1, <3>1, <3>2, <3>3, AcceptKeeps DEF ExpectToken
    <3>4. CASE tok # arg
      BY <2>1, <3>1, <3>4, FailKeeps DEF ExpectToken
    <3> QED BY <3>3, <3>4
  <2>2. CASE BuildNode
    <3>1. stack # <<>> /\ Tail(stack) \in Seq(Goals)
      BY <2>2, HeadTailProperties DEF BuildNode, Runs, Inv
    <3> QED BY <2>2, <3>1 DEF BuildNode, Inv, RefusedBefore
  <2>3. CASE ParseTranslationUnit
    <3>1. /\ <<Goal("finish")>> \in Seq(Goals)
          /\ <<Goal("type")>> \o Declarator \o <<Goal("external"), Goal("unit")>> \in Seq(Goals)
      OBVIOUS
    <3> QED BY <2>3, <3>1, LeaveKeeps DEF ParseTranslationUnit, Runs
  <2>4. CASE Finish
    <3>1. /\ result' = "fatal" <=> fatal
          /\ stack' = <<>> /\ UNCHANGED <<input, at, fatal>>
      BY <2>4 DEF Finish, Inv
    <3> QED BY <3>1 DEF Inv, RefusedBefore
  <2>5. CASE ParseExternalDeclaration
    <3>1. stack # <<>>
      BY <2>5 DEF ParseExternalDeclaration, Runs
    <3>2. <<Build("function"), Goal("params"), Expect(")"), Goal("body")>> \in Seq(Goals)
      OBVIOUS
    <3> QED BY <2>5, <3>1, <3>2, AcceptKeeps, LeaveKeeps DEF ParseExternalDeclaration, EOF
  <2>6. CASE ParseTypeName
    <3>1. stack # <<>>
      BY <2>6 DEF ParseTypeName, Runs
    <3>2. CASE tok \in Types /\ Take /\ Continue(<<Build(tok)>>)
      <4>1. <<Build(tok)>> \in Seq(Goals) /\ tok # EOF
        BY <3>2 DEF Types, EOF
      <4> QED BY <3>1, <3>2, <4>1, ContinueKeeps
    <3>3. CASE tok \in UnsupportedTypes /\ FailTaking("unsupported", TRUE)
      <4>1. tok # EOF
        BY <3>3 DEF UnsupportedTypes, EOF
      <4> QED BY <3>1, <3>3, <4>1, FailKeeps
    <3>4. CASE Fail("syntax")
      BY <3>1, <3>4, FailKeeps DEF Fail
    <3> QED BY <2>6, <3>2, <3>3, <3>4 DEF ParseTypeName
  <2>7. CASE ParseDeclarator
    <3>1. stack # <<>>
      BY <2>7 DEF ParseDeclarator, Runs
    <3>2. ASSUME tok = "*", Take, Continue(<<Build("*"), Goal("stars")>>) PROVE Inv'
      <4>1. tok # EOF
        BY <3>2 DEF EOF
      <4> QED BY <3>1, <3>2, <4>1, ContinueKeeps
    <3>3. ASSUME Leave(<<>>) PROVE Inv'
      BY <3>1, <3>3, LeaveKeeps
    <3>4. ASSUME Fail("unsupported") PROVE Inv'
      BY <3>1, <3>4, FailKeeps DEF Fail
    <3>5. ASSUME Continue(<<>>), UNCHANGED <<at, fatal>> PROVE Inv'
      BY <3>1, <3>5, ContinueKeeps
    <3>6. ASSUME stack' = Unwind(Tail(stack)), UNCHANGED <<input, at, fatal, result>> PROVE Inv'
      <4>1. stack' \in Seq(Goals)
        BY <3>1, <3>6, HeadTailProperties, UnwindTyped DEF Inv
      <4> QED BY <3>1, <3>6, <4>1 DEF Inv, RefusedBefore
    <3> QED BY <2>7, <3>2, <3>3, <3>4, <3>5, <3>6 DEF ParseDeclarator
  <2>8. CASE ParseParameterList
    <3>1. stack # <<>>
      BY <2>8 DEF ParseParameterList, Runs
    <3>2. <<Goal("noEllipsis")>> \o Parameter \in Seq(Goals)
      OBVIOUS
    <3> QED BY <2>8, <3>1, <3>2, StepKeeps DEF ParseParameterList, EOF
  <2>9. CASE ParseDeclarationTail
    <3>1. stack # <<>>
      BY <2>9 DEF ParseDeclarationTail, Runs
    <3>2. /\ WholeExpression \o <<Build("init"), Goal("declEnd")>> \in Seq(Goals)
          /\ <<Goal("declEnd")>> \in Seq(Goals) /\ <<Expect(";"), Build("decl")>> \in Seq(Goals)
      OBVIOUS
    <3> QED BY <2>9, <3>1, <3>2, StepKeeps DEF ParseDeclarationTail, EOF
  <2>10. CASE ParseStatement
    <3>1. stack # <<>>
      BY <2>10 DEF ParseStatement, Runs
    <3>2. /\ <<Goal("returnValue"), Build("return")>> \in Seq(Goals)
          /\ <<Build("if")>> \o Condition \o <<Goal("statement"), Goal("else"), Build("fi")>>
                 \in Seq(Goals)
          /\ <<Build("while")>> \o Condition \o <<Goal("statement")>> \in Seq(Goals)
          /\ <<Goal("expressionStatement"), Build("expression")>> \in Seq(Goals)
      OBVIOUS
    <3>3. <<Build("for"), Expect("("), Goal("forInit"), Goal("forCond"), Goal("forPost"),
            Expect(")"), Goal("statement")>> \in Seq(Goals)
      OBVIOUS
    <3> QED BY <2>10, <3>1, <3>2, <3>3, StepKeeps DEF ParseStatement, EOF
  <2>11. CASE ParseOptionalExpression
    <3>1. stack # <<>>
      BY <2>11 DEF ParseOptionalExpression, Runs
    <3>2. <<Build(";")>> \in Seq(Goals) /\ WholeExpression \o <<Expect(";")>> \in Seq(Goals)
      OBVIOUS
    <3> QED BY <2>11, <3>1, <3>2, StepKeeps DEF ParseOptionalExpression, EOF
  <2>12. CASE ParseElse
    <3>1. stack # <<>>
      BY <2>12 DEF ParseElse, Runs
    <3>2. <<Build("else"), Goal("statement")>> \in Seq(Goals)
      OBVIOUS
    <3> QED BY <2>12, <3>1, <3>2, StepKeeps DEF ParseElse, EOF
  <2>13. CASE ParseForStatement
    <3>1. stack # <<>>
      BY <2>13 DEF ParseForStatement, Runs
    <3>2. /\ <<Build(";")>> \in Seq(Goals) /\ <<Goal("forInitNonempty")>> \in Seq(Goals)
          /\ WholeExpression \o <<Expect(";")>> \in Seq(Goals)
      OBVIOUS
    <3> QED BY <2>13, <3>1, <3>2, StepKeeps DEF ParseForStatement, EOF
  <2>14. CASE ParseBlockStatement
    <3>1. stack # <<>>
      BY <2>14 DEF ParseBlockStatement, Runs
    <3>2. <<Build("}")>> \in Seq(Goals) /\ <<Goal("statement"), Goal("items")>> \in Seq(Goals)
      OBVIOUS
    <3> QED BY <2>14, <3>1, <3>2, StepKeeps DEF ParseBlockStatement, EOF
  <2>15. CASE ParseExpression
    <3>1. stack # <<>>
      BY <2>15 DEF ParseExpression, Runs
    <3>2. arg \in Nat
      <4>1. stack[1] \in Goals /\ stack[1][1] = "infix"
        BY <2>15, <3>1, TopTyped DEF ParseExpression, Runs
      <4> QED BY <4>1, InfixTyped DEF arg
    <3>3. ASSUME tok \in InfixOps
          PROVE  /\ tok # EOF
                 /\ Expression(Precedence[tok] + 1) \o <<Build(tok), Infix(arg)>> \in Seq(Goals)
      <4>1. Precedence[tok] + 1 \in Nat /\ tok # EOF
        BY <3>3, PrecedenceTyped
      <4>2. Build(tok) \in Goals /\ Infix(arg) \in Goals
        BY <3>2, <3>3, GoalsTyped
      <4>3. Expression(Precedence[tok] + 1) \in Seq(Goals) /\ <<Build(tok), Infix(arg)>> \in Seq(Goals)
        BY <4>1, <4>2
      <4> QED BY <4>1, <4>3
    <3>4. Expression(0) \o <<Build("="), Infix(0)>> \in Seq(Goals)
      BY GoalsTyped
    <3>5. /\ tok \in InfixOps \/ tok = "=" => tok # EOF
          /\ <<>> \in Seq(Goals)
      BY <3>3 DEF EOF
    <3>6. \/ \E goals \in Seq(Goals) : Leave(goals)
          \/ tok # EOF /\ \E goals \in Seq(Goals) : Accept(goals)
      BY <2>15, <3>3, <3>4, <3>5 DEF ParseExpression
    <3> QED BY <3>1, <3>6, StepKeeps
  <2>16. CASE ParseUnaryExpression
    <3>1. stack # <<>>
      BY <2>16 DEF ParseUnaryExpression, Runs
    <3>2. /\ tok \in PrefixOps => <<Goal("unary"), Build("unary"), Build(tok)>> \in Seq(Goals)
          /\ <<Goal("primary"), Goal("postfix")>> \in Seq(Goals)
          /\ tok \in PrefixOps => tok # EOF
      BY DEF PrefixOps, EOF
    <3> QED BY <2>16, <3>1, <3>2, StepKeeps DEF ParseUnaryExpression
  <2>17. CASE ParsePostfixExpression
    <3>1. stack # <<>>
      BY <2>17 DEF ParsePostfixExpression, Runs
    <3>2. <<Build("args"), Goal("args"), Expect(")"), Build("call"), Goal("postfix")>> \in Seq(Goals)
      OBVIOUS
    <3>3. /\ Expression(0) \o <<Goal("argTail")>> \in Seq(Goals)
          /\ <<Goal("moreArgs")>> \in Seq(Goals)
      OBVIOUS
    <3> QED BY <2>17, <3>1, <3>2, <3>3, StepKeeps DEF ParsePostfixExpression, EOF
  <2>18. CASE ParsePrimaryExpression
    <3>1. stack # <<>>
      BY <2>18 DEF ParsePrimaryExpression, Runs
    <3>2. /\ tok \in Literals => <<Build(tok)>> \in Seq(Goals) /\ tok # EOF
          /\ <<Goal("noCast")>> \o Expression(0) \o <<Expect(")")>> \in Seq(Goals)
      BY DEF Literals, EOF
    <3> QED BY <2>18, <3>1, <3>2, StepKeeps DEF ParsePrimaryExpression, EOF
  <2>19. CASE HasDisallowedExprTail
    <3>1. stack # <<>>
      BY <2>19 DEF HasDisallowedExprTail, Runs
    <3> QED BY <2>19, <3>1, StepKeeps DEF HasDisallowedExprTail
  <2>20. CASE SynchronizeStatement
    <3>1. stack # <<>>
      BY <2>20 DEF SynchronizeStatement, Runs
    <3>2. <<Goal("syncStatement")>> \in Seq(Goals)
      OBVIOUS
    <3> QED BY <2>20, <3>1, <3>2, StepKeeps DEF SynchronizeStatement, EOF
  <2>21. CASE SynchronizeTopLevel
    <3>1. stack # <<>>
      BY <2>21 DEF SynchronizeTopLevel, Runs
    <3>2. /\ <<Goal("finish")>> \in Seq(Goals) /\ <<Goal("syncTopLevel")>> \in Seq(Goals)
          /\ <<Goal("unit")>> \in Seq(Goals)
      OBVIOUS
    <3> QED BY <2>21, <3>1, <3>2, StepKeeps DEF SynchronizeTopLevel
  <2>22. CASE UNCHANGED vars
    BY <2>22 DEF vars, Inv, RefusedBefore
  <2> QED BY <2>1, <2>2, <2>3, <2>4, <2>5, <2>6, <2>7, <2>8, <2>9, <2>10, <2>11, <2>12, <2>13,
             <2>14, <2>15, <2>16, <2>17, <2>18, <2>19, <2>20, <2>21, <2>22 DEF Next
<1>3. Inv => FatalLexerErrorWins
  BY DEF Inv, FatalLexerErrorWins, RefusedBefore
<1> QED BY <1>1, <1>2, <1>3, PTL DEF Spec

=============================================================================
